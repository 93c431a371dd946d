------------------------------ MODULE RootLock ------------------------------
(***************************************************************************)
(* The projects-root lock: src/rootLock.ts, with the restart handover that *)
(* drives it (spawnReplacementAndExit and exitToSupervisor in              *)
(* src/restart.ts).  Servers are OS processes, possibly in different pid   *)
(* namespaces; each boots, runs acquireRootLock, holds the lock while it   *)
(* serves, relaunches itself through a child, exits, or is killed.         *)
(*                                                                         *)
(* The lock directory maps a generation to a record.  A record is judged   *)
(* only by whether the socket its token names still answers, so sockets    *)
(* are a set of tokens; the kernel empties it when a process dies.  One    *)
(* step is one file-system call or one probe, so a starved process can be  *)
(* overtaken anywhere.                                                     *)
(***************************************************************************)
EXTENDS Naturals, FiniteSets

CONSTANTS
  Server,       \* server processes' slots: a slot that is down may boot again
  MaxBoots,     \* bound: boots per slot
  MaxGen,       \* bound: no generation above it is prepared
  MaxAttempts,  \* ACQUIRE_ATTEMPTS
  NoRecord,     \* an absent <gen>.json
  NoToken       \* no offer presented; no record seen

Gen == 1..MaxGen
Token == Server \X Nat
Record == [token : Token, whole : BOOLEAN, offered : BOOLEAN]

ASSUME RootLockAssumption ==
  /\ MaxBoots \in Nat
  /\ MaxGen \in Nat
  /\ MaxAttempts \in Nat \ {0}
  /\ NoRecord \notin Record
  /\ NoToken \notin Token

VARIABLES
  createMode,  \* "link": a record is staged and published whole; "open": created, then written
  dir,         \* generation -> its record (the top-most one is the lock)
  sockets,     \* tokens whose listening socket answers
  pc,          \* server -> the call it makes next
  boots,       \* server -> boots so far; a boot mints one token
  ticket,      \* server -> the offer it was spawned with (CC_ROOT_LOCK_HANDOVER)
  attempt,     \* server -> passes of the acquire loop begun
  top,         \* server -> the highest generation it listed; 0 for none
  seen,        \* server -> the token of the record it read there
  staged,      \* server -> its staging file exists
  below,       \* server -> generations left to collect
  raced        \* history: a record was published over a top other than the one judged

locals == <<boots, ticket, attempt, top, seen>>
vars == <<createMode, dir, sockets, pc, boots, ticket, attempt, top, seen, staged, below, raced>>

PC == {"down", "list", "read", "probe", "stage", "publish", "write", "confirm", "backoff",
       "collect", "drop", "sweep", "hold", "offer", "spawn", "await", "checkOwn", "unlinkOwn",
       "close", "stranded"}

token(s) == <<s, boots[s]>>
mine(s) == top[s] + 1
Present == {g \in Gen : dir[g] # NoRecord}
TopGen == IF Present = {} THEN 0 ELSE CHOOSE g \in Present : \A h \in Present : h <= g
TopToken == IF Present = {} THEN NoToken ELSE dir[TopGen].token
Carries(g, t) == g \in Gen /\ dir[g] # NoRecord /\ dir[g].token = t
Ours(s) == Carries(mine(s), token(s)) /\ dir[mine(s)].whole

At(s, where) == pc[s] = where
Goto(s, where) == pc' = [pc EXCEPT ![s] = where]

CreateModes == {"link", "open"}

Init ==
  /\ createMode \in CreateModes
  /\ dir = [g \in Gen |-> NoRecord]
  /\ sockets = {}
  /\ pc = [s \in Server |-> "down"]
  /\ boots = [s \in Server |-> 0]
  /\ ticket = [s \in Server |-> NoToken]
  /\ attempt = [s \in Server |-> 0]
  /\ top = [s \in Server |-> 0]
  /\ seen = [s \in Server |-> NoToken]
  /\ staged = [s \in Server |-> FALSE]
  /\ below = [s \in Server |-> {}]
  /\ raced = FALSE

-----------------------------------------------------------------------------
(* acquireRootLock *)

\* Mutant of Boot: the record is published with no socket behind it yet.
BootUnheard(s, t) ==
  /\ At(s, "down")
  /\ boots[s] < MaxBoots
  /\ boots' = [boots EXCEPT ![s] = @ + 1]
  /\ UNCHANGED sockets
  /\ ticket' = [ticket EXCEPT ![s] = t]
  /\ attempt' = [attempt EXCEPT ![s] = 1]
  /\ Goto(s, "list")

\* A boot mints its token and listens before any record names it.  `t` is the
\* offer in its environment.
Boot(s, t) ==
  /\ At(s, "down")
  /\ boots[s] < MaxBoots
  /\ boots' = [boots EXCEPT ![s] = @ + 1]
  /\ sockets' = sockets \cup {<<s, boots[s] + 1>>}
  /\ ticket' = [ticket EXCEPT ![s] = t]
  /\ attempt' = [attempt EXCEPT ![s] = 1]
  /\ Goto(s, "list")

Start(s) ==
  /\ Boot(s, NoToken)
  /\ UNCHANGED <<createMode, dir, top, seen, staged, below, raced>>

\* Mutant of LookAgain: one pass too many.
LookAgainOnceMore(s) ==
  IF attempt[s] <= MaxAttempts
  THEN Goto(s, "list") /\ attempt' = [attempt EXCEPT ![s] = @ + 1]
  ELSE Goto(s, "close") /\ UNCHANGED attempt

\* Each `continue` of the loop; the last one throws, which closes the listener.
LookAgain(s) ==
  IF attempt[s] < MaxAttempts
  THEN Goto(s, "list") /\ attempt' = [attempt EXCEPT ![s] = @ + 1]
  ELSE Goto(s, "close") /\ UNCHANGED attempt

ListGens(s) ==
  /\ At(s, "list")
  /\ top' = [top EXCEPT ![s] = TopGen]
  /\ seen' = [seen EXCEPT ![s] = NoToken]
  /\ Goto(s, IF TopGen = 0 THEN "stage" ELSE "read")
  /\ UNCHANGED <<createMode, dir, sockets, boots, ticket, attempt, staged, below, raced>>

\* Mutant of ReadTop: any offering record is taken for an offer to us.
ReadTopAnyOffer(s) ==
  LET rec == dir[top[s]] IN
  /\ At(s, "read")
  /\ \/ rec = NoRecord /\ LookAgain(s) /\ UNCHANGED seen
     \/ rec # NoRecord /\ ~rec.whole /\ Goto(s, "close") /\ UNCHANGED <<attempt, seen>>
     \/ /\ rec # NoRecord /\ rec.whole
        /\ seen' = [seen EXCEPT ![s] = rec.token]
        /\ Goto(s, IF rec.offered THEN "stage" ELSE "probe")
        /\ UNCHANGED attempt
  /\ UNCHANGED <<createMode, dir, sockets, boots, ticket, top, staged, below, raced>>

\* Released under us: look again.  Unparseable: held, throw.  Offered to us: the
\* probe is skipped.
ReadTop(s) ==
  LET rec == dir[top[s]] IN
  /\ At(s, "read")
  /\ \/ rec = NoRecord /\ LookAgain(s) /\ UNCHANGED seen
     \/ rec # NoRecord /\ ~rec.whole /\ Goto(s, "close") /\ UNCHANGED <<attempt, seen>>
     \/ /\ rec # NoRecord /\ rec.whole
        /\ seen' = [seen EXCEPT ![s] = rec.token]
        /\ Goto(s, IF rec.offered /\ rec.token = ticket[s] THEN "stage" ELSE "probe")
        /\ UNCHANGED attempt
  /\ UNCHANGED <<createMode, dir, sockets, boots, ticket, top, staged, below, raced>>

\* Mutant of ProbeTop: a probe that times out is read as dead.
ProbeTopHasty(s) ==
  /\ At(s, "probe")
  /\ Goto(s, "close") \/ Goto(s, "stage")
  /\ UNCHANGED <<createMode, dir, sockets, locals, staged, below, raced>>

\* A connection means alive; a failure that is not a plain refusal is read as
\* alive too, so even a dead socket may refuse us.
ProbeTop(s) ==
  /\ At(s, "probe")
  /\ \/ Goto(s, "close")
     \/ seen[s] \notin sockets /\ Goto(s, "stage")
  /\ UNCHANGED <<createMode, dir, sockets, locals, staged, below, raced>>

\* prepareLockFileSync for the next generation.
Stage(s) ==
  /\ At(s, "stage")
  /\ mine(s) \in Gen
  /\ staged' = [staged EXCEPT ![s] = (createMode = "link")]
  /\ Goto(s, "publish")
  /\ UNCHANGED <<createMode, dir, sockets, locals, below, raced>>

\* The exclusive step.  A swept staging file (ENOENT) and a taken generation
\* (EEXIST) both mean: look again.
Publish(s) ==
  /\ At(s, "publish")
  /\ staged' = [staged EXCEPT ![s] = FALSE]
  /\ IF (createMode = "link" => staged[s]) /\ dir[mine(s)] = NoRecord
     THEN /\ dir' = [dir EXCEPT ![mine(s)] =
                       [token |-> token(s), whole |-> createMode = "link", offered |-> FALSE]]
          /\ Goto(s, IF createMode = "link" THEN "confirm" ELSE "write")
          /\ raced' = (raced \/ TopGen # top[s] \/ TopToken # seen[s])
          /\ UNCHANGED attempt
     ELSE LookAgain(s) /\ UNCHANGED <<dir, raced>>
  /\ UNCHANGED <<createMode, sockets, boots, ticket, top, seen, below>>

\* createInPlaceSync's write goes to the file it opened, which a collector may
\* have unlinked meanwhile; its failure unlinks by path and throws.
WriteRecord(s) ==
  /\ At(s, "write")
  /\ \/ /\ dir' = IF Carries(mine(s), token(s))
                  THEN [dir EXCEPT ![mine(s)].whole = TRUE] ELSE dir
        /\ Goto(s, "confirm")
     \/ dir' = [dir EXCEPT ![mine(s)] = NoRecord] /\ Goto(s, "close")
  /\ UNCHANGED <<createMode, sockets, locals, staged, below, raced>>

Confirm(s) ==
  /\ At(s, "confirm")
  /\ IF TopGen = mine(s)
     THEN /\ Goto(s, "collect")
          /\ below' = [below EXCEPT ![s] = {g \in Present : g < mine(s)}]
     ELSE Goto(s, "backoff") /\ UNCHANGED below
  /\ UNCHANGED <<createMode, dir, sockets, locals, staged, raced>>

\* Unlinks by path, without the token check a release makes.
BackOff(s) ==
  /\ At(s, "backoff")
  /\ dir' = [dir EXCEPT ![mine(s)] = NoRecord]
  /\ LookAgain(s)
  /\ UNCHANGED <<createMode, sockets, boots, ticket, top, seen, staged, below, raced>>

-----------------------------------------------------------------------------
(* collectBelow and sweepStaging *)

\* Mutant of Droppable: every record below ours goes.
DroppableAlways(rec) == TRUE

Droppable(rec) == ~rec.whole \/ rec.token \notin sockets

\* The lowest generation left to judge: a dead or unparseable record is dropped,
\* and its `below` entry stays until the unlink.
CollectJudge(s) ==
  /\ At(s, "collect")
  /\ below[s] # {}
  /\ \E g \in below[s] :
       /\ \A h \in below[s] : g <= h
       /\ \/ dir[g] # NoRecord /\ Droppable(dir[g]) /\ Goto(s, "drop") /\ UNCHANGED below
          \/ /\ dir[g] # NoRecord => dir[g].whole
             /\ below' = [below EXCEPT ![s] = @ \ {g}]
             /\ UNCHANGED pc
  /\ UNCHANGED <<createMode, dir, sockets, locals, staged, raced>>

CollectDrop(s) ==
  /\ At(s, "drop")
  /\ \E g \in below[s] :
       /\ \A h \in below[s] : g <= h
       /\ dir' = [dir EXCEPT ![g] = NoRecord]
       /\ below' = [below EXCEPT ![s] = @ \ {g}]
  /\ Goto(s, "collect")
  /\ UNCHANGED <<createMode, sockets, locals, staged, raced>>

Collected(s) ==
  /\ At(s, "collect")
  /\ below[s] = {}
  /\ Goto(s, "sweep")
  /\ UNCHANGED <<createMode, dir, sockets, locals, staged, below, raced>>

SweepStaging(s) ==
  /\ At(s, "sweep")
  /\ staged' = [t \in Server |-> FALSE]
  /\ Goto(s, "hold")
  /\ UNCHANGED <<createMode, dir, sockets, locals, below, raced>>

-----------------------------------------------------------------------------
(* The holder: handover and release *)

\* A relaunch, networking down.  offerHandover reads the record and, when it is
\* ours, renames the offering one over it; otherwise the lock is released.
CheckOffer(s) ==
  /\ At(s, "hold")
  /\ Goto(s, IF Ours(s) THEN "offer" ELSE "checkOwn")
  /\ UNCHANGED <<createMode, dir, sockets, locals, staged, below, raced>>

WriteOffer(s) ==
  /\ At(s, "offer")
  /\ \/ /\ dir' = [dir EXCEPT ![mine(s)] =
                     [token |-> token(s), whole |-> TRUE, offered |-> TRUE]]
        /\ Goto(s, "spawn")
     \/ Goto(s, "checkOwn") /\ UNCHANGED dir
  /\ UNCHANGED <<createMode, sockets, locals, staged, below, raced>>

\* The child boots with the offer in its environment.
SpawnChild(s, c) ==
  /\ At(s, "spawn")
  /\ pc[c] = "down" /\ boots[c] < MaxBoots
  /\ boots' = [boots EXCEPT ![c] = @ + 1]
  /\ sockets' = sockets \cup {<<c, boots[c] + 1>>}
  /\ ticket' = [ticket EXCEPT ![c] = token(s)]
  /\ attempt' = [attempt EXCEPT ![c] = 1]
  /\ pc' = [pc EXCEPT ![c] = "list", ![s] = "await"]
  /\ UNCHANGED <<createMode, dir, top, seen, staged, below, raced>>

\* The spawn throws: release, and stay alive serving nothing.
SpawnFails(s) ==
  /\ At(s, "spawn")
  /\ dir' = IF Ours(s) THEN [dir EXCEPT ![mine(s)] = NoRecord] ELSE dir
  /\ sockets' = sockets \ {token(s)}
  /\ Goto(s, "stranded")
  /\ UNCHANGED <<createMode, locals, staged, below, raced>>

\* awaitAdoption ends by adoption, by the child's exit or by its time limit, and
\* the parent exits whichever it was; exitToSupervisor, any other exit and a boot
\* that fails after the acquire release the same way.
BeginExit(s) ==
  /\ pc[s] \in {"await", "hold"}
  /\ Goto(s, "checkOwn")
  /\ UNCHANGED <<createMode, dir, sockets, locals, staged, below, raced>>

\* releaseSync: the token check, the unlink, the listener.
CheckOwn(s) ==
  /\ At(s, "checkOwn")
  /\ Goto(s, IF Ours(s) THEN "unlinkOwn" ELSE "close")
  /\ UNCHANGED <<createMode, dir, sockets, locals, staged, below, raced>>

UnlinkOwn(s) ==
  /\ At(s, "unlinkOwn")
  /\ dir' = [dir EXCEPT ![mine(s)] = NoRecord]
  /\ Goto(s, "close")
  /\ UNCHANGED <<createMode, sockets, locals, staged, below, raced>>

\* The process is gone: its socket answers no more and its locals are nothing.
Gone(s) ==
  /\ sockets' = sockets \ {token(s)}
  /\ ticket' = [ticket EXCEPT ![s] = NoToken]
  /\ attempt' = [attempt EXCEPT ![s] = 0]
  /\ top' = [top EXCEPT ![s] = 0]
  /\ seen' = [seen EXCEPT ![s] = NoToken]
  /\ staged' = [staged EXCEPT ![s] = FALSE]
  /\ below' = [below EXCEPT ![s] = {}]
  /\ Goto(s, "down")
  /\ UNCHANGED <<createMode, boots, raced>>

\* closeListener, and the exit that follows it.
Close(s) ==
  /\ At(s, "close")
  /\ Gone(s)
  /\ UNCHANGED dir

\* Killed anywhere: no exit handler runs, the records stay.
Crash(s) ==
  /\ pc[s] # "down"
  /\ Gone(s)
  /\ UNCHANGED dir

Acquiring(s) ==
  \/ ListGens(s) \/ ReadTop(s) \/ ProbeTop(s) \/ Stage(s) \/ Publish(s) \/ WriteRecord(s)
  \/ Confirm(s) \/ BackOff(s) \/ CollectJudge(s) \/ CollectDrop(s) \/ Collected(s)
  \/ SweepStaging(s)

Leaving(s) ==
  \/ CheckOffer(s) \/ WriteOffer(s) \/ SpawnFails(s) \/ BeginExit(s)
  \/ CheckOwn(s) \/ UnlinkOwn(s) \/ Close(s)

Next ==
  \/ \E s \in Server : Start(s) \/ Acquiring(s) \/ Leaving(s) \/ Crash(s)
  \/ \E s, c \in Server : SpawnChild(s, c)

Spec == Init /\ [][Next]_vars

-----------------------------------------------------------------------------
(* Properties *)

\* Types: the acquire loop stays within its attempts, every generation within the directory.
TypeOK ==
  /\ createMode \in CreateModes
  /\ dir \in [Gen -> Record \cup {NoRecord}]
  /\ sockets \subseteq Token
  /\ pc \in [Server -> PC]
  /\ boots \in [Server -> 0..MaxBoots]
  /\ ticket \in [Server -> Token \cup {NoToken}]
  /\ attempt \in [Server -> 0..MaxAttempts]
  /\ top \in [Server -> 0..MaxGen]
  /\ seen \in [Server -> Token \cup {NoToken}]
  /\ staged \in [Server -> BOOLEAN]
  /\ below \in [Server -> SUBSET Gen]
  /\ raced \in BOOLEAN

\* A server that has the lock and is not on its way out.
Serving(s) == pc[s] \in {"collect", "drop", "sweep", "hold"}

\* "At most one cc server runs on a projects root", and "a contender that judged
\* a generation dead can never make a second holder out of it".  Refuted: a clean
\* release empties the directory, the next boot takes generation 1 again, and a
\* contender that judged the old record 1 dead still publishes 2 over it.
OneServer == \A s, t \in Server : Serving(s) /\ Serving(t) => s = t

\* What does hold: one server, as long as no record was published over a top
\* record other than the one its publisher judged.
OneServerUnlessRaced == ~raced => OneServer

\* The serving server's own record is the lock all along: present, complete, its
\* own, the highest.  No collector, back-off or late release took it.
HolderIsTop ==
  ~raced => \A s \in Server : Serving(s) => Ours(s) /\ TopGen = mine(s)

\* A live top record is superseded only through its own offer: while its socket
\* answers, the generation above it goes to the child that presents the offer.
\* So a third server cannot slip in between a relaunching parent and its child.
SupersededByChildOnly ==
  [][ ~raced' /\ TopToken \in sockets /\ TopGen' > TopGen
        => /\ dir[TopGen].offered
           /\ ticket[TopToken'[1]] = TopToken ]_vars

\* "Never deleted while its socket answers", where records are published whole: a
\* listening process's record leaves the directory only by a step of its own,
\* although a collector and a back-off unlink by path.
LiveRecordKept ==
  [][ createMode = "link" /\ ~raced' =>
        \A g \in Gen, s \in Server :
          Carries(g, token(s)) /\ token(s) \in sockets /\ ~Carries(g, token(s))'
            => pc'[s] # pc[s] ]_vars
=============================================================================
