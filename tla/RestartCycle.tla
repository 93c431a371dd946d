---------------------------- MODULE RestartCycle ----------------------------
(***************************************************************************)
(* "Resume after restart": the drain and the hand-back of                  *)
(* src/resumeRestart.ts and src/restart.ts in the old server, the manifest *)
(* of src/resumeManifest.ts, and in the new one the staggered restore      *)
(* beside resumes the browser asks for (InstanceManager.create).           *)
(*                                                                         *)
(* Networking stays up while the old server drains and installs: users     *)
(* prompt, background jobs end, CLIs are relaunched or exit.  Only what    *)
(* runs between two events of Node's loop is one step.                     *)
(***************************************************************************)
EXTENDS Naturals, FiniteSets

CONSTANTS
  Session,       \* sessions, by public id
  NoSession,
  Spawner,       \* session -> the session that spawned it
  Parked,        \* top-level sessions stopped for overage, with a deadline to carry
  Mortal,        \* sessions whose CLI may exit on its own; they have spawned no other
  Relaunchable,  \* sessions a prune or a model switch may relaunch
  MaxEvents,     \* bound of a run: prompts, jobs, relaunches, exits and browser resumes
  MaxRestarts,   \* bound of a run: restarts
  MaxCrashes     \* bound of a run: crashes of the server

ASSUME RestartAssumption ==
  /\ NoSession \notin Session
  /\ Spawner \in [Session -> Session \union {NoSession}]
  /\ Parked \union Mortal \union Relaunchable \subseteq Session
  /\ \A s \in Session : Spawner[s] \notin Mortal
  /\ {MaxEvents, MaxRestarts, MaxCrashes} \subseteq Nat

VARIABLES
  stage,        \* what runRestart is doing
  drift,        \* node_modules has to be installed after the drain
  cli,          \* session -> its CLI process
  jobs,         \* sessions with background work
  waits,        \* armed wakes: <<owner, target>>
  waking,       \* sessions a wake was consumed for and is about to be sent to
  interrupted,  \* sessions whose running turn has been told to stop
  busyAtDrain,  \* what the drain found with resumable work
  live,         \* the sessions it found live
  pending,      \* the sessions it still waits for
  manifest,     \* pending-resume.json: its entries, and those with wasBusy
  todo,         \* the restore: entries its loop has not reached
  wasBusy,      \* the restore: entries to be prompted
  restoring,    \* the restore: the entry its loop is at
  at,           \* what the loop waits for there
  resolving,    \* create({resume}) calls, <<session, caller>>, that still look the session up
  claimed,      \* those that hold the session (_resumingPublicIds) and will spawn its CLI
  counts,       \* events, restarts and crashes so far
  cut,          \* history: top-level sessions under which the drain has ended work
  late,         \* history: top-level sessions with no process when the drain looked, or with work since
  due,          \* history: session -> what the last restart owes it
  notices       \* history: session -> restart notices since the last manifest

restart == <<stage, drift, busyAtDrain, live, pending>>
wakes == <<jobs, waits, waking, interrupted>>
restore == <<todo, wasBusy, restoring, at>>
creates == <<resolving, claimed>>
history == <<cut, late, due, notices>>
vars == <<restart, cli, wakes, manifest, restore, creates, counts, history>>

Stage == {"serving", "draining", "installing", "down"}
\* "prune", "switch": relaunching, no process; only a model switch is waited for.
Cli == {"gone", "starting", "idle", "turn", "prune", "switch"}
\* Who calls create for a session: the restore, a browser by its public id, or by another name.
Caller == {"loop", "browser", "alias"}
Nothing == [entries |-> {}, busy |-> {}]

Proc(s) == cli[s] \in {"starting", "idle", "turn"}
Top == {s \in Session : Spawner[s] = NoSession}
Above(s, S) == s \in S /\ \A x \in S : Spawner[x] \in S \union {NoSession}
\* The spawn tree has no cycle: a session is spawned by one that was there before it.
ASSUME RootAssumption ==
  \A s \in Session : \E r \in Top : \A S \in SUBSET Session : Above(s, S) => r \in S
Root(s) == CHOOSE r \in Top : \A S \in SUBSET Session : Above(s, S) => r \in S
\* The top-level sessions of S, and those a session of S was spawned by.
Owners(S) == Top \intersect (S \union {Spawner[s] : s \in S})
Up == stage # "down"
suspended == stage \in {"draining", "installing"}

\* The drain has nothing left to wait for: what follows runs before the next event.
Drained == stage = "draining" /\ pending = {}
Event == Up /\ ~Drained /\ counts.events < MaxEvents /\ counts' = [counts EXCEPT !.events = @ + 1]
Quiet == UNCHANGED <<manifest, restore, creates>>

Init ==
  /\ stage = "serving" /\ drift = FALSE
  /\ cli = [s \in Session |-> "idle"]
  /\ jobs = {} /\ waits = {} /\ waking = {} /\ interrupted = {}
  /\ busyAtDrain = {} /\ live = {} /\ pending = {}
  /\ manifest = Nothing
  /\ todo = {} /\ wasBusy = {} /\ restoring = NoSession /\ at = "none"
  /\ resolving = {} /\ claimed = {}
  /\ counts = [events |-> 0, restarts |-> 0, crashes |-> 0]
  /\ cut = {} /\ late = {}
  /\ due = [s \in Session |-> "nothing"]
  /\ notices = [s \in Session |-> 0]

-----------------------------------------------------------------------------
(* Turns and wakes while the server is up *)

\* History: work begins under a session the drain did not find busy.
Begins(s) == late' = IF suspended THEN late \union ({Root(s)} \ busyAtDrain) ELSE late

\* A turn starts: its owner is armed for the wake.
StartsTurn(s) ==
  /\ cli' = [cli EXCEPT ![s] = "turn"]
  /\ waits' = waits \union {<<c, s>> : c \in {x \in Session : x = Spawner[s] /\ cli[x] # "gone"}}
  /\ Begins(s)

\* deliver: dropped while wakes are suspended, and then the drain has to answer for it.
Deliver(C) ==
  LET reached == {c \in C : Proc(c)}
  IN  IF suspended
      THEN waking' = waking /\ cut' = cut \union ((Top \intersect reached) \ late)
      ELSE waking' = waking \union reached /\ cut' = cut

\* waitAllIdle's listener: a session that has once left its turn is not waited for again.
Left(s) == pending' = pending \ {s}

\* A prompt from a user or from another session's tool; mid-turn it is a steer.
Prompt(s) ==
  /\ Event /\ Proc(s)
  /\ IF cli[s] = "turn" THEN UNCHANGED <<cli, waits, late>> ELSE StartsTurn(s)
  /\ UNCHANGED <<restart, jobs, waking, interrupted, cut, due, notices>> /\ Quiet

\* A turn ends and wakes its owner, unless s waits on a wake itself (WakeHub has the whole rule).
TurnEnds(s) ==
  /\ Up /\ ~Drained /\ cli[s] = "turn"
  /\ LET holds == s \in waking \/ \E t \in Session : <<s, t>> \in waits /\ cli[t] # "gone"
         woken == IF holds THEN {} ELSE {c \in Session : <<c, s>> \in waits}
     IN  waits' = waits \ {<<c, s>> : c \in woken} /\ Deliver(woken)
  /\ cli' = [cli EXCEPT ![s] = "idle"]
  /\ interrupted' = interrupted \ {s}
  /\ Left(s)
  /\ UNCHANGED <<stage, drift, busyAtDrain, live, jobs, late, due, notices, counts>> /\ Quiet

\* A wake consumed earlier is sent; it does not ask again whether wakes are suspended.
SendWake(c) ==
  /\ Up /\ c \in waking
  /\ waking' = waking \ {c}
  /\ IF cli[c] \in {"starting", "idle"} THEN StartsTurn(c) ELSE UNCHANGED <<cli, waits, late>>
  /\ UNCHANGED <<restart, jobs, interrupted, cut, due, notices, counts>> /\ Quiet

JobStarts(s) ==
  /\ Event /\ cli[s] = "turn" /\ s \notin jobs
  /\ jobs' = jobs \union {s}
  /\ Begins(s)
  /\ UNCHANGED <<restart, cli, waits, waking, interrupted, cut, due, notices>> /\ Quiet

\* A job ends: an idle CLI starts a turn for it on its own.
JobEnds(s) ==
  /\ Up /\ ~Drained /\ s \in jobs /\ Proc(s)
  /\ jobs' = jobs \ {s}
  /\ IF cli[s] = "turn" THEN UNCHANGED <<cli, waits, late>> ELSE StartsTurn(s)
  /\ UNCHANGED <<restart, waking, interrupted, cut, due, notices, counts>> /\ Quiet

\* A prune or a model switch of an idle session: its process goes, and comes back.
Relaunch(s) ==
  /\ Event /\ s \in Relaunchable /\ cli[s] = "idle"
  /\ \E gap \in {"prune", "switch"} : cli' = [cli EXCEPT ![s] = gap]
  /\ jobs' = jobs \ {s}
  /\ UNCHANGED <<restart, waits, waking, interrupted, history>> /\ Quiet

Relaunched(s) ==
  /\ Up /\ ~Drained /\ cli[s] \in {"prune", "switch"}
  /\ cli' = [cli EXCEPT ![s] = "idle"]
  /\ Left(s)
  /\ UNCHANGED <<stage, drift, busyAtDrain, live, wakes, counts, history>> /\ Quiet

\* A CLI exits on its own: its owner is told at once.  Its instance is done with, and if the session
\* is resumed it has a new one, which the drain does not know.
Exit(s) ==
  /\ Event /\ s \in Mortal /\ Proc(s)
  /\ cli' = [cli EXCEPT ![s] = "gone"]
  /\ waits' = {e \in waits : e[2] # s}
  /\ IF Spawner[s] # NoSession THEN Deliver({c \in Session : <<c, s>> \in waits})
     ELSE waking' = waking /\ cut' = cut \ {s}
  /\ jobs' = jobs \ {s}
  /\ interrupted' = interrupted \ {s}
  /\ busyAtDrain' = busyAtDrain \ {s} /\ live' = live \ {s}
  /\ Left(s)
  /\ UNCHANGED <<stage, drift, late, due, notices>> /\ Quiet

-----------------------------------------------------------------------------
(* The drain *)

\* isIdleCaller
IdleCaller(s) == s \in waking \/ \E t \in Session : <<s, t>> \in waits

MidTurn == {s \in Session : cli[s] = "turn"}
Awaited == MidTurn \union {s \in Session : cli[s] = "switch"}
Living == {s \in Session : Proc(s)}

\* History: the top-level sessions that lose a turn, a direct worker's turn or a wake now.
Stopped == Owners(MidTurn) \union (Top \intersect (waking \union {e[1] : e \in waits}))

\* Mutant of BusyNow: only a running turn counts as work.
BusyNowMidTurn == MidTurn

\* A session mid-turn, or idle and waiting for a wake.
BusyNow == {s \in Living : cli[s] = "turn" \/ IdleCaller(s)}

\* drainToIdle up to its wait: the snapshots, wakes suspended, a soft stop for every running turn.
\* One restart at a time (withMaintenanceLock); a restore may still be under way.
BeginDrain ==
  /\ stage = "serving" /\ counts.restarts < MaxRestarts
  /\ counts' = [counts EXCEPT !.restarts = @ + 1]
  /\ stage' = "draining"
  /\ drift' \in BOOLEAN
  /\ live' = Living
  /\ busyAtDrain' = BusyNow
  /\ interrupted' = interrupted \union MidTurn
  /\ pending' = Awaited
  /\ late' = Top \ Living
  /\ cut' = Stopped \ late'
  /\ UNCHANGED <<cli, jobs, waits, waking, due, notices>> /\ Quiet

\* Mutant of GraceElapses: it waits again without forcing anyone.
GraceElapsesGently ==
  /\ stage = "draining" /\ pending # {}
  /\ pending' = Awaited
  /\ UNCHANGED <<stage, drift, busyAtDrain, live, cli, wakes, counts, history>> /\ Quiet

\* The grace window is over: every session found live is forced, and the wait starts anew with
\* whoever is busy now.
GraceElapses ==
  /\ stage = "draining" /\ pending # {}
  /\ interrupted' = interrupted \union (MidTurn \intersect live)
  /\ pending' = Awaited
  /\ UNCHANGED <<stage, drift, busyAtDrain, live, cli, jobs, waits, waking, counts, history>> /\ Quiet

\* runRestart goes on: straight to the end, or to the install.
BeginInstall ==
  /\ Drained /\ drift
  /\ stage' = "installing"
  /\ UNCHANGED <<drift, busyAtDrain, live, pending, cli, wakes, counts, history>> /\ Quiet

\* Mutant of Told: sessions that only waited for a wake are not told.
ToldMidTurn(s) == s \in busyAtDrain /\ Proc(s) /\ s \in Top /\ s \in interrupted

\* Whom abortDrain prompts: every busy session that is not a worker.
Told(s) == s \in busyAtDrain /\ Proc(s) /\ s \in Top

\* The install or the web build fails: wakes are delivered again and the sessions are told.
AbortDrain ==
  /\ stage = "installing"
  /\ stage' = "serving"
  /\ cli' = [s \in Session |-> IF Told(s) THEN "turn" ELSE cli[s]]
  /\ cut' = {s \in cut : ~Told(s) /\ Proc(s)}
  /\ UNCHANGED <<drift, busyAtDrain, live, pending, wakes, late, due, notices, counts>> /\ Quiet

-----------------------------------------------------------------------------
(* The manifest *)

\* Mutant of LosesJobs: only the session's own background work counts.
LosesJobsOwn(s) == s \in Top /\ s \in jobs

\* holdsBackgroundWork, of a top-level session or anywhere in the subtree the drain saw under it.
LosesJobs(s) == s \in Top /\ (s \in jobs \/ \E t \in jobs : Root(t) = s /\ s \in live /\ Proc(t))

\* finishDrain, then the exit: the entries of every live session, in one atomic write that may
\* fail; with no entries there is no write.
FinishDrain ==
  /\ (Drained /\ ~drift) \/ stage = "installing"
  /\ stage' = "down"
  /\ \E written \in BOOLEAN :
       LET busy == {s \in Living : s \in busyAtDrain \/ LosesJobs(s)}
           owed == cut \union ((Stopped \union {Root(s) : s \in jobs}) \ late)
       IN  /\ manifest' = IF written /\ Living # {} THEN [entries |-> Living, busy |-> busy] ELSE manifest
           /\ due' = [s \in Session |->
                        IF s \notin Top \/ ~Proc(s) \/ ~written THEN "nothing"
                        ELSE IF s \in owed THEN "notice" ELSE "return"]
  /\ notices' = [s \in Session |-> 0]
  /\ cli' = [s \in Session |-> "gone"]
  /\ jobs' = {} /\ waits' = {} /\ waking' = {} /\ interrupted' = {}
  /\ pending' = {} /\ busyAtDrain' = {} /\ live' = {}
  /\ todo' = {} /\ wasBusy' = {} /\ restoring' = NoSession /\ at' = "none"
  /\ resolving' = {} /\ claimed' = {}
  /\ cut' = {} /\ late' = {}
  /\ UNCHANGED <<drift, counts>>

\* The server dies without a drain, or in the middle of one.  What the manifest on disk says is
\* still owed; the rest is lost, the entries of a restore under way among it.
Crash ==
  /\ Up /\ counts.crashes < MaxCrashes
  /\ counts' = [counts EXCEPT !.crashes = @ + 1]
  /\ stage' = "down"
  /\ due' = [s \in Session |-> "nothing"]
  /\ cli' = [s \in Session |-> "gone"]
  /\ jobs' = {} /\ waits' = {} /\ waking' = {} /\ interrupted' = {}
  /\ pending' = {} /\ busyAtDrain' = {} /\ live' = {}
  /\ todo' = {} /\ wasBusy' = {} /\ restoring' = NoSession /\ at' = "none"
  /\ resolving' = {} /\ claimed' = {}
  /\ cut' = {} /\ late' = {}
  /\ UNCHANGED <<drift, manifest, notices>>

\* Mutant of Boot: the manifest is removed only once the restore is through.
BootKeepsManifest ==
  /\ stage = "down"
  /\ stage' = "serving"
  /\ todo' = manifest.entries \intersect Top
  /\ wasBusy' = manifest.busy
  /\ UNCHANGED <<drift, busyAtDrain, live, pending, cli, wakes, restoring, at, creates, counts, history, manifest>>

\* The new server listens, and reads and removes the manifest in the same step.
Boot ==
  /\ stage = "down"
  /\ stage' = "serving"
  /\ todo' = manifest.entries \intersect Top
  /\ wasBusy' = manifest.busy
  /\ manifest' = Nothing
  /\ UNCHANGED <<drift, busyAtDrain, live, pending, cli, wakes, restoring, at, creates, counts, history>>

-----------------------------------------------------------------------------
(* create({resume}), from the restore or from a browser *)

ComingUp(s) == cli[s] # "gone" \/ \E who \in Caller : <<s, who>> \in claimed
\* Calls that name the session by its public id share one _doCreate.
InFlight(s, who) == <<s, who>> \in resolving \union claimed
Coalesces(s, who) == \E other \in Caller :
  InFlight(s, other) /\ (other = who \/ {other, who} = {"loop", "browser"})

\* Mutant of LoopDrops: what the loop waited for is not reset.
LoopForgets == restoring' = NoSession /\ at' = at /\ due' = [due EXCEPT ![restoring] = "nothing"]

\* The loop has been refused, or has waited in vain: its entry is dropped.
LoopDrops == restoring' = NoSession /\ at' = "none" /\ due' = [due EXCEPT ![restoring] = "nothing"]
LoopAwaits(s, who) == restoring = s /\ at = who

BrowserResumes(s, who) ==
  /\ Event /\ who # "loop" /\ s \in Top
  /\ ~Proc(s) /\ ~Coalesces(s, who)
  /\ resolving' = resolving \union {<<s, who>>}
  /\ UNCHANGED <<restart, cli, wakes, manifest, restore, claimed, history>>

\* Mutant of Claim: the lookup's answer is trusted although others ran meanwhile.
ClaimBlindly(s, who) ==
  /\ Up /\ ~Drained /\ <<s, who>> \in resolving
  /\ resolving' = resolving \ {<<s, who>>}
  /\ claimed' = claimed \union {<<s, who>>}
  /\ UNCHANGED <<todo, wasBusy, restoring, at, due>>
  /\ UNCHANGED <<restart, cli, wakes, manifest, counts, cut, late, notices>>

\* The lookup has come back.  Check and claim are one step: a session already coming up is refused.
Claim(s, who) ==
  /\ Up /\ ~Drained /\ <<s, who>> \in resolving
  /\ resolving' = resolving \ {<<s, who>>}
  /\ IF ComingUp(s)
     THEN /\ claimed' = claimed
          /\ IF LoopAwaits(s, who) THEN LoopDrops ELSE UNCHANGED <<restoring, at, due>>
     ELSE /\ claimed' = claimed \union {<<s, who>>}
          /\ UNCHANGED <<restoring, at, due>>
  /\ UNCHANGED <<restart, cli, wakes, manifest, todo, wasBusy, counts, cut, late, notices>>

\* The CLI is spawned, and whoever awaits the create goes on.
Spawned(s, who) ==
  /\ Up /\ ~Drained /\ <<s, who>> \in claimed
  /\ claimed' = claimed \ {<<s, who>>}
  /\ cli' = [cli EXCEPT ![s] = "starting"]
  /\ at' = IF LoopAwaits(s, who) THEN "idle" ELSE at
  /\ UNCHANGED <<restart, wakes, manifest, todo, wasBusy, restoring, resolving, counts, history>>

\* A validation or the spawn itself fails.
SpawnFails(s, who) ==
  /\ Up /\ ~Drained /\ <<s, who>> \in claimed
  /\ claimed' = claimed \ {<<s, who>>}
  /\ IF LoopAwaits(s, who) THEN LoopDrops ELSE UNCHANGED <<restoring, at, due>>
  /\ UNCHANGED <<restart, cli, wakes, manifest, todo, wasBusy, resolving, counts, cut, late, notices>>

\* loadHistory is done.
Ready(s) ==
  /\ Up /\ ~Drained /\ cli[s] = "starting"
  /\ cli' = [cli EXCEPT ![s] = "idle"]
  /\ UNCHANGED <<restart, wakes, counts, history>> /\ Quiet

-----------------------------------------------------------------------------
(* restoreFromResumeManifest's loop *)

\* Mutant of NextEntry: a session a browser is resuming already is taken for restored.
NextEntrySkips(s) ==
  /\ Up /\ ~Drained /\ restoring = NoSession /\ s \in todo
  /\ todo' = todo \ {s}
  /\ IF Proc(s) \/ InFlight(s, "browser")
     THEN UNCHANGED <<restoring, at, resolving>>
     ELSE restoring' = s /\ at' = "loop" /\ resolving' = resolving \union {<<s, "loop">>}
  /\ UNCHANGED <<restart, cli, wakes, manifest, wasBusy, claimed, counts, history>>

\* The next entry, after the stagger: a live session is adopted, a browser's create is shared.
NextEntry(s) ==
  /\ Up /\ ~Drained /\ restoring = NoSession /\ s \in todo
  /\ todo' = todo \ {s}
  /\ restoring' = s
  /\ IF Proc(s) THEN at' = "idle" /\ UNCHANGED resolving
     ELSE IF InFlight(s, "browser") THEN at' = "browser" /\ UNCHANGED resolving
     ELSE at' = "loop" /\ resolving' = resolving \union {<<s, "loop">>}
  /\ UNCHANGED <<restart, cli, wakes, manifest, wasBusy, claimed, counts, history>>

\* The entry's session is idle.  An overage deadline the policy still honours is set again and
\* brings its own prompt; else a session that had work is told; else it is back in silence.
Restored ==
  /\ Up /\ ~Drained /\ at = "idle" /\ cli[restoring] = "idle"
  /\ restoring' = NoSession /\ at' = "none"
  /\ due' = [due EXCEPT ![restoring] = "nothing"]
  /\ \E honoured \in BOOLEAN :
       /\ honoured => restoring \in Parked
       /\ IF restoring \in wasBusy /\ ~honoured
          THEN /\ StartsTurn(restoring)
               /\ notices' = [notices EXCEPT ![restoring] = @ + 1]
          ELSE UNCHANGED <<cli, waits, late, notices>>
  /\ UNCHANGED <<restart, jobs, waking, interrupted, manifest, todo, wasBusy, creates, counts, cut>>

\* Mutant of WaitFails: the wait has no time limit, it ends only with the CLI.
WaitFailsOnExit ==
  /\ Up /\ ~Drained /\ at = "idle" /\ cli[restoring] = "gone"
  /\ LoopDrops
  /\ UNCHANGED <<restart, cli, wakes, manifest, todo, wasBusy, creates, counts, cut, late, notices>>

\* waitForIdleOnce gives up after a minute, or sees the CLI go: no notice.
WaitFails ==
  /\ Up /\ ~Drained /\ at = "idle" /\ cli[restoring] # "idle"
  /\ LoopDrops
  /\ UNCHANGED <<restart, cli, wakes, manifest, todo, wasBusy, creates, counts, cut, late, notices>>

LoopSteps == Restored \/ WaitFails \/ \E s \in Session : NextEntry(s)
CreateSteps(s) == \E who \in Caller : Claim(s, who) \/ Spawned(s, who) \/ SpawnFails(s, who)

Next ==
  \/ \E s \in Session :
       \/ Prompt(s) \/ TurnEnds(s) \/ SendWake(s) \/ JobStarts(s) \/ JobEnds(s)
       \/ Relaunch(s) \/ Relaunched(s) \/ Exit(s) \/ Ready(s)
       \/ CreateSteps(s)
       \/ \E who \in Caller : BrowserResumes(s, who)
  \/ BeginDrain \/ GraceElapses \/ BeginInstall \/ AbortDrain \/ FinishDrain
  \/ Crash \/ Boot \/ LoopSteps

Spec == Init /\ [][Next]_vars

\* An interrupted turn ends, a relaunch and a create come to an end, timers fire.  A turn nobody
\* interrupts may last for ever, and nobody has to prompt, restart or crash.
Fairness ==
  /\ \A s \in Session :
       /\ WF_vars(s \in interrupted /\ TurnEnds(s))
       /\ WF_vars(Relaunched(s)) /\ WF_vars(Ready(s)) /\ WF_vars(SendWake(s))
       /\ WF_vars(CreateSteps(s))
  /\ WF_vars(GraceElapses) /\ WF_vars(BeginInstall)
  /\ WF_vars(FinishDrain) /\ WF_vars(Boot) /\ WF_vars(LoopSteps)

FairSpec == Spec /\ Fairness

-----------------------------------------------------------------------------
(* Properties *)

\* Types; and what the loop waits for there belongs to the entry it is at.
TypeOK ==
  /\ stage \in Stage /\ drift \in BOOLEAN
  /\ cli \in [Session -> Cli]
  /\ waits \subseteq Session \X Session
  /\ jobs \union waking \union interrupted \union busyAtDrain \union live \union pending \subseteq Session
  /\ manifest.entries \subseteq Session /\ manifest.busy \subseteq manifest.entries
  /\ todo \subseteq Top /\ wasBusy \subseteq Session
  /\ restoring \in Top \union {NoSession}
  /\ at \in {"none", "loop", "browser", "idle"} /\ (at = "none" <=> restoring = NoSession)
  /\ resolving \union claimed \subseteq Session \X Caller
  /\ counts \in [events : 0..MaxEvents, restarts : 0..MaxRestarts, crashes : 0..MaxCrashes]
  /\ cut \union late \subseteq Top
  /\ due \in [Session -> {"nothing", "return", "notice"}]
  /\ notices \in [Session -> Nat]

\* Two CLIs never run on one transcript, nor is a second one on its way: of the restore, a browser
\* resuming by public id and one by another name, one spawns and the others share or are refused.
OneCli ==
  \A s \in Session :
    Cardinality({who \in Caller : <<s, who>> \in claimed}) + (IF cli[s] = "gone" THEN 0 ELSE 1) <= 1

\* While the server drains, whatever it ends is on its list of those to be told: the turns it stops,
\* the wakes it drops, at any depth of the spawn tree.  (Left out,
\* as `late`: a session between two processes when the list was made, which no list can name, and
\* work that begins after it under a session not on it.)
CutIsListed == suspended => cut \subseteq busyAtDrain

\* A top-level session that lost work to the restart, and one that was merely open, is on its way
\* back at every step: in the manifest, in the loop's list or at its head, marked as busy if it lost
\* work.  It ends only with the notice, the re-armed deadline, or a failure of its own.
OnItsWay ==
  \A s \in Session :
    LET ahead == s \in todo \/ restoring = s
    IN  /\ due[s] # "nothing" => s \in manifest.entries \/ ahead
        /\ due[s] = "notice" => s \in manifest.busy \/ (s \in wasBusy /\ ahead)

\* A restart notice arrives once: neither a crash in the restore nor a browser's resume repeats it.
NoticeOnce == \A s \in Session : notices[s] <= 1

\* A refused restart leaves no session that lost work without a word.
AbortTellsAll == [][stage = "installing" /\ stage' = "serving" => cut' = {}]_vars

\* The drain ends although sessions are prompted throughout: whoever the first stop missed is forced
\* when the grace window is over.  (Only sessions the drain found live are: it may wait for ever for a
\* turn of one that was relaunching, or resumed, at that moment.)
DrainEnds == stage = "draining" ~> stage # "draining" \/ ~(pending \subseteq live)

\* The restore ends although sessions it resumes are prompted, relaunched or lost, and although
\* browsers resume them too.
RestoreEnds == restoring # NoSession \/ todo # {} ~> restoring = NoSession /\ todo = {}
=============================================================================
