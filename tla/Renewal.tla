------------------------------- MODULE Renewal -------------------------------
(***************************************************************************)
(* Session renewal (src/sessionRenew.ts with its part of instances.ts and  *)
(* mcp/handlers.ts): an agent hands in a summary, its session's context is *)
(* cleared when the turn ends, and the summary is prompted into the fresh  *)
(* context.  One session, the agent in it, its user, its owner, and the    *)
(* rewrites (prune, rewind, model switch) that must stay out.              *)
(*                                                                         *)
(* The CLI is a process with a queue (stdin): what the server sent is      *)
(* taken up later, and the server learns of a turn only from its first     *)
(* event.  One action is one event of either side.                         *)
(***************************************************************************)
EXTENDS Naturals, Sequences

CONSTANTS
  MaxRenewals,  \* bound of a run: renewals armed
  MaxEvents,    \* bound of a run: prompts, requests, tasks, rewrites and exits
  Attempts      \* flushes of the rotation's durable write, the first included

ASSUME RenewalAssumption == {MaxRenewals, MaxEvents, Attempts} \subseteq Nat \ {0}

VARIABLES
  cli,       \* the server's view: "gone", "idle", "turn", "removed"
  stdin,     \* messages the CLI has not taken up
  turn,      \* the message whose turn runs
  segment,   \* the CLI's context: every /clear begins a new one
  owed,      \* the CLI will open a turn of its own for a task that ended
  backing,   \* the segment the server knows of
  tasks,     \* background subagents run
  notif,     \* taskNotificationPending
  queued,    \* the overage gate has parked a message
  pending,   \* the controller's entry
  number,    \* renewals armed so far; the last one is the pending one
  oldSid,    \* the segment the pending renewal cleared
  reseeds,   \* renewal -> the flush its reseed waits for; 0 is none
  rotation,  \* which mechanism holds the rotation window
  renewing,  \* the wider window, up to the reseed
  mutating,  \* a rewrite holds the session
  waiting,   \* an owner is armed for a wake
  events,    \* events so far
  cleared,   \* history: renewals whose /clear has taken effect
  seeded,    \* history: renewals whose summary was sent
  excused,   \* history: renewals that lost the CLI
  hole,      \* history: which of the protocol's two holes the run has gone through
  stranded   \* history: a renewal or an owner waits and only another turn will end it

process == <<cli, stdin, turn, segment, owed>>
server == <<backing, tasks, notif, queued>>
windows == <<rotation, renewing>>
entry == <<pending, number, oldSid, hole, stranded>>
reseed == <<reseeds, seeded, excused>>
vars == <<process, server, windows, entry, reseed, mutating, waiting, events, cleared>>

Renewals == 1..MaxRenewals
Kinds == {"prompt", "request", "own", "clear", "seed"}
Message == [kind : Kinds, of : 0..MaxRenewals]
NoTurn == [kind |-> "none", of |-> 0]
Plain(k) == [kind |-> k, of |-> 0]
Alive == cli \in {"idle", "turn"}
Event == events < MaxEvents /\ events' = events + 1

Init ==
  /\ cli = "idle" /\ stdin = <<>> /\ turn = NoTurn /\ segment = 1 /\ owed = FALSE
  /\ backing = 1 /\ tasks = FALSE /\ notif = FALSE /\ queued = FALSE
  /\ pending = "none" /\ number = 0 /\ oldSid = 0
  /\ reseeds = [k \in Renewals |-> 0]
  /\ rotation = "none" /\ renewing = FALSE /\ mutating = "none"
  /\ waiting = FALSE /\ events = 0
  /\ cleared = {} /\ seeded = {} /\ excused = {} /\ hole = "none" /\ stranded = FALSE

-----------------------------------------------------------------------------
(* The CLI *)

\* The server writes a message: a turn has begun for it, and its owner is armed.
Send(m) ==
  /\ stdin' = Append(stdin, m)
  /\ cli' = "turn"
  /\ notif' = (cli = "turn" /\ notif)
  /\ waiting' = TRUE

\* The next message starts a turn, with it whatever the CLI owed; a /clear begins a new context.
TakeNext ==
  /\ Alive /\ turn = NoTurn /\ stdin # <<>>
  /\ turn' = Head(stdin) /\ stdin' = Tail(stdin)
  /\ owed' = FALSE
  /\ IF Head(stdin).kind = "clear"
     THEN segment' = segment + 1 /\ cleared' = cleared \union {Head(stdin).of}
     ELSE UNCHANGED <<segment, cleared>>
  /\ UNCHANGED <<cli, server, windows, entry, reseed, mutating, waiting, events>>

\* Mid-turn, a message may be taken into the running turn; a command may not.
Absorb ==
  /\ Alive /\ turn.kind \notin {"none", "clear"} /\ stdin # <<>> /\ Head(stdin).kind # "clear"
  /\ stdin' = Tail(stdin)
  /\ UNCHANGED <<cli, turn, segment, owed, server, windows, entry, reseed, mutating, waiting, events, cleared>>

OwnTurn ==
  /\ Alive /\ turn = NoTurn /\ owed
  /\ turn' = Plain("own") /\ owed' = FALSE
  /\ UNCHANGED <<cli, stdin, segment, server, windows, entry, reseed, mutating, waiting, events, cleared>>

\* The turn's first event reaches the server: system/init with the session's id.
InitSeen ==
  /\ Alive /\ turn # NoTurn /\ (cli = "idle" \/ backing # segment)
  /\ cli' = "turn" /\ backing' = segment
  /\ notif' = (cli = "turn" /\ notif)
  /\ waiting' = TRUE
  /\ UNCHANGED <<stdin, turn, segment, owed, tasks, queued, windows, entry, reseed, mutating, events, cleared>>

\* Background subagents start and end.  An end in mid-turn owes a turn until it is delivered in this one.
TaskStarts ==
  /\ Event /\ cli = "turn" /\ turn.kind \notin {"none", "clear"} /\ ~tasks
  /\ tasks' = TRUE
  /\ UNCHANGED <<process, backing, notif, queued, windows, entry, reseed, mutating, waiting, cleared>>

DeliveredInTurn ==
  /\ cli = "turn" /\ turn # NoTurn /\ owed
  /\ owed' = FALSE /\ notif' = FALSE
  /\ UNCHANGED <<cli, stdin, turn, segment, backing, tasks, queued, windows, entry, reseed, mutating, waiting, events, cleared>>

-----------------------------------------------------------------------------
(* The controller *)

\* renewalDeferredBy
Deferred(t, n) == queued \/ t \/ n

\* Mutant of OpensWindows: the rotation window is opened only when the /clear is sent.
OpensRenewalOnly == renewing' = TRUE /\ UNCHANGED rotation

OpensWindows == rotation' = "renew" /\ renewing' = TRUE

\* renew_session({summary}): arm, or refine the one that is pending.
Arm ==
  /\ cli = "turn" /\ turn.kind \notin {"none", "clear"}
  /\ rotation # "prune" /\ mutating = "none"
  /\ IF pending \in {"none", "requested"}
     THEN number < MaxRenewals /\ number' = number + 1 /\ pending' = "armed"
     ELSE UNCHANGED <<number, pending>>
  /\ OpensWindows
  /\ UNCHANGED <<process, server, oldSid, hole, stranded, reseed, mutating, waiting, events, cleared>>

\* renew_session({sessionId}) from its owner: the request is registered and prompted in one step.
Request ==
  /\ Event /\ cli = "idle" /\ ~Deferred(tasks, notif)
  /\ rotation # "prune" /\ ~renewing /\ mutating = "none"
  /\ pending' = "requested"
  /\ Send(Plain("request"))
  /\ UNCHANGED <<turn, segment, owed, backing, tasks, queued, windows, number, oldSid, hole, stranded, reseed, mutating, cleared>>

\* Mutant of Abandon: the windows stay open.
AbandonQuietly == pending' = "none" /\ UNCHANGED <<rotation, renewing>>

\* _clear without success: no turn is coming, so the end of the rotation is the owner's wake.
Abandon == pending' = "none" /\ rotation' = "none" /\ renewing' = FALSE

FireClear ==
  /\ oldSid' = backing
  /\ pending' = "clearing"
  /\ Send([kind |-> "clear", of |-> number])
  /\ UNCHANGED <<windows, number, hole, stranded, reseeds>>

\* Mutant of Rotated: the first turn end after the /clear was sent counts.
RotatedByOrder == TRUE

Rotated == backing # oldSid

\* _clear({ok}): the rotation window closes, the wider one stays until the reseed has landed.
ClearDone ==
  /\ pending' = "none" /\ rotation' = "none"
  /\ reseeds' = [reseeds EXCEPT ![number] = 1]
  /\ hole' = IF hole = "none" /\ (\E k \in Renewals : reseeds[k] > 0) THEN "overlap" ELSE hole
  /\ UNCHANGED <<renewing, number, oldSid, stranded>>

\* A turn ends.  The hub hears of it first, then the controller; with a /clear sent the session is in
\* a turn again.
TurnEnds ==
  /\ cli = "turn" /\ turn # NoTurn /\ backing = segment
  /\ turn' = NoTurn
  /\ LET told == ~tasks /\ ~notif /\ rotation = "none"
         fires == pending = "armed" /\ ~Deferred(tasks, notif)
     IN  IF fires
         THEN FireClear
         ELSE /\ cli' = "idle" /\ stdin' = stdin /\ notif' = notif
              /\ waiting' = (waiting /\ ~told)
              /\ IF pending = "clearing" /\ Rotated
                 THEN ClearDone
                 ELSE /\ pending' = IF pending = "requested" THEN "none" ELSE pending
                      /\ UNCHANGED <<windows, number, oldSid, hole, stranded, reseeds>>
  /\ UNCHANGED <<segment, owed, backing, tasks, queued, seeded, excused, mutating, events, cleared>>

\* Mutant of DrainFires: only turn ends fire an armed renewal.
DrainNeverFires == FALSE

\* _onArmedDrain: the last task of an idle session ends, and nothing else defers.
DrainFires == pending = "armed" /\ cli = "idle" /\ ~Deferred(FALSE, notif)

\* A task ends.  In mid-turn the CLI owes a turn for it; between turns it opens one at once, or none:
\* then the owner is told (the hub's settle timer).  Left out: one that ends while a sent message has
\* not been taken up, whose flag only a later turn would clear.
TaskEnds ==
  /\ Alive /\ tasks /\ (cli = "turn" => turn # NoTurn)
  /\ tasks' = FALSE
  /\ owed' = (owed \/ turn # NoTurn)
  /\ \/ turn # NoTurn /\ turn' = turn
     \/ turn = NoTurn /\ turn' \in {NoTurn, Plain("own")}
  /\ IF DrainFires
     THEN FireClear
     ELSE /\ notif' = (cli = "turn" \/ notif)
          /\ waiting' = (waiting /\ (turn' # NoTurn \/ rotation # "none"))
          /\ UNCHANGED <<cli, stdin, pending, number, oldSid, hole, stranded, reseeds, windows>>
  /\ UNCHANGED <<segment, backing, queued, seeded, excused, mutating, events, cleared>>

\* CLEAR_ROTATE_TIMEOUT_MS after the /clear was sent.
Watchdog ==
  /\ pending = "clearing"
  /\ Abandon
  /\ waiting' = FALSE
  /\ hole' = IF Alive THEN "watchdog" ELSE hole
  /\ UNCHANGED <<process, server, number, oldSid, stranded, reseed, mutating, events, cleared>>

\* Mutant of FlushFails: one attempt too many.
FlushFailsOnceMore(k) ==
  /\ reseeds[k] \in 1..Attempts
  /\ reseeds' = [reseeds EXCEPT ![k] = @ + 1]
  /\ UNCHANGED <<process, server, windows, entry, seeded, excused, mutating, waiting, events, cleared>>

\* One attempt to see the rotation's write on disk, of at most Attempts, fails.
FlushFails(k) ==
  /\ reseeds[k] \in 1..(Attempts - 1)
  /\ reseeds' = [reseeds EXCEPT ![k] = @ + 1]
  /\ UNCHANGED <<process, server, windows, entry, seeded, excused, mutating, waiting, events, cleared>>

\* Mutant of KeepsOut: the wider window closes before the reseed.
KeepsOutRotation == rotation # "none"

\* _assertNoRotationInFlight
KeepsOut == rotation # "none" \/ renewing

\* It succeeds, or the last one has failed: the summary is sent whatever the disk says.  A refusal
\* is shown and wakes the owner.  The wider window closes unless a new renewal holds it.
Reseed(k) ==
  /\ reseeds[k] > 0
  /\ reseeds' = [reseeds EXCEPT ![k] = 0]
  /\ renewing' = (pending # "none" /\ renewing)
  /\ IF Alive /\ mutating = "none"
     THEN /\ Send([kind |-> "seed", of |-> k])
          /\ seeded' = seeded \union {k}
          /\ UNCHANGED excused
     ELSE /\ waiting' = FALSE
          /\ excused' = IF Alive \/ mutating # "none" THEN excused ELSE excused \union {k}
          /\ UNCHANGED <<cli, stdin, notif, seeded>>
  /\ UNCHANGED <<turn, segment, owed, backing, tasks, queued, rotation, entry, mutating, events, cleared>>

-----------------------------------------------------------------------------
(* The rest of the session's life *)

\* A user prompts; the overage gate may park the message.
Prompt ==
  /\ Event /\ Alive /\ mutating = "none"
  /\ \/ Send(Plain("prompt")) /\ UNCHANGED queued
     \/ queued' = TRUE /\ UNCHANGED <<cli, stdin, notif, waiting>>
  /\ UNCHANGED <<turn, segment, owed, backing, tasks, windows, entry, reseed, mutating, cleared>>

\* The window resets: the parked messages are sent in one.  Or the stop is called off, and they are dropped.
QueueFlushed ==
  /\ Alive /\ queued /\ mutating = "none"
  /\ queued' = FALSE
  /\ Send(Plain("prompt"))
  /\ UNCHANGED <<turn, segment, owed, backing, tasks, windows, entry, reseed, mutating, events, cleared>>

QueueDropped ==
  /\ Alive /\ queued
  /\ queued' = FALSE
  /\ stranded' = (stranded \/ pending = "armed")
  /\ UNCHANGED <<process, backing, tasks, notif, windows, pending, number, oldSid, hole, reseed, mutating, waiting, events, cleared>>

\* What a process takes with it.
CliEnds == turn' = NoTurn /\ stdin' = <<>> /\ owed' = FALSE /\ segment' = backing

\* The CLI exits on its own: the owner is told.  The instance stays, and so does the controller's entry.
Exit ==
  /\ Event /\ Alive /\ mutating = "none"
  /\ cli' = "gone"
  /\ CliEnds
  /\ excused' = excused \union cleared
  /\ waiting' = FALSE
  /\ UNCHANGED <<server, windows, entry, reseeds, seeded, mutating, cleared>>

\* spawn on a process that has gone; refused while a rotation seems to run.
Respawn ==
  /\ cli = "gone" /\ mutating = "none" /\ rotation = "none"
  /\ cli' = "idle"
  /\ tasks' = FALSE /\ notif' = FALSE /\ queued' = FALSE
  /\ UNCHANGED <<stdin, turn, segment, owed, backing, windows, entry, reseed, mutating, waiting, events, cleared>>

\* The instance is removed, and the controller purges its entry.
Remove ==
  /\ Event /\ mutating = "none" /\ cli # "removed"
  /\ cli' = "removed"
  /\ CliEnds
  /\ excused' = excused \union cleared
  /\ pending' = "none" /\ rotation' = "none" /\ renewing' = FALSE
  /\ waiting' = FALSE
  /\ UNCHANGED <<server, number, oldSid, hole, stranded, reseeds, seeded, mutating, cleared>>

\* A prune opens the rotation window as well, a rewind or a model switch does not.
BeginRewrite ==
  /\ Event /\ ~KeepsOut /\ mutating = "none" /\ cli \in {"idle", "gone"}
  /\ \E kind \in {"prune", "rewind"} :
       /\ mutating' = kind
       /\ rotation' = IF kind = "prune" THEN "prune" ELSE rotation
  /\ cli' = "gone"
  /\ CliEnds
  /\ UNCHANGED <<server, renewing, entry, reseed, waiting, cleared>>

\* It ends with the session relaunched on the new transcript or on the old one, or not at all; a prune
\* that ends is itself the owner's wake.
EndRewrite ==
  /\ mutating # "none"
  /\ cli' \in {"idle", "gone"}
  /\ tasks' = FALSE /\ notif' = FALSE /\ queued' = FALSE
  /\ waiting' = (waiting /\ mutating # "prune")
  /\ rotation' = IF mutating = "prune" THEN "none" ELSE rotation
  /\ mutating' = "none"
  /\ stranded' = (stranded \/ (waiting /\ mutating # "prune"))
  /\ UNCHANGED <<stdin, turn, segment, owed, backing, renewing, pending, number, oldSid, hole, reseed, events, cleared>>

-----------------------------------------------------------------------------
CliSteps == TakeNext \/ OwnTurn \/ InitSeen \/ TurnEnds
ReseedSteps == \E k \in Renewals : FlushFails(k) \/ Reseed(k)

Next ==
  \/ CliSteps \/ Absorb \/ TaskStarts \/ TaskEnds \/ DeliveredInTurn
  \/ Arm \/ Request \/ Watchdog \/ ReseedSteps
  \/ Prompt \/ QueueFlushed \/ QueueDropped
  \/ Exit \/ Respawn \/ Remove \/ BeginRewrite \/ EndRewrite

Spec == Init /\ [][Next]_vars

\* Turns and tasks end, a rewrite ends, timers and flushes come to their end, and parked messages are
\* sent or stranded.  Nobody has to prompt, renew or respawn.
Fairness ==
  /\ WF_vars(CliSteps) /\ WF_vars(TaskEnds) /\ WF_vars(EndRewrite)
  /\ WF_vars(ReseedSteps) /\ WF_vars(Watchdog)
  /\ WF_vars(QueueFlushed \/ QueueDropped)

FairSpec == Spec /\ Fairness

-----------------------------------------------------------------------------
(* Properties *)

\* Types; a reseed or a sent summary is of a renewal that was armed.
TypeOK ==
  /\ cli \in {"gone", "idle", "turn", "removed"}
  /\ stdin \in Seq(Message) /\ turn \in Message \union {NoTurn}
  /\ segment \in Nat /\ backing \in 1..segment /\ oldSid \in 0..backing
  /\ {owed, tasks, notif, queued, renewing, waiting, stranded} \subseteq BOOLEAN
  /\ hole \in {"none", "watchdog", "overlap"}
  /\ pending \in {"none", "requested", "armed", "clearing"}
  /\ rotation \in {"none", "renew", "prune"} /\ mutating \in {"none", "prune", "rewind"}
  /\ number \in 0..MaxRenewals /\ events \in 0..MaxEvents
  /\ reseeds \in [Renewals -> 0..Attempts]
  /\ \A k \in Renewals : reseeds[k] > 0 => k <= number
  /\ cleared \union seeded \union excused \subseteq 1..number

\* A summary is sent only into the context it was written for, after its /clear; and once the context
\* is cleared the summary is sent, or still on its way, unless the CLI died meanwhile.
Kept ==
  /\ seeded \subseteq cleared \union excused
  /\ \A k \in cleared : \/ k \in seeded \union excused
                        \/ pending = "clearing" /\ number = k
                        \/ reseeds[k] > 0

\* No other turn that ends in between, no rewrite and no failed write to disk loses a summary.  (Two
\* things do: a watchdog that gives up on a /clear a live CLI runs later, and a renewal that reaches
\* its reseed while the one before still waits for the disk.)
SummaryNotLost == hole = "none" => Kept

\* src/sessionRenew.ts:409: "Skipped when a NEW renewal has been armed since [...], so this cannot clear a
\* successor's window": it does once the successor has left `pending` for its own reseed, and a rewrite
\* that slips in then has the successor's summary refused.
SuccessorKept == hole # "watchdog" => Kept

\* The owner is not woken by the turn the renewal was armed in, nor by the /clear: its wake is for what
\* the renewed session does.
OwnerNotWokenEarly ==
  [][waiting /\ ~waiting' /\ cli' \in {"idle", "turn"} => pending' \notin {"armed", "clearing"}]_vars

\* Whoever waits for the session is woken, through any number of renewals and whatever abandons them.
\* (Stranded: a renewal that waited for a queue which was then dropped, and an owner whose wake was
\* held when the session was rewound or switched, wait for another turn.)
OwnerWoken == waiting ~> ~waiting \/ stranded

\* Both windows close, so that the session can be pruned, rewound or relaunched again.
WindowsClose == (renewing \/ rotation # "none") ~> (~renewing /\ rotation = "none") \/ stranded \/ cli = "gone"
=============================================================================
