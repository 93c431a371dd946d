------------------------------ MODULE WakeHub ------------------------------
(***************************************************************************)
(* The idle-wake graph: IdleSubscriptionHub (src/idleSubscriptions.ts)     *)
(* with the parts of Instance and InstanceManager (src/instances.ts) that  *)
(* drive it: turns starting and ending, background tasks, steers parked on *)
(* a running turn, prunes, exits, removals, the overage sever.             *)
(*                                                                         *)
(* A session owns a target it spawned or dispatched to.  A turn of the     *)
(* target arms one wake per owner; the wake is spent when the turn ends,   *)
(* unless the target itself still waits on work (the hold).  Node runs one *)
(* callback to completion, so an action is one event with everything the   *)
(* hub does in it; what the code defers (a delivery's send, a settle       *)
(* timer, a parked steer's flush) is an action of its own.                 *)
(***************************************************************************)
EXTENDS Naturals, Sequences, SequencesExt, FiniteSets

CONSTANTS
  Session,      \* instances, by instanceId
  NoSession,    \* a session nobody spawned
  Spawner,      \* session -> callerInstanceId
  Conductor,    \* sessions with the orchestration tools
  Tasker,       \* sessions whose CLI may run background subagents
  Unsteerable,  \* acceptsMidTurnSteering === false
  Prunable,     \* sessions a prune may relaunch
  Stoppable,    \* sessions the overage stop may sever
  Mortal,       \* sessions whose CLI may exit, or that may be killed and removed
  Asker,        \* sessions whose turns may ask the user, or be force-aborted
  MaxStarts,    \* bound: prompts, dispatches, tasks and heartbeats from outside the hub
  MaxWakes      \* bound: no event that wakes a recipient while it has this many wakes under way

ASSUME WakeHubAssumption ==
  /\ IsFiniteSet(Session)
  /\ NoSession \notin Session
  /\ Spawner \in [Session -> Session \union {NoSession}]
  /\ \A s \in Session : Spawner[s] # s
  /\ Conductor \union Tasker \union Unsteerable \union Prunable \union Stoppable \union Mortal \union Asker \subseteq Session
  /\ MaxStarts \in Nat
  /\ MaxWakes \in Nat

VARIABLES
  inst,     \* session -> the instance's facts the hub reads
  hub,      \* the hub's maps, and `queued`: the wakes whose send has not run (queueMicrotask)
  owed,     \* history: target -> owners no report of its turn has reached yet
  starts    \* bound: outside events so far

vars == <<inst, hub, owed, starts>>

Phase == {"idle", "opening", "turn", "relaunch", "dead", "gone"}
Wake == [of : Session, kind : {"finished", "stale", "interrupted", "exited", "timedOut"}]
Inst == [phase : Phase, tasks : BOOLEAN, notified : BOOLEAN, steered : BOOLEAN, aborted : BOOLEAN]
Hub == [armed : [Session -> SUBSET Session], owners : [Session -> SUBSET Session],
        holding : SUBSET Session, asked : SUBSET Session,
        deferred : [Session -> Seq(Wake)], inFlight : [Session -> Nat],
        queued : [Session -> Seq(Wake)],
        settle : [Session -> {"none", "armed", "void"}]]  \* "void": armed on an earlier process

\* "opening" is idle with idleWindowDirty: the CLI has announced a turn it has not begun.
Idle(i, s) == i[s].phase \in {"idle", "opening"}
Proc(i, s) == i[s].phase \in {"idle", "opening", "turn"}
InById(i, s) == i[s].phase # "gone"
GoneForGood(i, s) == i[s].phase \in {"dead", "gone"}
TargetDefers(i, s) == i[s].tasks \/ i[s].notified \/ i[s].steered \/ i[s].phase = "relaunch"
OwnersOf(i, h, t) == {c \in (h.owners[t] \union {Spawner[t]}) \ {t, NoSession} : InById(i, c)}

\* History: those of them a report can still reach.
LiveOwners(i, h, t) == {c \in OwnersOf(i, h, t) : ~GoneForGood(i, c)}

\* c has a report of t coming: it is armed, or a wake is under way that is no mere heartbeat.
WakesFor(h, c) == Range(h.queued[c]) \union Range(h.deferred[c])
Reports(i, w, t) == w.of = t /\ (w.kind # "timedOut" \/ GoneForGood(i, t))
Expects(i, h, c, t) == c \in h.armed[t] \/ \E w \in WakesFor(h, c) : Reports(i, w, t)

-----------------------------------------------------------------------------
(* The hold *)

\* An idle target whose owners' wakes a hold is keeping.
Held(i, h, t) == Idle(i, t) /\ ~TargetDefers(i, t) /\ t \in h.holding

\* x and the held targets reachable from it along armed wakes: _waitsOnWork's recursion with
\* `seen`, which x itself is in from the start.
WaitChain(i, h, x) ==
  LET Closed(S) == \A y \in S, t \in Session \ {x} : y \in h.armed[t] /\ Held(i, h, t) => t \in S
  IN  {y \in Session : \A S \in SUBSET Session : x \in S /\ Closed(S) => y \in S}

\* Mutant of WaitsOnWork: any live target counts as work, held or not.
WaitsOnAnyone(i, h, x) ==
  \/ h.inFlight[x] > 0
  \/ h.deferred[x] # <<>>
  \/ \E t \in Session \ {x} : x \in h.armed[t] /\ ~GoneForGood(i, t)

\* _waitsOnWork: a wake is on its way to someone in the chain, or someone in it is armed on a
\* live target that is not itself held.
WaitsOnWork(i, h, x) ==
  \E y \in WaitChain(i, h, x) :
    \/ h.inFlight[y] > 0
    \/ h.deferred[y] # <<>>
    \/ \E t \in Session \ {x} : y \in h.armed[t] /\ ~GoneForGood(i, t) /\ ~Held(i, h, t)

Holds(i, h, t) == t \notin h.asked /\ ~i[t].aborted /\ WaitsOnWork(i, h, t)

-----------------------------------------------------------------------------
(* Delivering *)

\* A wake that reaches c now waits for c's own turn end: c is mid-turn and cannot be steered.
Waits(i, c) == i[c].phase = "turn" /\ c \in Unsteerable

\* deliver(), to each of C: dropped for a recipient with no process, held for one mid-turn that
\* cannot be steered, else sent on a microtask.
DeliverAll(i, h, C, w) ==
  LET later == {c \in C : Proc(i, c) /\ Waits(i, c)}
      now == {c \in C : Proc(i, c) /\ ~Waits(i, c)}
  IN  [h EXCEPT !.deferred = [c \in Session |-> IF c \in later THEN Append(@[c], w) ELSE @[c]],
                !.inFlight = [c \in Session |-> IF c \in now THEN @[c] + 1 ELSE @[c]],
                !.queued = [c \in Session |-> IF c \in now THEN Append(@[c], w) ELSE @[c]]]
Deliver(i, h, c, w) == DeliverAll(i, h, {c}, w)

\* Every entry of a target gone: no hold and no settle is left to decide.
Disarmed(h, t) == [h EXCEPT !.armed[t] = {}, !.holding = @ \ {t}, !.settle[t] = "none"]

\* _dropArmed: one entry; the last one takes the hold and the settle with it.
DropArmed(h, t, c) ==
  IF h.armed[t] = {c} THEN Disarmed(h, t) ELSE [h EXCEPT !.armed[t] = @ \ {c}]

\* _consume: every armed owner is told, with the abort qualifier the target carries now.
Consume(i, h, t) ==
  DeliverAll(i, Disarmed(h, t), h.armed[t],
             [of |-> t, kind |-> IF i[t].aborted THEN "interrupted" ELSE "finished"])

\* A decision point of t's owners' wakes: hold them, or spend them.
Decide(i, h, t) ==
  IF h.armed[t] = {} THEN h
  ELSE IF Holds(i, h, t) THEN [h EXCEPT !.holding = @ \union {t}]
  ELSE Consume(i, h, t)

\* _releaseHeld: a wait of x ended without opening a turn on it.
ReleaseHeld(i, h, x) ==
  IF x \in h.holding /\ Idle(i, x) /\ ~TargetDefers(i, x) THEN Decide(i, h, x) ELSE h

\* _redecideHold: the same, where nothing may be delivered.
RedecideHold(i, h, x) ==
  IF x \in h.holding /\ ~Holds(i, h, x) THEN [h EXCEPT !.holding = @ \ {x}] ELSE h

\* Mutant of EndInFlight: the count is never given back.
EndInFlightUncounted(i, h, c) == ReleaseHeld(i, h, c)

\* _endInFlight
EndInFlight(i, h, c) ==
  ReleaseHeld(i, [h EXCEPT !.inFlight[c] = IF @ > 0 THEN @ - 1 ELSE 0], c)

\* Mutant of FlushDeferred: one wake goes out, the rest are forgotten.
FlushDeferredFirst(i, h, c) ==
  IF h.deferred[c] = <<>> THEN h
  ELSE Deliver(i, [h EXCEPT !.deferred[c] = <<>>], c, Head(h.deferred[c]))

\* _flushDeferredWakes, of a c between turns or gone: marked stale when the worker is busy again.
Aged(i, w) == IF w.kind = "finished" /\ i[w.of].phase = "turn" THEN [w EXCEPT !.kind = "stale"] ELSE w
FlushDeferred(i, h, c) ==
  LET emptied == [h EXCEPT !.deferred[c] = <<>>]
      aged == [k \in 1..Len(h.deferred[c]) |-> Aged(i, h.deferred[c][k])]
  IN  IF h.deferred[c] = <<>> \/ (Proc(i, c) /\ i[c].steered) THEN h
      ELSE IF ~Proc(i, c) THEN emptied
      ELSE [emptied EXCEPT !.inFlight[c] = @ + Len(aged), !.queued[c] = @ \o aged]

-----------------------------------------------------------------------------
(* The hub's handlers *)

\* _onTurnEnd.  A settle pending is superseded before anything else is read.
OnTurnEnd(i, h, t) ==
  LET h1 == [h EXCEPT !.settle[t] = "none"]
  IN  IF TargetDefers(i, t) THEN h1 ELSE Decide(i, h1, t)

\* _onTaskEvent: arm the settle iff the watched target is drained and its idle window clean.
OnTaskEvent(i, h, t) ==
  IF h.armed[t] = {} THEN h
  ELSE LET drained == i[t].phase = "idle" /\ ~i[t].tasks /\ ~i[t].notified
       IN  [h EXCEPT !.settle[t] = IF drained THEN "armed" ELSE "none"]

\* onTurnStart: one wake per live owner.  An ask outlives the start only with a wake that does.
OnTurnStart(i, h, t) ==
  [h EXCEPT !.holding = @ \ {t},
            !.armed[t] = @ \union OwnersOf(i, h, t),
            !.asked = IF h.armed[t] = {} THEN @ \ {t} ELSE @]

\* onTargetExit
OnTargetExit(i, h, t) == DeliverAll(i, Disarmed(h, t), h.armed[t], [of |-> t, kind |-> "exited"])

\* purge, its maps: t as target, as owner, as recipient, as caller.
Purged(h, t) ==
  LET lost == {u \in Session : h.armed[u] = {t}} \union {t}
  IN  [h EXCEPT !.asked = @ \ {t},
                !.holding = @ \ lost,
                !.settle = [u \in Session |-> IF u \in lost THEN "none" ELSE @[u]],
                !.owners = [u \in Session |-> IF u = t THEN {} ELSE @[u] \ {t}],
                !.armed = [u \in Session |-> IF u = t THEN {} ELSE @[u] \ {t}],
                !.deferred[t] = <<>>,
                !.inFlight[t] = 0]

\* Mutant of OnRotationComplete: a relaunch is no decision point.
OnRotationCompleteUnheard(i, h, t) == h

\* _onRotationComplete of a prune.  It asks about the hold before it asks whether anyone is armed.
OnRotationComplete(i, h, t) ==
  IF Holds(i, h, t) THEN [h EXCEPT !.holding = @ \union {t}]
  ELSE IF h.armed[t] = {} THEN h
  ELSE Consume(i, h, t)

\* A prompt reaching t: a turn starts unless one runs; either way an earlier abort is superseded.
PromptedInst(i, t) ==
  [i EXCEPT ![t].phase = "turn", ![t].aborted = FALSE,
            ![t].notified = IF i[t].phase = "turn" THEN @ ELSE FALSE]
PromptedHub(i, h, t) == IF i[t].phase = "turn" THEN h ELSE OnTurnStart(i, h, t)
PromptedOwed(i, h, o, t) ==
  IF i[t].phase = "turn" THEN o ELSE [o EXCEPT ![t] = @ \union LiveOwners(i, h, t)]

\* promptOrQueueSteer: into a running turn that takes no message, the text is parked.
Send(h, o, t) ==
  IF inst[t].phase = "turn" /\ t \in Unsteerable
  THEN /\ inst' = [inst EXCEPT ![t].steered = TRUE]
       /\ hub' = h
       /\ owed' = o
  ELSE /\ inst' = PromptedInst(inst, t)
       /\ hub' = PromptedHub(inst, h, t)
       /\ owed' = PromptedOwed(inst, h, o, t)

\* The bounds.
Outside == starts < MaxStarts /\ starts' = starts + 1
Roomy(t) == \A c \in hub.armed[t] : Len(hub.queued[c]) + Len(hub.deferred[c]) < MaxWakes

Init ==
  /\ inst = [s \in Session |-> [phase |-> "idle", tasks |-> FALSE, notified |-> FALSE,
                               steered |-> FALSE, aborted |-> FALSE]]
  /\ hub = [armed |-> [s \in Session |-> {}], owners |-> [s \in Session |-> {}],
            holding |-> {}, asked |-> {},
            deferred |-> [s \in Session |-> <<>>], inFlight |-> [s \in Session |-> 0],
            queued |-> [s \in Session |-> <<>>], settle |-> [s \in Session |-> "none"]]
  /\ owed = [s \in Session |-> {}]
  /\ starts = 0

-----------------------------------------------------------------------------
(* Prompts and turns *)

\* The human prompts a session.
UserPrompt(t) ==
  /\ Proc(inst, t)
  /\ Outside
  /\ Send(hub, owed, t)

\* A conductor mid-turn sends to t: noteDispatch records the edge and arms a turn already running,
\* before the send.
Dispatch(c, t) ==
  /\ c \in Conductor /\ c # t
  /\ inst[c].phase = "turn" /\ Proc(inst, t)
  /\ Outside
  /\ LET recorded == [hub EXCEPT !.owners[t] = @ \union {c}]
         running == inst[t].phase = "turn"
     IN  Send(IF running THEN [recorded EXCEPT !.armed[t] = @ \union {c}] ELSE recorded,
              IF running THEN [owed EXCEPT ![t] = @ \union {c}] ELSE owed, t)

\* The turn ends: t's owners first, then the wakes t held back as a recipient.
TurnEnds(t) ==
  /\ inst[t].phase = "turn"
  /\ Roomy(t)
  /\ LET i == [inst EXCEPT ![t].phase = "idle"]
     IN  /\ inst' = i
         /\ hub' = FlushDeferred(i, OnTurnEnd(i, hub, t), t)
  /\ UNCHANGED <<owed, starts>>

\* Mutant of FlushSteer: the parked steers are sent and stay parked.
FlushSteerAgain(t) ==
  /\ inst[t].steered /\ Idle(inst, t)
  /\ inst' = PromptedInst(inst, t)
  /\ hub' = PromptedHub(inst, hub, t)
  /\ owed' = PromptedOwed(inst, hub, owed, t)
  /\ UNCHANGED starts

\* The parked steers go out as one fresh turn, on a microtask after the turn end.
FlushSteer(t) ==
  /\ inst[t].steered /\ Idle(inst, t)
  /\ LET i == [inst EXCEPT ![t].steered = FALSE]
     IN  /\ inst' = PromptedInst(i, t)
         /\ hub' = PromptedHub(i, hub, t)
         /\ owed' = PromptedOwed(i, hub, owed, t)
  /\ UNCHANGED starts

\* A queued delivery's send runs.  A recipient whose process has gone meanwhile is skipped; the
\* prompt itself does not ask again whether a running turn takes a message.
SendWake(c, k) ==
  /\ k \in DOMAIN hub.queued[c]
  /\ LET w == hub.queued[c][k]
         h == [hub EXCEPT !.queued[c] = RemoveAt(@, k)]
         told == [owed EXCEPT ![w.of] = IF Reports(inst, w, w.of) THEN @ \ {c} ELSE @]
     IN  IF Proc(inst, c)
         THEN LET i == PromptedInst(inst, c)
              IN  /\ inst' = i
                  /\ hub' = EndInFlight(i, PromptedHub(inst, h, c), c)
                  /\ owed' = PromptedOwed(inst, h, told, c)
         ELSE /\ hub' = EndInFlight(inst, h, c)
              /\ UNCHANGED <<inst, owed>>
  /\ UNCHANGED starts

-----------------------------------------------------------------------------
(* Background tasks and the turns they reopen *)

TaskStarts(t) ==
  /\ t \in Tasker /\ inst[t].phase = "turn" /\ ~inst[t].tasks
  /\ Outside
  /\ inst' = [inst EXCEPT ![t].tasks = TRUE]
  /\ UNCHANGED <<hub, owed>>

\* The last task ends.  Mid-turn its notification is queued; either way the hub sees a task event.
TaskEnds(t) ==
  /\ inst[t].tasks /\ Proc(inst, t)
  /\ LET i == [inst EXCEPT ![t].tasks = FALSE, ![t].notified = inst[t].phase = "turn"]
     IN  inst' = i /\ hub' = OnTaskEvent(i, hub, t)
  /\ UNCHANGED <<owed, starts>>

\* A later tool result carries the queued notification: no turn is owed for it.
NotificationConsumed(t) ==
  /\ inst[t].phase = "turn" /\ inst[t].notified
  /\ inst' = [inst EXCEPT ![t].notified = FALSE]
  /\ UNCHANGED <<hub, owed, starts>>

\* The CLI announces a turn nobody prompted (system/init, system/status), then begins it.
OpenReinvocation(t) ==
  /\ inst[t].phase = "idle"
  /\ inst[t].notified \/ inst[t].tasks \/ hub.settle[t] = "armed"
  /\ inst' = [inst EXCEPT ![t].phase = "opening"]
  /\ UNCHANGED <<hub, owed, starts>>

BeginReinvocation(t) ==
  /\ inst[t].phase = "opening"
  /\ hub' = OnTurnStart(inst, hub, t)
  /\ owed' = [owed EXCEPT ![t] = @ \union LiveOwners(inst, hub, t)]
  /\ inst' = [inst EXCEPT ![t].phase = "turn", ![t].notified = FALSE,
                          ![t].aborted = IF hub.armed[t] = {} THEN FALSE ELSE @]
  /\ UNCHANGED starts

\* Mutant of FireSettle: it does not look again at what the timer waited out.
FireSettleBlind(t) ==
  /\ hub.settle[t] # "none"
  /\ Roomy(t)
  /\ LET h == [hub EXCEPT !.settle[t] = "none"]
     IN  hub' = IF hub.settle[t] = "armed" THEN Decide(inst, h, t) ELSE h
  /\ UNCHANGED <<inst, owed, starts>>

\* _fireSettle: the stream stayed frozen for the whole window.  Microtasks run before timers, so
\* no steer is still waiting for its flush.
FireSettle(t) ==
  /\ hub.settle[t] # "none"
  /\ ~(inst[t].steered /\ Idle(inst, t))
  /\ Roomy(t)
  /\ LET h == [hub EXCEPT !.settle[t] = "none"]
         quiet == inst[t].phase = "idle" /\ ~inst[t].tasks /\ ~inst[t].notified
     IN  hub' = IF hub.settle[t] = "armed" /\ quiet THEN Decide(inst, h, t) ELSE h
  /\ UNCHANGED <<inst, owed, starts>>

-----------------------------------------------------------------------------
(* Questions and aborts *)

\* The running turn puts a question or a plan to the user.
Ask(t) ==
  /\ t \in Asker /\ inst[t].phase = "turn"
  /\ hub' = [hub EXCEPT !.asked = @ \union {t}]
  /\ UNCHANGED <<inst, owed, starts>>

\* disarmSilently: the interrupter's own entry only; it has just ended a wait of c.
DisarmSilently(h, t, c) == IF c \in h.armed[t] THEN ReleaseHeld(inst, DropArmed(h, t, c), c) ELSE h

\* interrupt_turn({force: true}) by a conductor.
ForceInterrupt(c, t) ==
  /\ t \in Asker /\ c \in Conductor /\ c # t
  /\ inst[c].phase = "turn" /\ inst[t].phase = "turn"
  /\ hub' = DisarmSilently(hub, t, c)
  /\ inst' = [inst EXCEPT ![t].aborted = TRUE]
  /\ owed' = [owed EXCEPT ![t] = @ \ {c}]
  /\ UNCHANGED starts

\* The stop button.
UserInterrupt(t) ==
  /\ t \in Asker /\ inst[t].phase = "turn"
  /\ inst' = [inst EXCEPT ![t].aborted = TRUE]
  /\ UNCHANGED <<hub, owed, starts>>

-----------------------------------------------------------------------------
(* Heartbeats, relaunches, the end of a session *)

\* _arm's interval.  For a target gone for good this ping retires the entry.
Heartbeat(c, t) ==
  /\ c \in hub.armed[t]
  /\ LET ping == [of |-> t, kind |-> "timedOut"]
     IN  IF GoneForGood(inst, t)
         THEN hub' = Deliver(inst, DropArmed(hub, t, c), c, ping) /\ UNCHANGED starts
         ELSE Outside /\ Roomy(t) /\ hub' = Deliver(inst, hub, c, ping)
  /\ UNCHANGED <<inst, owed>>

\* pruneSession: kills the process between turns ...
PruneBegins(t) ==
  /\ t \in Prunable /\ Idle(inst, t) /\ ~inst[t].steered
  /\ Outside
  /\ inst' = [inst EXCEPT ![t].phase = "relaunch"]
  /\ hub' = [hub EXCEPT !.settle[t] = IF @ = "none" THEN "none" ELSE "void"]
  /\ UNCHANGED owed

\* ... and comes up idle with no turn: the rotation's completion is its decision point.  (History:
\* what ended while t had no process was not reported to it, and will not be.)
PruneEnds(t) ==
  /\ inst[t].phase = "relaunch"
  /\ Roomy(t)
  /\ LET i == [inst EXCEPT ![t] = [phase |-> "idle", tasks |-> FALSE, notified |-> FALSE,
                                  steered |-> FALSE, aborted |-> FALSE]]
     IN  inst' = i /\ hub' = OnRotationComplete(i, hub, t)
  /\ owed' = [u \in Session |-> IF Expects(inst, hub, t, u) THEN owed[u] ELSE owed[u] \ {t}]
  /\ UNCHANGED starts

\* The process is gone.  A parked steer is rejected, which flushes the wakes held behind it.
Died(t) == [inst EXCEPT ![t].phase = "dead", ![t].tasks = FALSE, ![t].notified = FALSE,
                        ![t].steered = FALSE]
AfterDeath(h, t) == IF inst[t].steered THEN FlushDeferred(Died(t), h, t) ELSE h
WithoutRecipient(t) == [u \in Session |-> owed[u] \ {t}]

\* The CLI exits on its own: every armed owner is told at once.
Exit(t) ==
  /\ t \in Mortal /\ Proc(inst, t)
  /\ Roomy(t)
  /\ inst' = Died(t)
  /\ hub' = AfterDeath(OnTargetExit(Died(t), hub, t), t)
  /\ owed' = WithoutRecipient(t)
  /\ UNCHANGED starts

\* A commanded kill tells nobody.
Kill(t) ==
  /\ t \in Mortal /\ Proc(inst, t)
  /\ inst' = Died(t)
  /\ hub' = AfterDeath(hub, t)
  /\ owed' = WithoutRecipient(t)
  /\ UNCHANGED starts

\* Every caller in turn, in the order they were armed.
ReleaseAll(i, h, callers) ==
  LET done[k \in 0..Len(callers)] ==
        IF k = 0 THEN h ELSE ReleaseHeld(i, done[k - 1], callers[k])
  IN  done[Len(callers)]
RedecideAll(i, h, callers) ==
  LET done[k \in 0..Len(callers)] ==
        IF k = 0 THEN h ELSE RedecideHold(i, done[k - 1], callers[k])
  IN  done[Len(callers)]

\* The wakes in ws that are not about t, in their order.
NotAbout(ws, t) ==
  LET kept[k \in 0..Len(ws)] ==
        IF k = 0 THEN <<>> ELSE IF ws[k].of = t THEN kept[k - 1] ELSE Append(kept[k - 1], ws[k])
  IN  kept[Len(ws)]

\* remove(), and a temp session's drop: every caller that lost a wait on t may be released.
RemoveSession(t) ==
  /\ inst[t].phase = "dead"
  /\ LET i == [inst EXCEPT ![t].phase = "gone"]
     IN  /\ inst' = i
         /\ \E order \in SetToSeqs(hub.armed[t]) : hub' = ReleaseAll(i, Purged(hub, t), order)
  /\ owed' = [u \in Session |-> IF u = t THEN {} ELSE owed[u] \ {t}]
  /\ UNCHANGED starts

\* severForOverageStop: t is stopped but alive.  Nothing is released, and wakes about t already
\* held for another recipient are dropped too.
OverageSever(t) ==
  /\ t \in Stoppable /\ Proc(inst, t)
  /\ Outside
  /\ \E order \in SetToSeqs(hub.armed[t]) :
       LET purged == RedecideAll(inst, Purged(hub, t), order)
       IN  hub' = [purged EXCEPT !.deferred = [c \in Session |-> NotAbout(@[c], t)]]
  /\ owed' = [u \in Session |-> IF u = t THEN {} ELSE owed[u] \ {t}]
  /\ UNCHANGED inst

Next ==
  \E t \in Session :
    \/ UserPrompt(t) \/ TurnEnds(t) \/ FlushSteer(t)
    \/ TaskStarts(t) \/ TaskEnds(t) \/ NotificationConsumed(t)
    \/ OpenReinvocation(t) \/ BeginReinvocation(t) \/ FireSettle(t)
    \/ Ask(t) \/ UserInterrupt(t)
    \/ PruneBegins(t) \/ PruneEnds(t)
    \/ Exit(t) \/ Kill(t) \/ RemoveSession(t) \/ OverageSever(t)
    \/ \E c \in Session : Dispatch(c, t) \/ ForceInterrupt(c, t) \/ Heartbeat(c, t)
    \/ \E k \in 1..Len(hub.queued[t]) : SendWake(t, k)

Spec == Init /\ [][Next]_vars

\* Turns end, tasks end, a queued notification is delivered by a turn, and every timer and
\* microtask already due runs.  Nothing outside is fair: no prompt, dispatch, kill or abort.
Fairness ==
  \A t \in Session :
    /\ WF_vars(TurnEnds(t))
    /\ WF_vars(FlushSteer(t))
    /\ WF_vars(TaskEnds(t))
    /\ WF_vars(inst[t].notified /\ OpenReinvocation(t))
    /\ WF_vars(BeginReinvocation(t))
    /\ WF_vars(FireSettle(t))
    /\ WF_vars(PruneEnds(t))
    /\ WF_vars(SendWake(t, 1))
    /\ \A c \in Session : WF_vars(GoneForGood(inst, t) /\ Heartbeat(c, t))

FairSpec == Spec /\ Fairness

-----------------------------------------------------------------------------
(* Properties *)

\* Types.
TypeOK ==
  /\ inst \in [Session -> Inst]
  /\ DOMAIN hub = {"armed", "owners", "holding", "asked", "deferred", "inFlight", "queued", "settle"}
  /\ hub.armed \in [Session -> SUBSET Session]
  /\ hub.owners \in [Session -> SUBSET Session]
  /\ hub.holding \subseteq Session
  /\ hub.asked \subseteq Asker
  /\ hub.settle \in [Session -> {"none", "armed", "void"}]
  /\ \A s \in Session : hub.inFlight[s] \in 0..Len(hub.queued[s])
  /\ \A s \in Session : Range(hub.queued[s]) \union Range(hub.deferred[s]) \subseteq Wake
  /\ owed \in [Session -> SUBSET Session]
  /\ starts \in 0..MaxStarts

\* The promise at the head of src/idleSubscriptions.ts: a turn of an owned session is reported to
\* its owner.  Until it has been, the hub still has the owner armed or a wake for it under way.  A
\* session between two processes of its own relaunch is left out: deliver drops what comes due there.
WakeNotLost ==
  \A t, c \in Session : c \in owed[t] /\ inst[c].phase # "relaunch" => Expects(inst, hub, c, t)

\* A hold always has a cause outside the holds: whatever set of sessions is kept from its owners, a
\* wake is on its way to one of them, or one of them awaits a session outside the set.  A cycle of
\* sessions that own each other never holds itself, whoever else is busy.
HoldHasCause ==
  \A S \in SUBSET Session :
    S # {} /\ (\A x \in S : hub.armed[x] # {} /\ Held(inst, hub, x)) =>
      \E y \in S : hub.queued[y] # <<>> \/ \E t \in Session \ S : y \in hub.armed[t]

\* A wake that says a worker finished is queued only when it has: no turn, no subagent, no turn
\* the CLI still owes it, no steer about to restart it.
FinishedMeansDone ==
  [][\A c, t \in Session :
       LET done == [of |-> t, kind |-> "finished"]
       IN  done \in WakesFor(hub', c) /\ done \notin WakesFor(hub, c)
             => Idle(inst', t) /\ ~TargetDefers(inst', t)]_vars

\* Wakes die out: with no cycle of ownership and nothing more from outside, the sessions come to
\* rest.  (Two sessions that own each other do wake each other at every turn end, for ever.)
Owners(t) == OwnersOf(inst, hub, t)
OwnershipAcyclic == \A S \in SUBSET Session : S # {} => \E s \in S : Owners(s) \intersect S = {}
WakesSettle == []OwnershipAcyclic => <>[](\A s \in Session : inst[s].phase # "turn" /\ hub.queued[s] = <<>>)

\* Every turn of an owned session is eventually reported, or its owner or the wait is gone.
OwnerWoken == \A t, c \in Session : c \in owed[t] ~> c \notin owed[t]
=============================================================================
