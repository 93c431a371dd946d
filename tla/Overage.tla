------------------------------ MODULE Overage ------------------------------
(***************************************************************************)
(* Overage protection: what code-conductor does when the account runs past *)
(* its usage window.  OverageResumeController (src/overageResume.ts), the  *)
(* usage poll (src/usageOverageMonitor.ts) and the routing, gate, guard    *)
(* and lockout of InstanceManager (src/instances.ts).                      *)
(*                                                                         *)
(* A trip stops the sessions of the account.  Under stop-resume each is    *)
(* marked, parked under a deadline once idle, and resumed when a usage     *)
(* check clears it; sends meanwhile are queued.  An action is one event    *)
(* with all it does synchronously, so the operators below map one state of *)
(* the fleet to the next; a usage fetch, a wake's send and a saved         *)
(* attachment are where the code lets others run.  Times are left out: a    *)
(* deadline comes due, and a reset passes, at any time after it is set.    *)
(***************************************************************************)
EXTENDS Naturals, Sequences, SequencesExt, FiniteSets

CONSTANTS
  Session,        \* instances, by instanceId
  NoSession,
  Owner,          \* session -> callerInstanceId
  Claude,         \* sessions on a backend of the monitored account
  Mortal,         \* sessions whose process may end, and that may be removed or respawned
  Temp,           \* temp sessions: dropped when their process ends
  Relaunchable,   \* sessions a prune, a rewind or a model switch may relaunch
  FailOpenAfter,  \* FAIL_OPEN_AFTER
  MaxUpsets       \* bound of a run: Settings Applies and process exits, together

ASSUME OverageAssumption ==
  /\ IsFiniteSet(Session)
  /\ NoSession \notin Session
  /\ Owner \in [Session -> Session \union {NoSession}]
  /\ Claude \union Mortal \union Temp \union Relaunchable \subseteq Session
  /\ FailOpenAfter \in Nat \ {0}
  /\ MaxUpsets \in Nat

VARIABLES
  fleet,    \* the sessions' flags, the lockout, the deadlines and the wake graph
  sweep,    \* sessions the sweep is checking: one fetch is in flight for all of them
  forced,   \* sessions fireNow is checking, each with a fetch of its own
  waking,   \* sessions an idle wake is about to be sent to
  policy,   \* getOnOverageAction()
  apply,    \* the step a Settings Apply runs next
  upsets    \* Settings Applies and process exits so far

vars == <<fleet, sweep, forced, waking, policy, apply, upsets>>

Policy == {"none", "stop", "stop-resume"}
\* "gap": relaunching, no process.
Phase == {"idle", "turn", "gap", "dead", "gone"}
Fleet == [phase : [Session -> Phase],
          marked : SUBSET Session,             \* autoStoppedForOverage
          badge : SUBSET Session,              \* autoResumeAt is set
          unarmed : SUBSET Session,            \* _overageStoppedUnarmed
          firing : SUBSET Session,             \* _overageResumeFiring
          sending : SUBSET Session,            \* the resume prompt awaits its attachments
          queued : SUBSET Session,             \* _overageQueue is not empty
          timers : SUBSET Session,             \* sessions with a deadline
          fails : [Session -> 0..FailOpenAfter - 1],
          active : BOOLEAN, mode : BOOLEAN,    \* _overageActive, _overageResumeMode
          ahead : BOOLEAN,                     \* the manager's _overageResetsAt lies ahead
          clearing : BOOLEAN,                  \* _overageClearTimer is set
          waits : SUBSET (Session \X Session), \* armed wakes: <<owner, target>>
          cut : SUBSET Session,                \* history: live owners whose wake a sever took, not driven since
          orphaned : SUBSET Session]           \* history: relaunched under a deadline

Caller == {Owner[s] : s \in Session} \ {NoSession}
Live(f, s) == f.phase[s] \in {"idle", "turn"}
Registered(f, s) == f.phase[s] # "gone"

-----------------------------------------------------------------------------
(* The agent tree *)

Parent(f, s) == IF Owner[s] # NoSession /\ Registered(f, Owner[s]) THEN Owner[s] ELSE NoSession
LiveOwner(f, s) == Parent(f, s) # NoSession /\ Live(f, Parent(f, s))

\* s and every registered session above it.
Ancestors(f, s) ==
  {a \in Session : \A S \in SUBSET Session :
     s \in S /\ (\A x \in S : Parent(f, x) \in S \union {NoSession}) => a \in S}

\* _inUsageWindowFlow: some session of s's whole tree uses the monitored account.  Two sessions are of
\* one tree when they have a session above both, the root or, were there a cycle, its members.
InFlow(f, s) ==
  \E x \in Claude : Registered(f, x) /\ Ancestors(f, x) \intersect Ancestors(f, s) # {}

\* _overageGate
GateActive(f, s) == f.active /\ f.mode /\ f.ahead /\ InFlow(f, s)

-----------------------------------------------------------------------------
(* Deadlines *)

\* arm
Arm(f, s) == [f EXCEPT !.badge = @ \union {s}, !.timers = @ \union {s}]

\* _armResumeNow
ArmNow(f, s) ==
  IF s \in f.badge \union f.timers \union f.unarmed THEN f ELSE Arm([f EXCEPT !.marked = @ \union {s}], s)

\* The status handler, for a session that has just reported idle.
ArmAtIdle(f, s) == IF s \in f.marked \ f.timers THEN Arm(f, s) ELSE f

\* Mutant of CancelAll: the queue is kept.
CancelKeepsQueue(f, S) ==
  LET R == {s \in S : Registered(f, s)}
  IN  [f EXCEPT !.timers = @ \ S, !.fails = [s \in Session |-> IF s \in S THEN 0 ELSE @[s]],
                !.badge = @ \ R, !.marked = @ \ R, !.unarmed = @ \ R]

\* cancel, of every session in S: the flags of one no longer registered are left alone.
CancelAll(f, S) ==
  LET R == {s \in S : Registered(f, s)}
  IN  [f EXCEPT !.timers = @ \ S, !.fails = [s \in Session |-> IF s \in S THEN 0 ELSE @[s]],
                !.badge = @ \ R, !.marked = @ \ R, !.unarmed = @ \ R, !.queued = @ \ R]
Cancel(f, s) == CancelAll(f, {s})

\* _clearOverage
ClearOverage(f) ==
  [f EXCEPT !.active = FALSE, !.mode = FALSE, !.ahead = FALSE, !.clearing = FALSE,
            !.unarmed = {s \in @ : ~Registered(f, s)},
            !.cut = {}]

\* _maybeReleaseOverageLock: not while a session is parked, or stopped and about to be.
MaybeRelease(f) ==
  IF ~f.active \/ f.timers # {} \/ (\E s \in f.marked : Live(f, s)) THEN f ELSE ClearOverage(f)

-----------------------------------------------------------------------------
(* Severing the wake graph *)

\* History: s runs again, and drives those who lost a wake under it; or its process ends, which
\* nothing here makes good.
Driven(f, s) == [f EXCEPT !.cut = {c \in @ : c # s /\ Owner[c] # s}]

\* The sole driver of a caller that lost a wake is its live owner, else itself.
Driver(f, c) == IF LiveOwner(f, c) THEN Owner[c] ELSE c
Armable(f, c) ==
  /\ f.active /\ f.mode /\ Live(f, c) /\ InFlow(f, c)
  /\ {c, Driver(f, c)} \intersect (f.marked \union f.badge \union f.timers) = {}
  /\ Driver(f, c) \notin f.unarmed

\* Mutant of ArmSeveredCaller: a driver in the middle of a turn is left alone.
ArmSeveredIdle(f, c) ==
  IF ~Armable(f, c) \/ f.phase[Driver(f, c)] = "turn" THEN f ELSE ArmNow(f, Driver(f, c))

\* _armSeveredCaller: a driver in the middle of a turn is marked, and armed when the turn ends.
ArmSeveredCaller(f, c) ==
  IF ~Armable(f, c) THEN f
  ELSE IF f.phase[Driver(f, c)] = "turn" THEN [f EXCEPT !.marked = @ \union {Driver(f, c)}]
  ELSE ArmNow(f, Driver(f, c))

\* The same for each of the callers, in the order given.
ArmSevered(f, callers) ==
  LET done[k \in 0..Len(callers)] ==
        IF k = 0 THEN f ELSE ArmSeveredCaller(done[k - 1], callers[k])
  IN  done[Len(callers)]

\* _severOverageWakes: every wait on s and of s ends; those that lost one are armed, s last.
Sever(f, s) ==
  LET waiters == {c \in Session : <<c, s>> \in f.waits}
      own == {c \in {s} : \E t \in Session : <<c, t>> \in f.waits}
      severed == [f EXCEPT !.waits = {e \in @ : s \notin {e[1], e[2]}},
                           !.cut = @ \union {c \in waiters \union own : Live(f, c)}]
  IN  ArmSevered(severed, SetToSeq(waiters \ {s}) \o SetToSeq(own))

\* _guardOverageTurnStart.  Its soft interrupt ends the turn later, as any turn ends.
Guard(f, s) == IF GateActive(f, s) /\ s \notin f.firing THEN Sever(f, s) ELSE f

\* A turn starts: the owner's wake is armed, then the guard looks.
TurnStarts(f, s) ==
  Guard([f EXCEPT !.phase[s] = "turn",
                  !.waits = @ \union {<<c, s>> : c \in {Parent(f, s)} \ {NoSession}}], s)

\* What reaches a session past the queue: a fresh turn, or a steer into the running one.
InternalPrompt(f, s) == IF f.phase[s] = "idle" THEN TurnStarts(f, s) ELSE f

-----------------------------------------------------------------------------
(* A usage check's outcome *)

\* _reschedule: also keeps the manager's reset ahead, so that the gate stays shut.
Reschedule(f, s) == [Arm(f, s) EXCEPT !.ahead = @ \/ f.mode]

\* run: the queue goes out with the resume prompt.  A queue with attachments leaves the prompt
\* unfinished (`saving`) while they are written.
Resume(f, s, saving) ==
  LET cancelled == Driven(Cancel(f, s), s)
      firing == [cancelled EXCEPT !.firing = @ \union {s}]
  IN  IF ~Live(f, s) THEN Cancel(f, s)
      ELSE IF saving /\ s \in f.queued THEN [firing EXCEPT !.sending = @ \union {s}]
      ELSE [InternalPrompt(firing, s) EXCEPT !.firing = @ \ {s}]

\* Mutant of Resolve: a check that comes back after a cancel resumes all the same.
ResolveCancelled(f, s, usage, saving) ==
  LET n == f.fails[s] + 1
  IN  IF Live(f, s) /\ usage = "over" THEN Reschedule(f, s)
      ELSE IF Live(f, s) /\ usage = "unknown" /\ n < FailOpenAfter
      THEN Reschedule([f EXCEPT !.fails[s] = n], s)
      ELSE MaybeRelease(Resume([f EXCEPT !.fails[s] = 0], s, saving))

\* Mutant of Resolve: one more failed check than the limit.
ResolveLate(f, s, usage, saving) ==
  LET n == f.fails[s] + 1
  IN  IF s \notin f.marked /\ s \notin f.badge THEN [f EXCEPT !.fails[s] = 0]
      ELSE IF Live(f, s) /\ usage = "over" THEN Reschedule(f, s)
      ELSE IF Live(f, s) /\ usage = "unknown" /\ n <= FailOpenAfter
      THEN Reschedule([f EXCEPT !.fails[s] = n], s)
      ELSE MaybeRelease(Resume([f EXCEPT !.fails[s] = 0], s, saving))

\* Mutant of Resolve: a failed check is never enough.
ResolveClosed(f, s, usage, saving) ==
  IF s \notin f.marked /\ s \notin f.badge THEN [f EXCEPT !.fails[s] = 0]
  ELSE IF Live(f, s) /\ usage # "under" THEN Reschedule(f, s)
  ELSE MaybeRelease(Resume([f EXCEPT !.fails[s] = 0], s, saving))

\* _resolveDue
Resolve(f, s, usage, saving) ==
  LET n == f.fails[s] + 1
  IN  IF s \notin f.marked /\ s \notin f.badge THEN [f EXCEPT !.fails[s] = 0]
      ELSE IF Live(f, s) /\ usage = "over" THEN Reschedule(f, s)
      ELSE IF Live(f, s) /\ usage = "unknown" /\ n < FailOpenAfter
      THEN Reschedule([f EXCEPT !.fails[s] = n], s)
      ELSE MaybeRelease(Resume([f EXCEPT !.fails[s] = 0], s, saving))

-----------------------------------------------------------------------------
(* A trip *)

\* _directOverageStop.  The interrupt is the soft tier: the status does not change here.
DirectStop(f, s, armResume) ==
  LET g == IF armResume THEN [f EXCEPT !.marked = @ \union {s}] ELSE f
      h == Sever(g, s)
  IN  IF armResume /\ f.phase[s] # "turn" THEN ArmNow(h, s) ELSE h

\* isIdleCaller
IsCaller(f, c) == c \in waking \/ \E t \in Session : <<c, t>> \in f.waits

\* The second and the third pass of the routing.
StopConductors(f, conductors, resume) ==
  LET done[k \in 0..Len(conductors)] ==
        IF k = 0 THEN f ELSE DirectStop(done[k - 1], conductors[k], resume)
  IN  done[Len(conductors)]

StopOther(f, s, resume, protected) ==
  LET stopped == DirectStop(f, s, resume /\ s \notin protected)
  IN  [stopped EXCEPT !.unarmed = IF s \in protected THEN @ \union {s} ELSE @ \ {s}]
StopOthers(f, others, resume, protected) ==
  LET done[k \in 0..Len(others)] ==
        IF k = 0 THEN f ELSE StopOther(done[k - 1], others[k], resume, protected)
  IN  done[Len(others)]

\* _routeOverageStop: the conductors in control, then every other session mid-turn.  A worker
\* under a conductor in control is stopped but not armed: its conductor drives it.
Route(f, resume, jobWaiters) ==
  LET live == {s \in Session : Live(f, s) /\ InFlow(f, s)}
      InControl(c) == f.phase[c] = "turn" \/ IsCaller(f, c) \/ c \in jobWaiters
      protected == {s \in live : LiveOwner(f, s) /\ InControl(Owner[s])}
      conductors == {Owner[s] : s \in protected}
      stopped == StopConductors(f, SetToSeq(conductors), resume)
      others == {s \in live \ conductors : f.phase[s] = "turn"}
  IN  StopOthers(stopped, SetToSeq(others), resume, protected)

\* _handleOverageTrip: once per lockout.  The report's reset may be missing or past; the clear timer
\* is set all the same, as Number(null) is 0.
Trip(f, ahead, jobWaiters) ==
  LET resume == policy = "stop-resume"
      locked == [f EXCEPT !.active = TRUE, !.ahead = ahead, !.mode = resume]
      routed == Route(locked, resume, jobWaiters)
  IN  IF policy = "none" \/ f.active THEN f
      ELSE [routed EXCEPT !.clearing = TRUE]

Init ==
  /\ fleet = [phase |-> [s \in Session |-> "idle"],
              marked |-> {}, badge |-> {}, unarmed |-> {}, firing |-> {}, sending |-> {},
              queued |-> {},
              timers |-> {}, fails |-> [s \in Session |-> 0],
              active |-> FALSE, mode |-> FALSE, ahead |-> FALSE, clearing |-> FALSE,
              waits |-> {}, cut |-> {}, orphaned |-> {}]
  /\ sweep = {} /\ forced = {} /\ waking = {}
  /\ policy \in Policy
  /\ apply = "none"
  /\ upsets = 0

-----------------------------------------------------------------------------
(* Prompts and turns *)

\* A send the lockout holds: into the queue, with a deadline that will flush it.
Queue(f, s) ==
  LET held == [f EXCEPT !.queued = @ \union {s}]
      armed == IF s \in f.badge THEN held ELSE ArmNow(held, s)
  IN  IF f.phase[s] = "idle" THEN ArmAtIdle(armed, s) ELSE armed

\* A send that goes through cancels the session's own resume; a stopped session taken over ends
\* the whole lockout.
TakeOver(f, s) ==
  LET cancelled == Driven(Cancel(f, s), s)
      released == IF s \in f.marked /\ f.active THEN ClearOverage(cancelled) ELSE cancelled
  IN  InternalPrompt(released, s)

\* prompt(), from a human or an MCP tool.  An un-armed worker refuses it.
Prompt(s) ==
  /\ Live(fleet, s)
  /\ ~(s \in fleet.unarmed /\ GateActive(fleet, s))
  /\ fleet' = IF GateActive(fleet, s) \/ (s \in fleet.marked /\ s \in fleet.badge)
              THEN Queue(fleet, s) ELSE TakeOver(fleet, s)
  /\ UNCHANGED <<sweep, forced, waking, policy, apply, upsets>>

\* A turn nobody prompted: a background job's exit, a self-triggered turn.
Reinvoke(s) ==
  /\ fleet.phase[s] = "idle"
  /\ fleet' = TurnStarts(fleet, s)
  /\ UNCHANGED <<sweep, forced, waking, policy, apply, upsets>>

\* A turn ends: a marked session is armed, and its owner is woken unless s itself waits on work.
TurnEnds(s) ==
  /\ fleet.phase[s] = "turn"
  /\ LET waiters == {c \in Session : <<c, s>> \in fleet.waits}
         holds == s \in waking \/ \E t \in Session : <<s, t>> \in fleet.waits /\ Live(fleet, t)
         woken == IF holds THEN {} ELSE waiters
     IN  /\ fleet' = ArmAtIdle([fleet EXCEPT !.phase[s] = "idle", !.waits = @ \ {<<c, s>> : c \in woken}], s)
         /\ waking' = waking \union {c \in woken : Live(fleet, c)}
  /\ UNCHANGED <<sweep, forced, policy, apply, upsets>>

\* The microtask that sends an idle wake: an internal prompt, past the queue.
SendWake(s) ==
  /\ s \in waking
  /\ waking' = waking \ {s}
  /\ fleet' = IF Live(fleet, s) THEN InternalPrompt(fleet, s) ELSE fleet
  /\ UNCHANGED <<sweep, forced, policy, apply, upsets>>

\* The attachments are saved and the resume prompt goes out.
SendResume(s) ==
  /\ s \in fleet.sending
  /\ LET sent == [fleet EXCEPT !.sending = @ \ {s}]
     IN  fleet' = [IF Live(sent, s) THEN InternalPrompt(sent, s) ELSE sent EXCEPT !.firing = @ \ {s}]
  /\ UNCHANGED <<sweep, forced, waking, policy, apply, upsets>>

-----------------------------------------------------------------------------
(* Trips *)

\* An overage report in the stream of a session on the account's own backend.  The latch that lets a
\* process report once (_overageHandled) is left out: the poll may trip at any such moment too.
StreamOverage(s) ==
  /\ fleet.phase[s] = "turn" /\ s \in Claude
  /\ \E ahead \in BOOLEAN, jobWaiters \in SUBSET Caller : fleet' = Trip(fleet, ahead, jobWaiters)
  /\ UNCHANGED <<sweep, forced, waking, policy, apply, upsets>>

\* UsageOverageMonitor._tick, as its fetch answers that the account is over its bar.  It was begun
\* while a session was mid-turn; whether one still is, is not asked again.
PollOverage ==
  /\ \E ahead \in BOOLEAN, jobWaiters \in SUBSET Caller : fleet' = Trip(fleet, ahead, jobWaiters)
  /\ UNCHANGED <<sweep, forced, waking, policy, apply, upsets>>

-----------------------------------------------------------------------------
(* Deadlines come due *)

\* The reset the gate goes by passes.
ResetPasses ==
  /\ fleet.ahead
  /\ fleet' = [fleet EXCEPT !.ahead = FALSE]
  /\ UNCHANGED <<sweep, forced, waking, policy, apply, upsets>>

\* The clear timer, the backstop.
ClearTimerFires ==
  /\ fleet.clearing
  /\ fleet' = MaybeRelease([fleet EXCEPT !.clearing = FALSE])
  /\ UNCHANGED <<sweep, forced, waking, policy, apply, upsets>>

\* What a fetch may answer: "unknown" when it fails or its answer is not usable.
Usage == {"over", "under", "unknown"}

\* _tick of the controller: one fetch for every deadline now due.
SweepBegins ==
  \E due \in SUBSET (fleet.timers \ forced) :
      /\ sweep = {} /\ due # {}
      /\ sweep' = {s \in due : Registered(fleet, s)}
      /\ fleet' = [fleet EXCEPT !.timers = {s \in @ : s \in due => Registered(fleet, s)}]
      /\ UNCHANGED <<forced, waking, policy, apply, upsets>>

\* One answer for all of them, one after the other.
ResolveAll(f, checked, usage, saving) ==
  LET done[k \in 0..Len(checked)] ==
        IF k = 0 THEN f ELSE Resolve(done[k - 1], checked[k], usage, saving)
  IN  done[Len(checked)]

SweepAnswers(usage) ==
  /\ sweep # {}
  /\ \E saving \in BOOLEAN, order \in SetToSeqs(sweep) :
       fleet' = ResolveAll(fleet, order, usage, saving)
  /\ sweep' = {}
  /\ UNCHANGED <<forced, waking, policy, apply, upsets>>

\* fireNow's fetch, for one session.
ForcedAnswers(s, usage) ==
  /\ s \in forced
  /\ \E saving \in BOOLEAN : fleet' = Resolve(fleet, s, usage, saving)
  /\ forced' = forced \ {s}
  /\ UNCHANGED <<sweep, waking, policy, apply, upsets>>

-----------------------------------------------------------------------------
(* Settings Apply: the setting is saved, then the policy synced, then (after a forced poll) every
   parked session re-evaluated. *)

SavePolicy ==
  /\ apply = "none"
  /\ policy' \in Policy
  /\ apply' = "sync"
  /\ upsets < MaxUpsets /\ upsets' = upsets + 1
  /\ UNCHANGED <<fleet, sweep, forced, waking>>

\* Mutant of SyncedFleet: it walks the deadlines, and misses who has none at this moment.
SyncedParked(f) ==
  IF policy = "stop-resume" THEN f
  ELSE CancelAll([f EXCEPT !.mode = FALSE, !.cut = {}], {s \in f.timers : Registered(f, s)})

\* syncOveragePolicy: off stop-resume, no session keeps a resumption mark.
SyncedFleet(f) ==
  IF policy = "stop-resume" THEN f
  ELSE CancelAll([f EXCEPT !.mode = FALSE, !.cut = {}],
                 {s \in f.badge \union f.marked \union f.queued \union f.unarmed \union f.timers :
                    Registered(f, s)})

SyncPolicy ==
  /\ apply = "sync"
  /\ fleet' = SyncedFleet(fleet)
  /\ apply' = "reevaluate"
  /\ UNCHANGED <<sweep, forced, waking, policy, upsets>>

\* reevaluateOverageResumes: fireNow for every deadline.
Reevaluate ==
  /\ apply = "reevaluate"
  /\ LET fired == {s \in fleet.timers \ (sweep \union forced) : Registered(fleet, s)}
     IN  /\ forced' = forced \union fired
         /\ fleet' = [fleet EXCEPT !.timers = {s \in @ \ fired : Registered(fleet, s)}]
  /\ apply' = "none"
  /\ UNCHANGED <<sweep, waking, policy, upsets>>

-----------------------------------------------------------------------------
(* Processes end and come back *)

\* The process ends, on its own (its owner is told) or killed.  A temp session is dropped.
Exit(s) ==
  /\ s \in Mortal /\ Live(fleet, s)
  /\ upsets < MaxUpsets /\ upsets' = upsets + 1
  /\ LET waiters == {c \in Session : <<c, s>> \in fleet.waits}
         told == [Driven(fleet, s) EXCEPT !.waits = @ \ {<<c, s>> : c \in waiters}]
         Ended(f) == IF s \in Temp
                     THEN [Cancel(f, s) EXCEPT !.phase[s] = "gone", !.waits = {e \in @ : s \notin {e[1], e[2]}}]
                     ELSE [f EXCEPT !.phase[s] = "dead"]
     IN  \/ fleet' = Ended(told) /\ waking' = waking \union {c \in waiters : Live(fleet, c)}
         \/ fleet' = Ended(Driven(fleet, s)) /\ UNCHANGED waking
  /\ UNCHANGED <<sweep, forced, policy, apply>>

\* remove(): out of the registry first, so that the cancel leaves the flags.
RemoveSession(s) ==
  /\ s \in Mortal /\ fleet.phase[s] = "dead"
  /\ LET removed == [fleet EXCEPT !.phase[s] = "gone", !.waits = {e \in @ : s \notin {e[1], e[2]}}]
     IN  fleet' = Cancel(removed, s)
  /\ UNCHANGED <<sweep, forced, waking, policy, apply, upsets>>

Respawn(s) ==
  /\ s \in Mortal /\ fleet.phase[s] = "dead"
  /\ fleet' = [Cancel(fleet, s) EXCEPT !.phase[s] = "gap"]
  /\ UNCHANGED <<sweep, forced, waking, policy, apply, upsets>>

\* A prune, a rewind or a model switch kills an idle session's process ...
RelaunchKills(s) ==
  /\ s \in Relaunchable /\ fleet.phase[s] = "idle"
  /\ fleet' = [Driven(fleet, s) EXCEPT !.phase[s] = "gap",
                     !.orphaned = IF s \in fleet.timers THEN @ \union {s} ELSE @]
  /\ UNCHANGED <<sweep, forced, waking, policy, apply, upsets>>

\* ... and spawn() starts the next one.  It clears the session's flags and its queue, not the
\* controller's deadline.
Launched(s) ==
  /\ fleet.phase[s] = "gap"
  /\ \/ fleet' = [fleet EXCEPT !.phase[s] = "idle", !.marked = @ \ {s}, !.badge = @ \ {s},
                     !.firing = @ \ {s},
                     !.unarmed = @ \ {s}, !.queued = @ \ {s}]
     \/ fleet' = [fleet EXCEPT !.phase[s] = "dead"]
  /\ UNCHANGED <<sweep, forced, waking, policy, apply, upsets>>

Next ==
  \/ \E s \in Session :
       \/ Prompt(s) \/ Reinvoke(s) \/ TurnEnds(s) \/ SendWake(s) \/ SendResume(s)
       \/ StreamOverage(s) \/ \E usage \in Usage : ForcedAnswers(s, usage)
       \/ Exit(s) \/ RemoveSession(s) \/ Respawn(s) \/ RelaunchKills(s) \/ Launched(s)
  \/ PollOverage
  \/ ResetPasses \/ ClearTimerFires \/ SweepBegins \/ \E usage \in Usage : SweepAnswers(usage)
  \/ SavePolicy \/ SyncPolicy \/ Reevaluate

Spec == Init /\ [][Next]_vars

\* Turns end (the stop's interrupt is bounded), timers and microtasks run, every deadline comes due,
\* fetches answer, and they do not answer for ever that the account is over: they may fail for ever.
\* No prompt, trip, exit or Apply is fair.
Fairness ==
  /\ WF_vars(\E usage \in Usage : SweepAnswers(usage))
  /\ \A s \in Session :
       /\ WF_vars(TurnEnds(s)) /\ WF_vars(SendWake(s)) /\ WF_vars(SendResume(s))
       /\ WF_vars(\E usage \in Usage : ForcedAnswers(s, usage))
       /\ SF_vars(SweepBegins /\ s \in sweep')
       /\ SF_vars(\E usage \in {"under", "unknown"} : ForcedAnswers(s, usage))
       /\ SF_vars(\E usage \in {"under", "unknown"} : SweepAnswers(usage) /\ s \in sweep)
FairSpec == Spec /\ Fairness

-----------------------------------------------------------------------------
(* Properties *)

\* Types.
TypeOK ==
  /\ fleet \in Fleet
  /\ sweep \subseteq Session /\ forced \subseteq Session /\ waking \subseteq Session
  /\ policy \in Policy /\ apply \in {"none", "sync", "reevaluate"}
  /\ upsets \in 0..MaxUpsets

WillFlush(s) == s \in fleet.marked /\ s \in fleet.timers \union forced \union sweep

\* "Queueing here would strand the text forever - the queue is flushed only by a fired deadline": a
\* message held for a live session always has a resume on its way to flush it.  Sessions relaunched
\* while they were parked are left out; EveryQueueFlushed says why.
QueueHasFlush ==
  \A s \in fleet.queued \ fleet.orphaned : Live(fleet, s) => WillFlush(s)

EveryQueueFlushed == \A s \in fleet.queued : Live(fleet, s) => WillFlush(s)

\* A usage check that comes back after its session was cancelled (policy, takeover, respawn) starts
\* no turn on it.
ResumeOnlyMarked ==
  [][\A s \in Session :
       LET checked == s \in sweep \union forced /\ s \notin sweep' \union forced'
       IN  checked /\ s \notin fleet.marked \union fleet.badge /\ fleet.phase[s] = "idle"
             => fleet'.phase[s] = "idle"]_vars

\* "The policy is live authority: the moment it is no longer stop-resume, no session may carry a
\* resumption mark", whatever check, interrupt or poll was under way when it changed.
PolicyIsLive ==
  policy # "stop-resume" /\ apply # "sync" =>
    \A s \in Session :
      Registered(fleet, s) =>
        s \notin fleet.marked \union fleet.badge \union fleet.queued \union fleet.timers

\* No wake is cut without a driver: under the lockout, a session that lost a wake to the sever and
\* has not run since is to be resumed itself, or its owner is.
CutHasDriver ==
  fleet.active /\ fleet.mode =>
    \A c \in fleet.cut \ fleet.orphaned :
      InFlow(fleet, c) =>
        \/ c \in fleet.marked \union fleet.unarmed
        \/ LiveOwner(fleet, c) /\ Owner[c] \in fleet.marked \union fleet.unarmed \union fleet.orphaned

\* A parked session is resumed, or otherwise released, once the account recovers.
Unparked == \A s \in Session : s \in fleet.marked ~> (s \notin fleet.marked \/ ~Live(fleet, s))
=============================================================================
