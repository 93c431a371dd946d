------------------------- MODULE RestartCycleProofs -------------------------
(***************************************************************************)
(* Theorems about RestartCycle, for any sessions and any spawn tree, any   *)
(* number of events, restarts and crashes.                                 *)
(***************************************************************************)
EXTENDS RestartCycle, FiniteSetTheorems, TLAPS

\* A server that runs has read the manifest; one that does not has nothing but the manifest.
ServerOK ==
  /\ Up => manifest = Nothing
  /\ ~Up => /\ todo = {} /\ restoring = NoSession /\ resolving = {} /\ claimed = {}
            /\ jobs = {} /\ waits = {} /\ waking = {}
            /\ \A s \in Session : cli[s] = "gone"

\* Wakes go up the spawn tree; a worker never outlives its spawner, and while it is mid-turn its
\* spawner waits for it.  Only top-level sessions are resumed.
TreeOK ==
  /\ \A e \in waits : e[1] = Spawner[e[2]]
  /\ waking \cap Mortal = {}
  /\ \A s \in jobs : Proc(s)
  /\ \A s \in Session \ Top : cli[s] # "gone" => cli[Spawner[s]] # "gone"
  /\ \A s \in Session \ Top : cli[s] = "turn" => <<Spawner[s], s>> \in waits
  /\ resolving \cup claimed \subseteq Top \X Caller

\* A claim is the only one on its session, which has no CLI.
ClaimsOK ==
  \A s \in Session, who \in Caller : <<s, who>> \in claimed =>
    /\ cli[s] = "gone"
    /\ \A other \in Caller : <<s, other>> \in claimed => other = who

\* During a drain: whatever it has cut is on its list; a top-level session with work that is not on
\* the list has it from a later event; and whom the drain looked for and cannot exit is still live.
ListOK ==
  suspended =>
    /\ cut \subseteq busyAtDrain
    /\ \A s \in Top \ late : cli[s] = "turn" \/ IdleCaller(s) => s \in busyAtDrain
    /\ \A s \in Top \ (late \cup Mortal) : s \in live

\* Only top-level sessions are owed anything, and they are on their way.
WayOK == OnItsWay /\ \A s \in Session : due[s] # "nothing" => s \in Top

\* An entry still to be restored has had no notice since its manifest.
NoticesOK ==
  /\ restoring \notin todo
  /\ \A s \in Session : /\ notices[s] <= 1
                        /\ s \in manifest.entries \cup todo \cup {restoring} => notices[s] = 0

IInv == TypeOK /\ ServerOK /\ TreeOK /\ ClaimsOK /\ ListOK /\ WayOK /\ NoticesOK

-----------------------------------------------------------------------------
(* The spawn tree. *)

LEMMA RootTop ==
  ASSUME NEW s \in Session
  PROVE  Root(s) \in Top /\ \A S \in SUBSET Session : Above(s, S) => Root(s) \in S
BY RootAssumption DEF Root

LEMMA RootSelf ==
  ASSUME NEW s \in Top
  PROVE  s \in Session /\ Root(s) = s
<1>1. {s} \in SUBSET Session /\ Above(s, {s})
  BY DEF Top, Above
<1> QED BY <1>1, RootTop DEF Top

LEMMA RootOwner ==
  ASSUME NEW s \in Session, Spawner[s] \in Top
  PROVE  Root(s) = Spawner[s]
<1>1. {s, Spawner[s]} \in SUBSET Session /\ Above(s, {s, Spawner[s]})
  BY DEF Top, Above
<1>2. s \notin Top
  BY RestartAssumption DEF Top
<1> QED BY <1>1, <1>2, RootTop

\* A session with another under it has spawned one, so its CLI does not exit on its own.
LEMMA RootLives ==
  ASSUME NEW s \in Session, Root(s) # s
  PROVE  Root(s) \notin Mortal
<1>1. \E y \in Session : Spawner[y] = Root(s)
  <2> SUFFICES ASSUME \A y \in Session : Spawner[y] # Root(s) PROVE FALSE
    OBVIOUS
  <2>1. Session \ {Root(s)} \in SUBSET Session /\ Above(s, Session \ {Root(s)})
    BY RestartAssumption DEF Above
  <2> QED BY <2>1, RootTop
<1> QED BY <1>1, RestartAssumption

-----------------------------------------------------------------------------
(* Types. *)

LEMMA TypedInit == Init => TypeOK
<1> SUFFICES ASSUME Init PROVE TypeOK
  OBVIOUS
<1>1. 0 \in 0..MaxEvents /\ 0 \in 0..MaxRestarts /\ 0 \in 0..MaxCrashes
  BY RestartAssumption
<1>2. counts \in [events : 0..MaxEvents, restarts : 0..MaxRestarts, crashes : 0..MaxCrashes]
  BY <1>1 DEF Init
<1>3. manifest.entries = {} /\ manifest.busy = {}
  BY DEF Init, Nothing
<1> QED BY <1>2, <1>3 DEF Init, TypeOK, Stage, Cli

LEMMA TopInSession == Top \subseteq Session /\ NoSession \notin Session /\ NoSession \notin Top
BY RestartAssumption DEF Top

LEMMA CountsTyped ==
  ASSUME TypeOK
  PROVE  /\ counts.events < MaxEvents
              => [counts EXCEPT !.events = @ + 1] \in
                   [events : 0..MaxEvents, restarts : 0..MaxRestarts, crashes : 0..MaxCrashes]
         /\ counts.restarts < MaxRestarts
              => [counts EXCEPT !.restarts = @ + 1] \in
                   [events : 0..MaxEvents, restarts : 0..MaxRestarts, crashes : 0..MaxCrashes]
         /\ counts.crashes < MaxCrashes
              => [counts EXCEPT !.crashes = @ + 1] \in
                   [events : 0..MaxEvents, restarts : 0..MaxRestarts, crashes : 0..MaxCrashes]
<1>1. /\ counts.events < MaxEvents => counts.events + 1 \in 0..MaxEvents
      /\ counts.restarts < MaxRestarts => counts.restarts + 1 \in 0..MaxRestarts
      /\ counts.crashes < MaxCrashes => counts.crashes + 1 \in 0..MaxCrashes
  BY RestartAssumption DEF TypeOK
<1> QED BY <1>1 DEF TypeOK

LEMMA BeginsTyped ==
  ASSUME TypeOK, NEW s \in Session, Begins(s)
  PROVE  late' \subseteq Top
BY RootTop DEF Begins, TypeOK

LEMMA StartsTurnTyped ==
  ASSUME TypeOK, NEW s \in Session, StartsTurn(s)
  PROVE  /\ cli' \in [Session -> Cli]
         /\ waits' \subseteq Session \X Session
         /\ late' \subseteq Top
<1>1. Begins(s)
  BY DEF StartsTurn
<1> QED BY <1>1, BeginsTyped DEF StartsTurn, TypeOK, Cli

LEMMA DeliverTyped ==
  ASSUME TypeOK, NEW C, C \subseteq Session, Deliver(C)
  PROVE  waking' \subseteq Session /\ cut' \subseteq Top
BY DEF Deliver, TypeOK

LEMMA TypedTurns ==
  ASSUME TypeOK, NEW s \in Session,
         \/ Prompt(s) \/ TurnEnds(s) \/ SendWake(s) \/ JobStarts(s) \/ JobEnds(s)
         \/ Relaunch(s) \/ Relaunched(s) \/ Exit(s) \/ Ready(s)
  PROVE  TypeOK'
<1> USE DEF restart, wakes, restore, creates, history, Quiet, Event, Left
<1>1. CASE Prompt(s)
  BY <1>1, StartsTurnTyped, CountsTyped DEF Prompt, TypeOK
<1>2. CASE TurnEnds(s)
  <2> DEFINE holds == s \in waking \/ \E t \in Session : <<s, t>> \in waits /\ cli[t] # "gone"
  <2> DEFINE woken == IF holds THEN {} ELSE {c \in Session : <<c, s>> \in waits}
  <2>1. woken \subseteq Session /\ Deliver(woken)
    BY <1>2 DEF TurnEnds
  <2>2. waking' \subseteq Session /\ cut' \subseteq Top
    BY <2>1, DeliverTyped
  <2> QED BY <1>2, <2>2 DEF TurnEnds, TypeOK, Cli
<1>3. CASE SendWake(s)
  BY <1>3, StartsTurnTyped DEF SendWake, TypeOK
<1>4. CASE JobStarts(s)
  BY <1>4, BeginsTyped, CountsTyped DEF JobStarts, TypeOK
<1>5. CASE JobEnds(s)
  BY <1>5, StartsTurnTyped DEF JobEnds, TypeOK
<1>6. CASE Relaunch(s)
  BY <1>6, CountsTyped DEF Relaunch, TypeOK, Cli
<1>7. CASE Relaunched(s) \/ Ready(s)
  BY <1>7 DEF Relaunched, Ready, TypeOK, Cli
<1>8. CASE Exit(s)
  <2>1. {c \in Session : <<c, s>> \in waits} \subseteq Session
    OBVIOUS
  <2>2. waking' \subseteq Session /\ cut' \subseteq Top
    BY <1>8, <2>1, DeliverTyped DEF Exit, TypeOK
  <2> QED BY <1>8, <2>2, CountsTyped DEF Exit, TypeOK, Cli
<1> QED BY <1>1, <1>2, <1>3, <1>4, <1>5, <1>6, <1>7, <1>8

LEMMA TypedDrain ==
  ASSUME TypeOK, BeginDrain \/ GraceElapses \/ BeginInstall \/ AbortDrain \/ FinishDrain
                 \/ Crash \/ Boot
  PROVE  TypeOK'
<1> USE DEF restart, wakes, restore, creates, history, Quiet
<1>1. CASE BeginDrain
  <2>1. Stopped \subseteq Top
    BY DEF Stopped, Owners
  <2>2. live' \subseteq Session /\ busyAtDrain' \subseteq Session /\ pending' \subseteq Session
        /\ interrupted' \subseteq Session /\ late' \subseteq Top /\ cut' \subseteq Top
    BY <1>1, <2>1 DEF BeginDrain, TypeOK, Living, BusyNow, MidTurn, Awaited
  <2> QED BY <1>1, <2>2, CountsTyped DEF BeginDrain, TypeOK, Stage
<1>2. CASE GraceElapses
  BY <1>2 DEF GraceElapses, TypeOK, MidTurn, Awaited
<1>3. CASE BeginInstall
  BY <1>3 DEF BeginInstall, TypeOK, Stage
<1>4. CASE AbortDrain
  BY <1>4 DEF AbortDrain, TypeOK, Stage, Cli
<1>5. CASE FinishDrain
  BY <1>5 DEF FinishDrain, TypeOK, Stage, Cli, Living
<1>6. CASE Crash
  BY <1>6, CountsTyped DEF Crash, TypeOK, Stage, Cli
<1>7. CASE Boot
  BY <1>7 DEF Boot, TypeOK, Stage, Nothing
<1> QED BY <1>1, <1>2, <1>3, <1>4, <1>5, <1>6, <1>7

LEMMA TypedCreate ==
  ASSUME TypeOK, NEW s \in Session, NEW who \in Caller,
         BrowserResumes(s, who) \/ Claim(s, who) \/ Spawned(s, who) \/ SpawnFails(s, who)
  PROVE  TypeOK'
<1> USE TopInSession DEF restart, wakes, restore, creates, history, Event
<1>1. CASE BrowserResumes(s, who)
  BY <1>1, CountsTyped DEF BrowserResumes, TypeOK
<1>2. LoopAwaits(s, who) => restoring # NoSession
  BY RestartAssumption DEF LoopAwaits
<1>3. CASE Claim(s, who)
  BY <1>2, <1>3 DEF Claim, LoopDrops, TypeOK
<1>4. CASE Spawned(s, who)
  BY <1>2, <1>4 DEF Spawned, TypeOK, Cli
<1>5. CASE SpawnFails(s, who)
  BY <1>2, <1>5 DEF SpawnFails, LoopDrops, TypeOK
<1> QED BY <1>1, <1>3, <1>4, <1>5

LEMMA TypedLoop ==
  ASSUME TypeOK, LoopSteps
  PROVE  TypeOK'
<1> USE TopInSession DEF restart, wakes, restore, creates, history
<1>1. ASSUME NEW s \in Session, NextEntry(s) PROVE TypeOK'
  BY <1>1 DEF NextEntry, TypeOK, Caller
<1>2. CASE Restored
  <2>1. restoring \in Session
    BY <1>2 DEF Restored, TypeOK
  <2>2. notices' \in [Session -> Nat]
    BY <1>2, <2>1 DEF Restored, TypeOK
  <2>3. cli' \in [Session -> Cli] /\ waits' \subseteq Session \X Session /\ late' \subseteq Top
    BY <1>2, <2>1, StartsTurnTyped DEF Restored, TypeOK
  <2> QED BY <1>2, <2>1, <2>2, <2>3 DEF Restored, TypeOK
<1>3. CASE WaitFails
  BY <1>3 DEF WaitFails, LoopDrops, TypeOK
<1> QED BY <1>1, <1>2, <1>3 DEF LoopSteps

LEMMA TypedNext == TypeOK /\ [Next]_vars => TypeOK'
<1> SUFFICES ASSUME TypeOK, [Next]_vars PROVE TypeOK'
  OBVIOUS
<1>1. CASE Next
  BY <1>1, TypedTurns, TypedDrain, TypedCreate, TypedLoop DEF Next, CreateSteps
<1>2. CASE UNCHANGED vars
  BY <1>2 DEF vars, restart, wakes, restore, creates, history, TypeOK
<1> QED BY <1>1, <1>2

-----------------------------------------------------------------------------
(* The server, the spawn tree, the claims. *)

LEMMA ServerNext ==
  ASSUME TypeOK, ServerOK, [Next]_vars
  PROVE  ServerOK'
<1> USE DEF ServerOK, Up, restart, wakes, restore, creates, history, Quiet, Event
<1>1. ASSUME NEW s \in Session,
             \/ Prompt(s) \/ TurnEnds(s) \/ SendWake(s) \/ JobStarts(s) \/ JobEnds(s)
             \/ Relaunch(s) \/ Relaunched(s) \/ Exit(s) \/ Ready(s)
      PROVE  ServerOK'
  BY <1>1 DEF Prompt, TurnEnds, SendWake, JobStarts, JobEnds, Relaunch, Relaunched, Exit, Ready
<1>2. ASSUME NEW s \in Session, NEW who \in Caller,
             BrowserResumes(s, who) \/ Claim(s, who) \/ Spawned(s, who) \/ SpawnFails(s, who)
      PROVE  ServerOK'
  BY <1>2 DEF BrowserResumes, Claim, Spawned, SpawnFails
<1>3. CASE LoopSteps
  BY <1>3 DEF LoopSteps, NextEntry, Restored, WaitFails
<1>4. CASE BeginDrain \/ GraceElapses \/ BeginInstall \/ AbortDrain
  BY <1>4 DEF BeginDrain, GraceElapses, BeginInstall, AbortDrain, Drained
<1>5. CASE FinishDrain \/ Crash
  BY <1>5 DEF FinishDrain, Crash
<1>6. CASE Boot
  BY <1>6 DEF Boot
<1>7. CASE UNCHANGED vars
  BY <1>7 DEF vars
<1> QED BY <1>1, <1>2, <1>3, <1>4, <1>5, <1>6, <1>7 DEF Next, CreateSteps

\* A turn that starts in a live session arms its spawner, which lives.
LEMMA StartsTurnTree ==
  ASSUME TypeOK, TreeOK, NEW s \in Session, cli[s] # "gone", StartsTurn(s)
  PROVE  /\ \A e \in waits' : e[1] = Spawner[e[2]]
         /\ \A t \in Session \ Top : cli'[t] # "gone" => cli'[Spawner[t]] # "gone"
         /\ \A t \in Session \ Top : cli'[t] = "turn" => <<Spawner[t], t>> \in waits'
         /\ \A t \in Session : Proc(t) => Proc(t)'
<1>1. \A t \in Session \ Top : Spawner[t] \in Session
  BY RestartAssumption DEF Top
<1>2. \A e \in waits' : e \in waits \/ (e[1] = Spawner[e[2]] /\ e[1] \in Session)
  BY DEF StartsTurn
<1>3. s \notin Top => <<Spawner[s], s>> \in waits'
  BY <1>1 DEF StartsTurn, TreeOK
<1>4. waits \subseteq waits'
  BY DEF StartsTurn
<1> QED BY <1>1, <1>2, <1>3, <1>4 DEF StartsTurn, TreeOK, TypeOK, Proc

LEMMA TreeTurns ==
  ASSUME TypeOK, TreeOK, NEW s \in Session,
         \/ Prompt(s) \/ TurnEnds(s) \/ SendWake(s) \/ JobStarts(s) \/ JobEnds(s)
         \/ Relaunch(s) \/ Relaunched(s) \/ Exit(s) \/ Ready(s)
  PROVE  TreeOK'
<1> USE DEF restart, wakes, restore, creates, history, Quiet, Event, Left
<1>0. \A t \in Session \ Top : Spawner[t] \in Session
  BY RestartAssumption DEF Top
<1>1. CASE Prompt(s)
  <2>1. CASE cli[s] = "turn"
    BY <1>1, <2>1 DEF Prompt, TreeOK, Proc
  <2>2. CASE cli[s] # "turn"
    BY <1>1, <2>2, StartsTurnTree DEF Prompt, TreeOK, Proc, TypeOK
  <2> QED BY <2>1, <2>2
<1>2. CASE TurnEnds(s)
  <2> DEFINE holds == s \in waking \/ \E t \in Session : <<s, t>> \in waits /\ cli[t] # "gone"
  <2> DEFINE woken == IF holds THEN {} ELSE {c \in Session : <<c, s>> \in waits}
  <2>1. waits' = waits \ {<<c, s>> : c \in woken} /\ Deliver(woken)
    BY <1>2 DEF TurnEnds
  <2>2. cli' = [cli EXCEPT ![s] = "idle"] /\ cli[s] = "turn" /\ jobs' = jobs
        /\ resolving' = resolving /\ claimed' = claimed
    BY <1>2 DEF TurnEnds
  <2>3. \A e \in waits' : e \in waits
    BY <2>1
  <2>4. \A t \in Session : t # s /\ <<Spawner[t], t>> \in waits => <<Spawner[t], t>> \in waits'
    BY <2>1
  <2>5. waking' \cap Mortal = {}
    <3>1. \A c \in woken : c = Spawner[s]
      BY DEF TreeOK
    <3>2. \A c \in waking' : c \in waking \/ c = Spawner[s]
      BY <2>1, <3>1 DEF Deliver
    <3> QED BY <3>2, RestartAssumption DEF TreeOK
  <2> HIDE DEF woken
  <2> QED BY <1>0, <2>2, <2>3, <2>4, <2>5 DEF TreeOK, TypeOK, Proc
<1>3. CASE SendWake(s)
  <2>1. CASE cli[s] \in {"starting", "idle"}
    BY <1>3, <2>1, StartsTurnTree DEF SendWake, TreeOK, Proc, TypeOK
  <2>2. CASE cli[s] \notin {"starting", "idle"}
    BY <1>3, <2>2 DEF SendWake, TreeOK, Proc
  <2> QED BY <2>1, <2>2
<1>4. CASE JobStarts(s)
  BY <1>4 DEF JobStarts, TreeOK, Proc
<1>5. CASE JobEnds(s)
  <2>1. CASE cli[s] = "turn"
    BY <1>5, <2>1 DEF JobEnds, TreeOK, Proc
  <2>2. CASE cli[s] # "turn"
    BY <1>5, <2>2, StartsTurnTree DEF JobEnds, TreeOK, Proc, TypeOK
  <2> QED BY <2>1, <2>2
<1>6. CASE Relaunch(s)
  BY <1>0, <1>6 DEF Relaunch, TreeOK, Proc, TypeOK
<1>7. CASE Relaunched(s) \/ Ready(s)
  BY <1>0, <1>7 DEF Relaunched, Ready, TreeOK, Proc, TypeOK
<1>8. CASE Exit(s)
  <2>1. waking' \cap Mortal = {}
    <3>1. \A c \in Session : <<c, s>> \in waits => c = Spawner[s]
      BY DEF TreeOK
    <3>2. \A c \in waking' : c \in waking \/ c = Spawner[s]
      BY <1>8, <3>1 DEF Exit, Deliver
    <3> QED BY <3>2, RestartAssumption DEF TreeOK
  <2>2. \A t \in Session : Spawner[t] # s
    BY <1>8, RestartAssumption DEF Exit
  <2> QED BY <1>0, <1>8, <2>1, <2>2 DEF Exit, TreeOK, Proc, TypeOK
<1> QED BY <1>1, <1>2, <1>3, <1>4, <1>5, <1>6, <1>7, <1>8

LEMMA TreeNext ==
  ASSUME TypeOK, ServerOK, TreeOK, [Next]_vars
  PROVE  TreeOK'
<1> USE DEF restart, wakes, restore, creates, history, Quiet, Event
<1>0. \A t \in Session \ Top : Spawner[t] \in Session
  BY RestartAssumption DEF Top
<1>1. ASSUME NEW s \in Session,
             \/ Prompt(s) \/ TurnEnds(s) \/ SendWake(s) \/ JobStarts(s) \/ JobEnds(s)
             \/ Relaunch(s) \/ Relaunched(s) \/ Exit(s) \/ Ready(s)
      PROVE  TreeOK'
  BY <1>1, TreeTurns
<1>2. ASSUME NEW s \in Session, NEW who \in Caller,
             BrowserResumes(s, who) \/ Claim(s, who) \/ SpawnFails(s, who)
      PROVE  TreeOK'
  BY <1>2 DEF BrowserResumes, Claim, SpawnFails, TreeOK, Proc
<1>3. ASSUME NEW s \in Session, NEW who \in Caller, Spawned(s, who) PROVE TreeOK'
  <2>1. s \in Top
    BY <1>3 DEF Spawned, TreeOK
  <2> QED BY <1>0, <1>3, <2>1 DEF Spawned, TreeOK, TypeOK, Proc
<1>4. ASSUME NEW s \in Session, NextEntry(s) PROVE TreeOK'
  <2>1. s \in Top
    BY <1>4 DEF NextEntry, TypeOK
  <2> QED BY <1>4, <2>1 DEF NextEntry, TreeOK, Proc, Caller
<1>5. CASE Restored
  <2>1. restoring \in Session /\ cli[restoring] = "idle"
    BY <1>5, TopInSession DEF Restored, TypeOK
  <2>2. CASE StartsTurn(restoring)
    BY <1>5, <2>1, <2>2, StartsTurnTree DEF Restored, TreeOK, Proc, TypeOK
  <2>3. CASE UNCHANGED <<cli, waits>>
    BY <1>5, <2>3 DEF Restored, TreeOK, Proc
  <2> QED BY <1>5, <2>2, <2>3 DEF Restored
<1>6. CASE WaitFails
  BY <1>6 DEF WaitFails, TreeOK, Proc
<1>7. CASE BeginDrain \/ GraceElapses \/ BeginInstall
  BY <1>7 DEF BeginDrain, GraceElapses, BeginInstall, TreeOK, Proc
<1>8. CASE AbortDrain
  BY <1>0, <1>8 DEF AbortDrain, Told, TreeOK, TypeOK, Proc
<1>9. CASE FinishDrain \/ Crash
  BY <1>0, <1>9 DEF FinishDrain, Crash, TreeOK, Proc
<1>10. CASE Boot
  BY <1>10 DEF Boot, TreeOK, Proc
<1>11. CASE UNCHANGED vars
  BY <1>11 DEF vars, TreeOK, Proc
<1> QED BY <1>1, <1>2, <1>3, <1>4, <1>5, <1>6, <1>7, <1>8, <1>9, <1>10, <1>11
     DEF Next, CreateSteps, LoopSteps

LEMMA ClaimsNext ==
  ASSUME TypeOK, ClaimsOK, [Next]_vars
  PROVE  ClaimsOK'
<1> USE DEF restart, wakes, restore, creates, history, Quiet, Event
<1>1. ASSUME NEW s \in Session,
             \/ Prompt(s) \/ TurnEnds(s) \/ SendWake(s) \/ JobStarts(s) \/ JobEnds(s)
             \/ Relaunch(s) \/ Relaunched(s) \/ Exit(s) \/ Ready(s)
      PROVE  ClaimsOK'
  <2>1. claimed' = claimed /\ \A t \in Session : cli[t] = "gone" => cli'[t] = "gone"
    BY <1>1 DEF Prompt, TurnEnds, SendWake, JobStarts, JobEnds, Relaunch, Relaunched, Exit, Ready,
       StartsTurn, Proc, TypeOK
  <2> QED BY <2>1 DEF ClaimsOK
<1>2. ASSUME NEW s \in Session, NEW who \in Caller,
             BrowserResumes(s, who) \/ Claim(s, who) \/ Spawned(s, who) \/ SpawnFails(s, who)
      PROVE  ClaimsOK'
  <2>1. CASE BrowserResumes(s, who) \/ SpawnFails(s, who)
    BY <2>1 DEF BrowserResumes, SpawnFails, ClaimsOK
  <2>2. CASE Claim(s, who)
    BY <2>2 DEF Claim, ComingUp, ClaimsOK
  <2>3. CASE Spawned(s, who)
    BY <2>3 DEF Spawned, ClaimsOK, TypeOK
  <2> QED BY <1>2, <2>1, <2>2, <2>3
<1>3. CASE LoopSteps
  <2>1. claimed' = claimed
    BY <1>3 DEF LoopSteps, NextEntry, Restored, WaitFails
  <2>2. \A t \in Session : cli[t] = "gone" => cli'[t] = "gone"
    BY <1>3 DEF LoopSteps, NextEntry, Restored, WaitFails, StartsTurn, TypeOK
  <2> QED BY <2>1, <2>2 DEF ClaimsOK
<1>4. CASE BeginDrain \/ GraceElapses \/ BeginInstall \/ AbortDrain \/ Boot
  BY <1>4 DEF BeginDrain, GraceElapses, BeginInstall, AbortDrain, Boot, Told, Proc, ClaimsOK
<1>5. CASE FinishDrain \/ Crash
  BY <1>5 DEF FinishDrain, Crash, ClaimsOK
<1>6. CASE UNCHANGED vars
  BY <1>6 DEF vars, ClaimsOK
<1> QED BY <1>1, <1>2, <1>3, <1>4, <1>5, <1>6 DEF Next, CreateSteps

-----------------------------------------------------------------------------
(* The drain's list. *)

\* A turn that starts during a drain, under a session not on the list, makes that session late.
LEMMA StartsTurnList ==
  ASSUME TypeOK, TreeOK, ListOK, suspended, NEW s \in Session, StartsTurn(s), waking' \subseteq waking
  PROVE  /\ late \subseteq late'
         /\ \A x \in Top \ late' : cli'[x] = "turn" \/ IdleCaller(x)' => x \in busyAtDrain
<1>1. late' = late \cup ({Root(s)} \ busyAtDrain)
  BY DEF StartsTurn, Begins
<1>2. ASSUME NEW x \in Top, x \notin late', cli'[x] = "turn" PROVE x \in busyAtDrain
  <2>1. CASE x = s
    BY <1>1, <1>2, <2>1, RootSelf
  <2>2. CASE x # s
    BY <1>1, <1>2, <2>2, TopInSession DEF StartsTurn, TypeOK, ListOK
  <2> QED BY <2>1, <2>2
<1>3. ASSUME NEW x \in Top, x \notin late', IdleCaller(x)' PROVE x \in busyAtDrain
  <2>1. CASE IdleCaller(x)
    BY <1>1, <1>3, <2>1 DEF ListOK
  <2>2. CASE ~IdleCaller(x)
    <3>1. x = Spawner[s]
      BY <1>3, <2>2 DEF IdleCaller, StartsTurn
    <3>2. Root(s) = x
      BY <3>1, RootOwner
    <3> QED BY <1>1, <1>3, <3>2
  <2> QED BY <2>1, <2>2
<1> QED BY <1>1, <1>2, <1>3

LEMMA DeliverList ==
  ASSUME TypeOK, ListOK, suspended, NEW s \in Session, NEW C, Deliver(C),
         \A c \in C : c \in Session /\ <<c, s>> \in waits
  PROVE  waking' = waking /\ cut' \subseteq busyAtDrain
<1>1. \A c \in C : IdleCaller(c)
  BY DEF IdleCaller
<1> QED BY <1>1 DEF Deliver, ListOK

LEMMA ListTurns ==
  ASSUME TypeOK, TreeOK, ListOK, suspended, NEW s \in Session,
         \/ Prompt(s) \/ TurnEnds(s) \/ SendWake(s) \/ JobStarts(s) \/ JobEnds(s)
         \/ Relaunch(s) \/ Relaunched(s) \/ Exit(s) \/ Ready(s)
  PROVE  ListOK'
<1> USE TopInSession DEF restart, wakes, restore, creates, history, Quiet, Event, Left
<1>1. CASE Prompt(s)
  <2>1. CASE cli[s] = "turn"
    BY <1>1, <2>1 DEF Prompt, ListOK, IdleCaller, suspended
  <2>2. CASE cli[s] # "turn"
    BY <1>1, <2>2, StartsTurnList DEF Prompt, ListOK, suspended
  <2> QED BY <2>1, <2>2
<1>2. CASE TurnEnds(s)
  <2> DEFINE holds == s \in waking \/ \E t \in Session : <<s, t>> \in waits /\ cli[t] # "gone"
  <2> DEFINE woken == IF holds THEN {} ELSE {c \in Session : <<c, s>> \in waits}
  <2>1. waits' = waits \ {<<c, s>> : c \in woken} /\ Deliver(woken)
    BY <1>2 DEF TurnEnds
  <2>2. \A c \in woken : c \in Session /\ <<c, s>> \in waits
    OBVIOUS
  <2>3. waits' \subseteq waits
    BY <2>1
  <2> HIDE DEF woken
  <2>4. waking' = waking /\ cut' \subseteq busyAtDrain
    BY <2>1, <2>2, DeliverList
  <2> QED BY <1>2, <2>3, <2>4 DEF TurnEnds, ListOK, IdleCaller, suspended, TypeOK
<1>3. CASE SendWake(s)
  <2>1. CASE cli[s] \in {"starting", "idle"}
    BY <1>3, <2>1, StartsTurnList DEF SendWake, ListOK, suspended
  <2>2. CASE cli[s] \notin {"starting", "idle"}
    BY <1>3, <2>2 DEF SendWake, ListOK, IdleCaller, suspended
  <2> QED BY <2>1, <2>2
<1>4. CASE JobStarts(s)
  BY <1>4 DEF JobStarts, Begins, ListOK, IdleCaller, suspended
<1>5. CASE JobEnds(s)
  <2>1. CASE cli[s] = "turn"
    BY <1>5, <2>1 DEF JobEnds, ListOK, IdleCaller, suspended
  <2>2. CASE cli[s] # "turn"
    BY <1>5, <2>2, StartsTurnList DEF JobEnds, ListOK, suspended
  <2> QED BY <2>1, <2>2
<1>6. CASE Relaunch(s) \/ Relaunched(s) \/ Ready(s)
  BY <1>6 DEF Relaunch, Relaunched, Ready, ListOK, IdleCaller, suspended, TypeOK
<1>7. CASE Exit(s)
  <2>1. s \in Mortal /\ stage' = stage /\ late' = late /\ cli' = [cli EXCEPT ![s] = "gone"]
        /\ busyAtDrain' = busyAtDrain \ {s} /\ live' = live \ {s}
        /\ waits' = {e \in waits : e[2] # s}
    BY <1>7 DEF Exit
  <2>2. waking' = waking /\ cut' \subseteq busyAtDrain \ {s}
    <3>1. CASE Spawner[s] # NoSession
      <4>1. Deliver({c \in Session : <<c, s>> \in waits})
        BY <1>7, <3>1 DEF Exit
      <4>2. waking' = waking /\ cut' \subseteq busyAtDrain /\ cut' \subseteq Top
        BY <4>1, DeliverList, DeliverTyped
      <4> QED BY <3>1, <4>2 DEF Top
    <3>2. CASE Spawner[s] = NoSession
      BY <1>7, <3>2 DEF Exit, ListOK
    <3> QED BY <3>1, <3>2
  <2>3. ~IdleCaller(s)
    <3>1. ASSUME NEW t \in Session, <<s, t>> \in waits PROVE FALSE
      BY <2>1, <3>1, RestartAssumption DEF TreeOK
    <3> QED BY <2>1, <3>1 DEF IdleCaller, TreeOK
  <2>4. \A x \in Session : IdleCaller(x)' => IdleCaller(x)
    BY <2>1, <2>2 DEF IdleCaller
  <2> QED BY <2>1, <2>2, <2>3, <2>4 DEF ListOK, suspended, TypeOK
<1> QED BY <1>1, <1>2, <1>3, <1>4, <1>5, <1>6, <1>7

\* Whatever a drain ends with, or begins with, under a top-level session is work of that session.
LEMMA StoppedWaits ==
  ASSUME TypeOK, TreeOK, NEW s \in Stopped
  PROVE  s \in Top /\ (cli[s] = "turn" \/ IdleCaller(s))
<1>1. CASE s \in Owners(MidTurn)
  <2>1. CASE s \in MidTurn
    BY <1>1, <2>1 DEF Owners, MidTurn
  <2>2. CASE s \notin MidTurn
    <3>1. PICK t \in MidTurn : s = Spawner[t] /\ s \in Top
      BY <1>1, <2>2 DEF Owners
    <3>2. t \in Session \ Top /\ cli[t] = "turn"
      BY <3>1, RestartAssumption DEF MidTurn, Top
    <3> QED BY <3>1, <3>2 DEF TreeOK, IdleCaller
  <2> QED BY <2>1, <2>2
<1>2. CASE s \in Top /\ s \in waking
  BY <1>2 DEF IdleCaller
<1>3. ASSUME s \in Top, NEW e \in waits, s = e[1] PROVE IdleCaller(s)
  <2>1. e[2] \in Session /\ e = <<s, e[2]>>
    BY <1>3 DEF TypeOK
  <2> QED BY <2>1 DEF IdleCaller
<1> QED BY <1>1, <1>2, <1>3 DEF Stopped

LEMMA ListNext ==
  ASSUME TypeOK, TreeOK, ListOK, [Next]_vars
  PROVE  ListOK'
<1> USE TopInSession DEF restart, wakes, restore, creates, history, Quiet, Event
<1>1. CASE BeginDrain
  <2>1. /\ stage' = "draining" /\ live' = Living /\ busyAtDrain' = BusyNow
        /\ late' = Top \ Living /\ cut' = Stopped \ late'
        /\ UNCHANGED <<cli, waits, waking>>
    BY <1>1 DEF BeginDrain
  <2>2. \A s \in Top \ late' : cli[s] = "turn" \/ IdleCaller(s) => s \in BusyNow
    BY <2>1 DEF BusyNow
  <2>3. cut' \subseteq BusyNow
    BY <2>1, <2>2, StoppedWaits
  <2> QED BY <2>1, <2>2, <2>3 DEF ListOK, IdleCaller
<1>2. CASE ~suspended /\ ~BeginDrain
  <2>1. ~suspended'
    <3>1. ASSUME NEW s \in Session,
                 \/ Prompt(s) \/ TurnEnds(s) \/ SendWake(s) \/ JobStarts(s) \/ JobEnds(s)
                 \/ Relaunch(s) \/ Relaunched(s) \/ Exit(s) \/ Ready(s)
          PROVE  stage' = stage
      BY <3>1 DEF Prompt, TurnEnds, SendWake, JobStarts, JobEnds, Relaunch, Relaunched, Exit, Ready
    <3>2. ASSUME NEW s \in Session, NEW who \in Caller,
                 BrowserResumes(s, who) \/ Claim(s, who) \/ Spawned(s, who) \/ SpawnFails(s, who)
          PROVE  stage' = stage
      BY <3>2 DEF BrowserResumes, Claim, Spawned, SpawnFails
    <3>3. CASE LoopSteps
      BY <1>2, <3>3 DEF LoopSteps, NextEntry, Restored, WaitFails, suspended
    <3>4. CASE GraceElapses \/ BeginInstall \/ AbortDrain \/ FinishDrain \/ Crash \/ Boot
      BY <1>2, <3>4 DEF suspended, GraceElapses, BeginInstall, Drained, AbortDrain, FinishDrain,
         Crash, Boot
    <3>5. CASE UNCHANGED vars
      BY <1>2, <3>5 DEF vars, suspended
    <3> QED BY <1>2, <3>1, <3>2, <3>3, <3>4, <3>5 DEF Next, CreateSteps, suspended
  <2> QED BY <2>1 DEF ListOK
<1>3. CASE suspended
  <2>1. ASSUME NEW s \in Session,
               \/ Prompt(s) \/ TurnEnds(s) \/ SendWake(s) \/ JobStarts(s) \/ JobEnds(s)
               \/ Relaunch(s) \/ Relaunched(s) \/ Exit(s) \/ Ready(s)
        PROVE  ListOK'
    BY <1>3, <2>1, ListTurns
  <2>2. ASSUME NEW s \in Session, NEW who \in Caller,
               BrowserResumes(s, who) \/ Claim(s, who) \/ Spawned(s, who) \/ SpawnFails(s, who)
        PROVE  ListOK'
    BY <2>2 DEF BrowserResumes, Claim, Spawned, SpawnFails, ListOK, IdleCaller, suspended, TypeOK
  <2>3. ASSUME NEW s \in Session, NextEntry(s) PROVE ListOK'
    BY <2>3 DEF NextEntry, ListOK, IdleCaller, suspended
  <2>4. CASE Restored
    <3>1. restoring \in Session
      BY <2>4 DEF Restored, TypeOK
    <3>2. CASE StartsTurn(restoring)
      BY <1>3, <2>4, <3>1, <3>2, StartsTurnList DEF Restored, ListOK, suspended
    <3>3. CASE UNCHANGED <<cli, waits, late>>
      BY <2>4, <3>3 DEF Restored, ListOK, IdleCaller, suspended
    <3> QED BY <2>4, <3>2, <3>3 DEF Restored
  <2>5. CASE WaitFails \/ GraceElapses \/ BeginInstall
    BY <1>3, <2>5 DEF WaitFails, GraceElapses, BeginInstall, ListOK, IdleCaller, suspended
  <2>6. CASE AbortDrain \/ FinishDrain \/ Crash
    BY <2>6 DEF AbortDrain, FinishDrain, Crash, ListOK, suspended
  <2>7. CASE BeginDrain \/ Boot
    BY <1>3, <2>7 DEF BeginDrain, Boot, suspended
  <2>8. CASE UNCHANGED vars
    BY <2>8 DEF vars, ListOK, IdleCaller, suspended
  <2> QED BY <2>1, <2>2, <2>3, <2>4, <2>5, <2>6, <2>7, <2>8 DEF Next, CreateSteps, LoopSteps
<1> QED BY <1>1, <1>2, <1>3

-----------------------------------------------------------------------------
(* On its way, told once. *)

\* What the exit owes a session is in the manifest it writes.
LEMMA FinishOwes ==
  ASSUME TypeOK, TreeOK, ListOK, suspended, NEW s \in Top, Proc(s),
         s \in cut \cup ((Stopped \cup {Root(t) : t \in jobs}) \ late)
  PROVE  s \in busyAtDrain \/ LosesJobs(s)
<1>1. CASE s \in cut
  BY <1>1 DEF ListOK
<1>2. CASE s \in Stopped \ late
  BY <1>2, StoppedWaits DEF ListOK
<1>3. ASSUME s \notin late, NEW t \in jobs, s = Root(t) PROVE LosesJobs(s)
  <2>1. CASE s = t
    BY <1>3, <2>1 DEF LosesJobs
  <2>2. CASE s # t
    <3>1. t \in Session /\ Proc(t) /\ s \notin Mortal
      BY <1>3, <2>2, RootLives DEF TypeOK, TreeOK
    <3>2. s \in live
      BY <1>3, <3>1 DEF ListOK
    <3> QED BY <1>3, <3>1, <3>2 DEF LosesJobs
  <2> QED BY <2>1, <2>2
<1> QED BY <1>1, <1>2, <1>3

LEMMA WayNext ==
  ASSUME TypeOK, ServerOK, TreeOK, ListOK, WayOK, [Next]_vars
  PROVE  WayOK'
<1> USE TopInSession DEF restart, wakes, restore, creates, history, Quiet, Event
<1>1. ASSUME NEW s \in Session,
             \/ Prompt(s) \/ TurnEnds(s) \/ SendWake(s) \/ JobStarts(s) \/ JobEnds(s)
             \/ Relaunch(s) \/ Relaunched(s) \/ Exit(s) \/ Ready(s)
      PROVE  WayOK'
  <2>1. UNCHANGED <<manifest, todo, wasBusy, restoring, due>>
    BY <1>1 DEF Prompt, TurnEnds, SendWake, JobStarts, JobEnds, Relaunch, Relaunched, Exit, Ready
  <2> QED BY <2>1 DEF WayOK, OnItsWay
<1>2. ASSUME NEW s \in Session, NEW who \in Caller,
             BrowserResumes(s, who) \/ Claim(s, who) \/ Spawned(s, who) \/ SpawnFails(s, who)
      PROVE  WayOK'
  <2>1. UNCHANGED <<manifest, todo, wasBusy>>
        /\ \/ UNCHANGED <<restoring, due>>
           \/ LoopAwaits(s, who) /\ LoopDrops /\ Up
    BY <1>2 DEF BrowserResumes, Claim, Spawned, SpawnFails
  <2>2. CASE UNCHANGED <<restoring, due>>
    BY <2>1, <2>2 DEF WayOK, OnItsWay
  <2>3. CASE LoopAwaits(s, who) /\ LoopDrops /\ Up
    BY <2>1, <2>3 DEF LoopDrops, WayOK, OnItsWay, TypeOK
  <2> QED BY <2>1, <2>2, <2>3
<1>3. CASE LoopSteps
  <2>1. ASSUME NEW s \in Session, NextEntry(s) PROVE WayOK'
    BY <2>1 DEF NextEntry, WayOK, OnItsWay, ServerOK, Nothing
  <2>2. CASE Restored
    BY <2>2 DEF Restored, WayOK, OnItsWay, TypeOK
  <2>3. CASE WaitFails
    BY <2>3 DEF WaitFails, LoopDrops, WayOK, OnItsWay, TypeOK
  <2> QED BY <1>3, <2>1, <2>2, <2>3 DEF LoopSteps
<1>4. CASE BeginDrain \/ GraceElapses \/ BeginInstall \/ AbortDrain
  BY <1>4 DEF BeginDrain, GraceElapses, BeginInstall, AbortDrain, WayOK, OnItsWay
<1>5. CASE FinishDrain
  <2>1. suspended
    BY <1>5 DEF FinishDrain, Drained, suspended
  <2> DEFINE busy == {s \in Living : s \in busyAtDrain \/ LosesJobs(s)}
  <2> DEFINE owed == cut \cup ((Stopped \cup {Root(s) : s \in jobs}) \ late)
  <2>2. PICK written \in BOOLEAN :
          /\ manifest' = IF written /\ Living # {} THEN [entries |-> Living, busy |-> busy]
                         ELSE manifest
          /\ due' = [s \in Session |->
                       IF s \notin Top \/ ~Proc(s) \/ ~written THEN "nothing"
                       ELSE IF s \in owed THEN "notice" ELSE "return"]
    BY <1>5 DEF FinishDrain
  <2>3. ASSUME NEW s \in Session, due'[s] # "nothing"
        PROVE  /\ s \in Top /\ s \in manifest'.entries
               /\ due'[s] = "notice" => s \in manifest'.busy
    <3>1. s \in Top /\ Proc(s) /\ written /\ (due'[s] = "notice" => s \in owed)
      BY <2>2, <2>3
    <3>2. s \in Living
      BY <3>1 DEF Living
    <3>3. manifest' = [entries |-> Living, busy |-> busy]
      BY <2>2, <3>1, <3>2
    <3>4. s \in owed => s \in busyAtDrain \/ LosesJobs(s)
      BY <2>1, <3>1, FinishOwes
    <3>5. s \in owed => s \in busy
      BY <3>2, <3>4
    <3> HIDE DEF busy, owed
    <3> QED BY <3>1, <3>2, <3>3, <3>5
  <2> HIDE DEF busy, owed
  <2> QED BY <2>3 DEF WayOK, OnItsWay
<1>6. CASE Crash
  BY <1>6 DEF Crash, WayOK, OnItsWay
<1>7. CASE Boot
  BY <1>7 DEF Boot, WayOK, OnItsWay, ServerOK, Up
<1>8. CASE UNCHANGED vars
  BY <1>8 DEF vars, WayOK, OnItsWay
<1> QED BY <1>1, <1>2, <1>3, <1>4, <1>5, <1>6, <1>7, <1>8 DEF Next, CreateSteps

LEMMA NoticesNext ==
  ASSUME TypeOK, ServerOK, NoticesOK, [Next]_vars
  PROVE  NoticesOK'
<1> USE TopInSession DEF restart, wakes, restore, creates, history, Quiet, Event
<1>1. ASSUME NEW s \in Session,
             \/ Prompt(s) \/ TurnEnds(s) \/ SendWake(s) \/ JobStarts(s) \/ JobEnds(s)
             \/ Relaunch(s) \/ Relaunched(s) \/ Exit(s) \/ Ready(s)
      PROVE  NoticesOK'
  <2>1. UNCHANGED <<manifest, todo, restoring, notices>>
    BY <1>1 DEF Prompt, TurnEnds, SendWake, JobStarts, JobEnds, Relaunch, Relaunched, Exit, Ready
  <2> QED BY <2>1 DEF NoticesOK
<1>2. ASSUME NEW s \in Session, NEW who \in Caller,
             BrowserResumes(s, who) \/ Claim(s, who) \/ Spawned(s, who) \/ SpawnFails(s, who)
      PROVE  NoticesOK'
  BY <1>2 DEF BrowserResumes, Claim, Spawned, SpawnFails, LoopDrops, NoticesOK, TypeOK
<1>3. CASE LoopSteps
  <2>1. ASSUME NEW s \in Session, NextEntry(s) PROVE NoticesOK'
    BY <2>1 DEF NextEntry, NoticesOK, TypeOK
  <2>2. CASE Restored
    <3>1. restoring \in Session /\ restoring' = NoSession /\ UNCHANGED <<manifest, todo>>
      BY <2>2 DEF Restored, TypeOK
    <3>2. manifest.entries = {}
      BY <2>2 DEF Restored, ServerOK, Nothing
    <3>3. \/ notices' = notices
          \/ notices' = [notices EXCEPT ![restoring] = @ + 1]
      BY <2>2 DEF Restored
    <3>4. notices[restoring] = 0
      BY <3>1 DEF NoticesOK
    <3> QED BY <3>1, <3>2, <3>3, <3>4 DEF NoticesOK, TypeOK
  <2>3. CASE WaitFails
    BY <2>3 DEF WaitFails, LoopDrops, NoticesOK, TypeOK
  <2> QED BY <1>3, <2>1, <2>2, <2>3 DEF LoopSteps
<1>4. CASE BeginDrain \/ GraceElapses \/ BeginInstall \/ AbortDrain
  BY <1>4 DEF BeginDrain, GraceElapses, BeginInstall, AbortDrain, NoticesOK
<1>5. CASE FinishDrain
  BY <1>5 DEF FinishDrain, NoticesOK, TypeOK
<1>6. CASE Crash
  BY <1>6 DEF Crash, NoticesOK, TypeOK
<1>7. CASE Boot
  BY <1>7 DEF Boot, NoticesOK, ServerOK, Up, Nothing, TypeOK
<1>8. CASE UNCHANGED vars
  BY <1>8 DEF vars, NoticesOK
<1> QED BY <1>1, <1>2, <1>3, <1>4, <1>5, <1>6, <1>7, <1>8 DEF Next, CreateSteps

-----------------------------------------------------------------------------
(* The inductive invariant. *)

LEMMA IInvInit == Init => IInv
<1> SUFFICES ASSUME Init PROVE IInv
  OBVIOUS
<1>1. ServerOK /\ TreeOK /\ ClaimsOK
  BY RestartAssumption DEF Init, ServerOK, Up, TreeOK, ClaimsOK, Top
<1>2. ListOK /\ WayOK /\ NoticesOK
  BY RestartAssumption DEF Init, ListOK, suspended, WayOK, OnItsWay, NoticesOK
<1> QED BY <1>1, <1>2, TypedInit DEF IInv

LEMMA IInvNext == IInv /\ [Next]_vars => IInv'
BY TypedNext, ServerNext, TreeNext, ClaimsNext, ListNext, WayNext, NoticesNext DEF IInv

\* The invariant holds of every reachable state.
THEOREM Inductive == Spec => []IInv
BY IInvInit, IInvNext, PTL DEF Spec

-----------------------------------------------------------------------------
(* What it gives. *)

\* TypeOK: the restore's loop, the claims and the lists stay what they are.
THEOREM TypeCorrect == Spec => []TypeOK
<1>1. IInv => TypeOK
  BY DEF IInv
<1> QED BY <1>1, Inductive, PTL

\* OneCli: no session has two CLIs, nor one and another on its way, whoever resumes it
\* (InstanceManager.create, _resumingPublicIds).
THEOREM OneCliEver == Spec => []OneCli
<1>1. IInv => OneCli
  <2> SUFFICES ASSUME IInv, NEW s \in Session
               PROVE  Cardinality({who \in Caller : <<s, who>> \in claimed})
                        + (IF cli[s] = "gone" THEN 0 ELSE 1) <= 1
    BY DEF OneCli
  <2> DEFINE callers == {who \in Caller : <<s, who>> \in claimed}
  <2>1. CASE callers = {}
    <3>1. Cardinality(callers) = 0
      BY <2>1, FS_EmptySet
    <3> QED BY <3>1
  <2>2. CASE callers # {}
    <3>1. PICK who \in callers : TRUE
      BY <2>2
    <3>2. callers = {who} /\ cli[s] = "gone"
      BY <3>1 DEF IInv, ClaimsOK
    <3>3. Cardinality(callers) = 1
      BY <3>2, FS_Singleton
    <3> QED BY <3>2, <3>3
  <2> QED BY <2>1, <2>2
<1> QED BY <1>1, Inductive, PTL

\* CutIsListed: whatever the drain ends is on the list it tells (drainToIdle, runRestart).
THEOREM DrainListsItsCuts == Spec => []CutIsListed
<1>1. IInv => CutIsListed
  BY DEF IInv, ListOK, CutIsListed
<1> QED BY <1>1, Inductive, PTL

\* OnItsWay: from the manifest to the notice no session that lost work is dropped by a crash, a
\* browser or another session's failure (finishDrain, restoreFromResumeManifest).
THEOREM AlwaysOnItsWay == Spec => []OnItsWay
<1>1. IInv => OnItsWay
  BY DEF IInv, WayOK
<1> QED BY <1>1, Inductive, PTL

\* NoticeOnce: the manifest is gone before anyone is told, so nobody is told twice.
THEOREM ToldOnce == Spec => []NoticeOnce
<1>1. IInv => NoticeOnce
  BY DEF IInv, NoticesOK, NoticeOnce
<1> QED BY <1>1, Inductive, PTL

\* AbortTellsAll: a refused restart leaves no session that lost work without a word (abortDrain).
THEOREM AbortLeavesNone == Spec => AbortTellsAll
<1> DEFINE Tells == stage = "installing" /\ stage' = "serving" => cut' = {}
<1>1. ASSUME IInv, [Next]_vars PROVE Tells
  <2> SUFFICES ASSUME stage = "installing", stage' = "serving" PROVE cut' = {}
    OBVIOUS
  <2> USE DEF restart, wakes, restore, creates, history, Quiet, Event
  <2>1. AbortDrain
    <3>1. ASSUME NEW s \in Session,
                 \/ Prompt(s) \/ TurnEnds(s) \/ SendWake(s) \/ JobStarts(s) \/ JobEnds(s)
                 \/ Relaunch(s) \/ Relaunched(s) \/ Exit(s) \/ Ready(s)
          PROVE  stage' = stage
      BY <3>1 DEF Prompt, TurnEnds, SendWake, JobStarts, JobEnds, Relaunch, Relaunched, Exit, Ready
    <3>2. ASSUME NEW s \in Session, NEW who \in Caller,
                 BrowserResumes(s, who) \/ Claim(s, who) \/ Spawned(s, who) \/ SpawnFails(s, who)
          PROVE  stage' = stage
      BY <3>2 DEF BrowserResumes, Claim, Spawned, SpawnFails
    <3>3. ~LoopSteps
      BY DEF LoopSteps, NextEntry, Restored, WaitFails
    <3>4. ~(BeginDrain \/ GraceElapses \/ BeginInstall \/ FinishDrain \/ Crash \/ Boot)
      BY DEF BeginDrain, GraceElapses, BeginInstall, Drained, FinishDrain, Crash, Boot
    <3>5. ~(UNCHANGED vars)
      BY DEF vars
    <3> QED BY <1>1, <3>1, <3>2, <3>3, <3>4, <3>5 DEF Next, CreateSteps
  <2>2. cut \subseteq busyAtDrain /\ cut \subseteq Top
    BY <1>1 DEF IInv, ListOK, suspended, TypeOK
  <2> QED BY <2>1, <2>2 DEF AbortDrain, Told
<1>2. Spec => [][Tells]_vars
  BY <1>1, Inductive, PTL DEF Spec
<1> QED BY <1>2 DEF AbortTellsAll
=============================================================================
