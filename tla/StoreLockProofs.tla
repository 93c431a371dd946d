-------------------------- MODULE StoreLockProofs --------------------------
(***************************************************************************)
(* Theorems about StoreLock, for any number of waiters and processes, any  *)
(* retry limit, either create mode, and crashes anywhere.                  *)
(***************************************************************************)
EXTENDS StoreLock, TLAPS

\* Where a waiter has judged a lock record, minted a marker token, and judged
\* another reclaimer's marker.
Judging == {"probe", "mark", "writeMark", "readMark", "probeMark", "compareMark",
            "clearMark", "compareLock", "reclaim", "readMine", "unlinkMine"}
Marking == Judging \ {"probe", "mark"}
JudgingMark == {"probeMark", "compareMark", "clearMark"}

\* The locals a step reads are set where it reads them, and a waiter's tokens are
\* its own.
LocalsOK ==
  \A w \in Waiter :
    /\ pc[w] # "idle" => token[w] \in Token /\ Owner(token[w]) = w
    /\ pc[w] \in Judging => judged[w] \in Token
    /\ pc[w] \in Marking => mark[w] \in Token /\ Owner(mark[w]) = w
    /\ pc[w] \in JudgingMark => judgedMark[w] \in Token

\* What a judged record says stays true: its owner is dead.
JudgedDead ==
  \A w \in Waiter :
    /\ pc[w] \in Judging \ {"probe"} => Dead(judged[w])
    /\ pc[w] \in {"compareMark", "clearMark"} => Dead(judgedMark[w])

\* A live waiter's view of the two files, while no marker removal raced: its own
\* record where it created one, the judged record where it is about to unlink.
WaiterFilesOK(w) ==
  /\ InSection(w) => lock = Record(token[w], TRUE)
  /\ At(w, "write") => lock = Record(token[w], FALSE)
  /\ alive[pidOf[w]] /\ pc[w] \in MarkHeld => marker = Record(mark[w], TRUE)
  /\ At(w, "writeMark") => marker = Record(mark[w], FALSE)
  /\ At(w, "reclaim") => lock = Record(judged[w], TRUE)

FilesOK == ~raced => \A w \in Waiter : WaiterFilesOK(w)

Typed == TypeOK /\ LocalsOK
IInv == Typed /\ JudgedDead /\ FilesOK

-----------------------------------------------------------------------------
(* Every step keeps the types and the locals. *)

LEMMA TokenFields ==
  ASSUME NEW w \in Waiter, NEW n \in Nat
  PROVE  <<w, n>> \in Token /\ Owner(<<w, n>>) = w
BY DEF Token, Owner

LEMMA RecordFields ==
  ASSUME NEW t \in Token, NEW b \in BOOLEAN
  PROVE  /\ Record(t, b) \in File
         /\ Record(t, b).token = t
         /\ Record(t, b).whole = b
         /\ Record(t, b) # NoFile
<1>1. Record(t, b) \in File
  BY DEF Record, File
<1>2. Record(t, b).token = t /\ Record(t, b).whole = b
  BY DEF Record
<1> QED BY <1>1, <1>2, StoreLockAssumption

LEMMA TypedInit == Init => Typed
<1> SUFFICES ASSUME Init PROVE Typed
  OBVIOUS
<1>1. TypeOK
  <2>1. 0 \in 0..RetryMax
    BY StoreLockAssumption
  <2>2. alive \in [Process -> BOOLEAN] /\ raced \in BOOLEAN /\ createMode \in CreateModes
    BY DEF Init
  <2>3. pc \in [Waiter -> PC] /\ serial \in [Waiter -> Nat] /\ attempt \in [Waiter -> 0..RetryMax]
    BY <2>1 DEF Init, PC
  <2>4. /\ token \in [Waiter -> Token \cup {NoToken}]
        /\ judged \in [Waiter -> Token \cup {NoToken}]
        /\ mark \in [Waiter -> Token \cup {NoToken}]
        /\ judgedMark \in [Waiter -> Token \cup {NoToken}]
    BY DEF Init
  <2>5. lock \in File \cup {NoFile} /\ marker \in File \cup {NoFile}
    BY DEF Init
  <2> QED BY <2>2, <2>3, <2>4, <2>5 DEF TypeOK
<1>2. LocalsOK
  BY DEF Init, LocalsOK, Judging, Marking, JudgingMark
<1> QED BY <1>1, <1>2 DEF Typed

\* The two ways an attempt ends keep the types and reach "idle" or "create" only.
LEMMA TryAgainTyped ==
  ASSUME TypeOK, NEW w \in Waiter, TryAgain(w)
  PROVE  /\ attempt' \in [Waiter -> 0..RetryMax]
         /\ pc' \in [Waiter -> PC]
         /\ \E where \in {"idle", "create"} : pc' = [pc EXCEPT ![w] = where]
         /\ pc[w] # "idle" /\ pc[w] # "create" => pc' # pc
<1>1. CASE attempt[w] >= RetryMax
  BY <1>1, StoreLockAssumption DEF TryAgain, Goto, TypeOK, PC
<1>2. CASE ~(attempt[w] >= RetryMax)
  <2>1. attempt[w] + 1 \in 0..RetryMax
    BY <1>2, StoreLockAssumption DEF TypeOK
  <2> QED BY <1>2, <2>1 DEF TryAgain, Goto, TypeOK, PC
<1> QED BY <1>1, <1>2

LEMMA TypedNext == Typed /\ [Next]_vars => Typed'
<1> SUFFICES ASSUME Typed, [Next]_vars PROVE Typed'
  OBVIOUS
<1> USE DEF Typed, At, Goto, locals, files
<1>1. ASSUME NEW w \in Waiter, Acquire(w) PROVE Typed'
  <2>1. <<w, serial[w]>> \in Token /\ Owner(<<w, serial[w]>>) = w /\ serial[w] + 1 \in Nat
    BY TokenFields DEF TypeOK
  <2>2. TypeOK'
    BY <1>1, <2>1, StoreLockAssumption DEF Acquire, TypeOK, PC
  <2>3. LocalsOK'
    BY <1>1, <2>1 DEF Acquire, TypeOK, LocalsOK, Judging, Marking, JudgingMark
  <2> QED BY <2>2, <2>3
<1>2. ASSUME NEW w \in Waiter, CreateLock(w) \/ WriteLock(w) PROVE Typed'
  <2>1. token[w] \in Token
    BY <1>2 DEF CreateLock, WriteLock, LocalsOK
  <2>2. Record(token[w], TRUE) \in File /\ Record(token[w], createMode = "link") \in File
    BY <2>1, RecordFields
  <2>3. TypeOK'
    BY <1>2, <2>2 DEF CreateLock, WriteLock, TypeOK, PC
  <2>4. LocalsOK'
    <3>1. CASE CreateLock(w)
      BY <3>1 DEF CreateLock, TypeOK, LocalsOK, Judging, Marking, JudgingMark
    <3>2. CASE WriteLock(w)
      <4>1. PICK there \in {"section", "idle"} : pc' = [pc EXCEPT ![w] = there]
        BY <3>2 DEF WriteLock
      <4>2. token' = token /\ judged' = judged /\ mark' = mark /\ judgedMark' = judgedMark
        BY <3>2 DEF WriteLock
      <4>3. /\ pc'[w] \notin Judging /\ Owner(token[w]) = w
            /\ \A v \in Waiter \ {w} : pc'[v] = pc[v]
        BY <3>2, <4>1 DEF WriteLock, TypeOK, LocalsOK, Judging
      <4>4. LocalsOK
        OBVIOUS
      <4> HIDE DEF Typed
      <4> QED BY <2>1, <4>2, <4>3, <4>4 DEF LocalsOK, Marking, JudgingMark, Judging
    <3> QED BY <1>2, <3>1, <3>2
  <2> QED BY <2>3, <2>4
<1>3. ASSUME NEW w \in Waiter, ReadLock(w) PROVE Typed'
  <2>1. CASE lock # NoFile /\ lock.whole
    <3>1. lock.token \in Token
      BY <2>1 DEF TypeOK, File
    <3>2. TypeOK'
      BY <1>3, <2>1, <3>1 DEF ReadLock, TypeOK, PC
    <3>3. LocalsOK'
      BY <1>3, <2>1, <3>1 DEF ReadLock, TypeOK, LocalsOK, Judging, Marking, JudgingMark
    <3> QED BY <3>2, <3>3
  <2>2. CASE ~(lock # NoFile /\ lock.whole)
    <3>1. TryAgain(w)
      BY <1>3, <2>2 DEF ReadLock
    <3>2. TypeOK'
      BY <1>3, <2>2, <3>1, TryAgainTyped DEF ReadLock, TypeOK
    <3>3. LocalsOK'
      BY <1>3, <2>2, <3>1, TryAgainTyped
         DEF ReadLock, TypeOK, LocalsOK, Judging, Marking, JudgingMark
    <3> QED BY <3>2, <3>3
  <2> QED BY <2>1, <2>2
<1>4. ASSUME NEW w \in Waiter, ProbeOwner(w) PROVE Typed'
  <2>1. CASE Dead(judged[w])
    BY <1>4, <2>1 DEF ProbeOwner, TypeOK, PC, LocalsOK, Judging, Marking, JudgingMark
  <2>2. CASE ~Dead(judged[w])
    <3>1. TryAgain(w)
      BY <1>4, <2>2 DEF ProbeOwner
    <3>2. TypeOK'
      BY <1>4, <2>2, <3>1, TryAgainTyped DEF ProbeOwner, TypeOK
    <3>3. LocalsOK'
      BY <1>4, <2>2, <3>1, TryAgainTyped
         DEF ProbeOwner, TypeOK, LocalsOK, Judging, Marking, JudgingMark
    <3> QED BY <3>2, <3>3
  <2> QED BY <2>1, <2>2
<1>5. ASSUME NEW w \in Waiter, CreateMark(w) PROVE Typed'
  <2>1. <<w, serial[w]>> \in Token /\ Owner(<<w, serial[w]>>) = w /\ serial[w] + 1 \in Nat
    BY TokenFields DEF TypeOK
  <2>2. Record(<<w, serial[w]>>, createMode = "link") \in File
    BY <2>1, RecordFields
  <2>3. TypeOK'
    BY <1>5, <2>1, <2>2 DEF CreateMark, TypeOK, PC
  <2>4. LocalsOK'
    BY <1>5, <2>1 DEF CreateMark, TypeOK, LocalsOK, Judging, Marking, JudgingMark
  <2> QED BY <2>3, <2>4
<1>6. ASSUME NEW w \in Waiter, WriteMark(w) PROVE Typed'
  <2>1. Record(mark[w], TRUE) \in File
    BY <1>6, RecordFields DEF WriteMark, LocalsOK, Marking, Judging
  <2>2. TypeOK'
    BY <1>6, <2>1 DEF WriteMark, TypeOK, PC
  <2>3. LocalsOK'
    BY <1>6 DEF WriteMark, TypeOK, LocalsOK, Judging, Marking, JudgingMark
  <2> QED BY <2>2, <2>3
<1>7. ASSUME NEW w \in Waiter, ReturnFromReclaim(w), pc[w] # "idle",
             UNCHANGED <<createMode, alive, serial, token>>,
             lock' \in File \cup {NoFile}, marker' \in File \cup {NoFile},
             raced' \in BOOLEAN
      PROVE  Typed'
  <2>1. TryAgain(w)
    BY <1>7 DEF ReturnFromReclaim
  <2>2. TypeOK'
    BY <1>7, <2>1, TryAgainTyped DEF ReturnFromReclaim, TypeOK
  <2>3. LocalsOK'
    BY <1>7, <2>1, TryAgainTyped
       DEF ReturnFromReclaim, TypeOK, LocalsOK, Judging, Marking, JudgingMark
  <2> QED BY <2>2, <2>3
<1>8. ASSUME NEW w \in Waiter, ReadMark(w) PROVE Typed'
  <2>1. CASE marker # NoFile /\ marker.whole
    <3>1. marker.token \in Token
      BY <2>1 DEF TypeOK, File
    <3>2. TypeOK'
      BY <1>8, <2>1, <3>1 DEF ReadMark, TypeOK, PC
    <3>3. LocalsOK'
      BY <1>8, <2>1, <3>1 DEF ReadMark, TypeOK, LocalsOK, Judging, Marking, JudgingMark
    <3> QED BY <3>2, <3>3
  <2>2. CASE ~(marker # NoFile /\ marker.whole)
    BY <1>7, <1>8, <2>2 DEF ReadMark, TypeOK
  <2> QED BY <2>1, <2>2
<1>9. ASSUME NEW w \in Waiter, ProbeMarkHolder(w) \/ CompareMark(w) \/ ReadOwnMark(w)
      PROVE  Typed'
  <2>1. CASE ReturnFromReclaim(w)
    BY <1>7, <1>9, <2>1 DEF ProbeMarkHolder, CompareMark, ReadOwnMark, TypeOK
  <2>2. CASE ~ReturnFromReclaim(w)
    <3>1. TypeOK'
      BY <1>9, <2>2 DEF ProbeMarkHolder, CompareMark, ReadOwnMark, TypeOK, PC
    <3>2. LocalsOK'
      BY <1>9, <2>2 DEF ProbeMarkHolder, CompareMark, ReadOwnMark, TypeOK, LocalsOK,
                        Judging, Marking, JudgingMark
    <3> QED BY <3>1, <3>2
  <2> QED BY <2>1, <2>2
<1>10. ASSUME NEW w \in Waiter, ClearMark(w) \/ UnlinkOwnMark(w) PROVE Typed'
  BY <1>7, <1>10 DEF ClearMark, UnlinkOwnMark, TypeOK
<1>11. ASSUME NEW w \in Waiter,
              \/ CompareLock(w) \/ UnlinkDeadLock(w)
              \/ FnSettles(w) \/ ReadOwnLock(w) \/ UnlinkOwnLock(w)
       PROVE  Typed'
  <2>1. TypeOK'
    BY <1>11 DEF CompareLock, UnlinkDeadLock, FnSettles, ReadOwnLock, UnlinkOwnLock,
                 TypeOK, PC
  <2>2. LocalsOK'
    BY <1>11 DEF CompareLock, UnlinkDeadLock, FnSettles, ReadOwnLock, UnlinkOwnLock,
                 TypeOK, LocalsOK, Judging, Marking, JudgingMark
  <2> QED BY <2>1, <2>2
<1>12. ASSUME NEW p \in Process, Crash(p) PROVE Typed'
  BY <1>12 DEF Crash, TypeOK, LocalsOK
<1>13. CASE UNCHANGED vars
  BY <1>13 DEF vars, TypeOK, LocalsOK
<1> QED
  BY <1>1, <1>2, <1>3, <1>4, <1>5, <1>6, <1>8, <1>9, <1>10, <1>11, <1>12, <1>13
     DEF Next, LockCode, Reclaiming

\* Every variable keeps its type, from the locals' invariant.
THEOREM TypeCorrect == Spec => []TypeOK
<1>1. Spec => []Typed
  BY TypedInit, TypedNext, PTL DEF Spec
<1>2. Typed => TypeOK
  BY DEF Typed
<1> QED BY <1>1, <1>2, PTL

-----------------------------------------------------------------------------
(* Mutual exclusion. *)

\* A judgement made once stays right: death is for ever, and a waiter replaces what
\* it judged only where it starts over.
LEMMA JudgedDeadNext == Typed /\ JudgedDead /\ [Next]_vars => JudgedDead'
<1> SUFFICES ASSUME Typed, JudgedDead, [Next]_vars PROVE JudgedDead'
  OBVIOUS
<1> USE DEF Typed, TypeOK, At, Goto, locals, files, JudgedDead, Dead, Judging
<1>1. ASSUME NEW w \in Waiter, Acquire(w) PROVE JudgedDead'
  BY <1>1 DEF Acquire
<1>2. ASSUME NEW w \in Waiter, CreateLock(w) PROVE JudgedDead'
  BY <1>2 DEF CreateLock
<1>3. ASSUME NEW w \in Waiter, WriteLock(w) PROVE JudgedDead'
  <2>1. /\ pc' = [pc EXCEPT ![w] = pc'[w]] /\ pc'[w] \in {"section", "idle"}
        /\ alive' = alive /\ judged' = judged /\ judgedMark' = judgedMark
    BY <1>3 DEF WriteLock
  <2> QED BY <2>1
<1>4. ASSUME NEW w \in Waiter, ReadLock(w) \/ ProbeOwner(w) PROVE JudgedDead'
  BY <1>4 DEF ReadLock, ProbeOwner, TryAgain
<1>5. ASSUME NEW w \in Waiter, CreateMark(w) PROVE JudgedDead'
  BY <1>5 DEF CreateMark
<1>6. ASSUME NEW w \in Waiter, WriteMark(w) PROVE JudgedDead'
  BY <1>6 DEF WriteMark
<1>7. ASSUME NEW w \in Waiter,
             ReadMark(w) \/ ProbeMarkHolder(w) \/ CompareMark(w) \/ ReadOwnMark(w)
      PROVE  JudgedDead'
  BY <1>7 DEF ReadMark, ProbeMarkHolder, CompareMark, ReadOwnMark, ReturnFromReclaim, TryAgain
<1>8. ASSUME NEW w \in Waiter, ClearMark(w) \/ UnlinkOwnMark(w) PROVE JudgedDead'
  BY <1>8 DEF ClearMark, UnlinkOwnMark, ReturnFromReclaim, TryAgain
<1>9. ASSUME NEW w \in Waiter,
             \/ CompareLock(w) \/ UnlinkDeadLock(w)
             \/ FnSettles(w) \/ ReadOwnLock(w) \/ UnlinkOwnLock(w)
      PROVE  JudgedDead'
  BY <1>9 DEF CompareLock, UnlinkDeadLock, FnSettles, ReadOwnLock, UnlinkOwnLock
<1>10. ASSUME NEW p \in Process, Crash(p) PROVE JudgedDead'
  BY <1>10 DEF Crash
<1>11. CASE UNCHANGED vars
  BY <1>11 DEF vars
<1> QED
  BY <1>1, <1>2, <1>3, <1>4, <1>5, <1>6, <1>7, <1>8, <1>9, <1>10, <1>11
     DEF Next, LockCode, Reclaiming

\* Two live waiters never hold the same file: the file's record names one of them.
LEMMA OneHolder ==
  ASSUME Typed, FilesOK, ~raced, NEW v \in Waiter, NEW w \in Waiter
  PROVE  /\ InSection(v) /\ InSection(w) => v = w
         /\ ~(InSection(v) /\ At(w, "write"))
         /\ /\ alive[pidOf[v]] /\ pc[v] \in MarkHeld
            /\ alive[pidOf[w]] /\ pc[w] \in MarkHeld
            => v = w
         /\ ~(alive[pidOf[v]] /\ pc[v] \in MarkHeld /\ At(w, "writeMark"))
<1>1. pc[v] # "idle" /\ token[v] = token[w] /\ pc[w] # "idle" => v = w
  BY DEF Typed, LocalsOK
<1>2. pc[v] \in MarkHeld /\ mark[v] = mark[w] /\ pc[w] \in MarkHeld => v = w
  BY DEF Typed, LocalsOK, MarkHeld, Marking, Judging
<1> QED BY <1>1, <1>2 DEF FilesOK, WaiterFilesOK, InSection, At, Holding, Record

LEMMA FilesInit == Init => JudgedDead /\ FilesOK
BY DEF Init, JudgedDead, FilesOK, WaiterFilesOK, InSection, At, Holding, MarkHeld, Judging

\* A waiter's step leaves every other waiter where it was.
LEMMA OthersStay ==
  ASSUME Typed, NEW v \in Waiter, NEW w \in Waiter, v # w,
         Acquire(w) \/ LockCode(w) \/ FnSettles(w)
  PROVE  /\ pc'[v] = pc[v] /\ token'[v] = token[v] /\ mark'[v] = mark[v]
         /\ judged'[v] = judged[v] /\ alive' = alive
<1> USE DEF Typed, TypeOK, At, Goto, locals, files, TryAgain, ReturnFromReclaim
<1>1. CASE Acquire(w) \/ CreateLock(w) \/ WriteLock(w) \/ ReadLock(w) \/ ProbeOwner(w)
  BY <1>1 DEF Acquire, CreateLock, WriteLock, ReadLock, ProbeOwner
<1>2. CASE CreateMark(w) \/ WriteMark(w)
  BY <1>2 DEF CreateMark, WriteMark
<1>5. CASE ReadMark(w) \/ ProbeMarkHolder(w)
  BY <1>5 DEF ReadMark, ProbeMarkHolder
<1>3. CASE CompareMark(w) \/ ClearMark(w) \/ ReadOwnMark(w) \/ UnlinkOwnMark(w)
  BY <1>3 DEF CompareMark, ClearMark, ReadOwnMark, UnlinkOwnMark
<1>4. CASE \/ CompareLock(w) \/ UnlinkDeadLock(w) \/ FnSettles(w)
           \/ ReadOwnLock(w) \/ UnlinkOwnLock(w)
  BY <1>4 DEF CompareLock, UnlinkDeadLock, FnSettles, ReadOwnLock, UnlinkOwnLock
<1> QED BY <1>1, <1>2, <1>3, <1>4, <1>5 DEF LockCode, Reclaiming

\* What a step may do to the two files: create from nothing, write one's own blank
\* record, and remove one's own record or a dead owner's.
LockSteps(w) ==
  \/ lock' = lock
  \/ lock = NoFile
  \/ At(w, "write")
  \/ At(w, "reclaim")
  \/ At(w, "unlinkOwn")

MarkerSteps(w) ==
  \/ marker' = marker
  \/ marker = NoFile
  \/ At(w, "writeMark")
  \/ At(w, "clearMark") /\ (marker = NoFile \/ marker = Record(judgedMark[w], TRUE))
  \/ At(w, "unlinkMine")

LEMMA FileSteps ==
  ASSUME ~raced', NEW w \in Waiter, Acquire(w) \/ LockCode(w) \/ FnSettles(w)
  PROVE  LockSteps(w) /\ MarkerSteps(w)
BY DEF LockCode, Reclaiming, Acquire, CreateLock, WriteLock, ReadLock, ProbeOwner, CreateMark,
       WriteMark, ReadMark, ProbeMarkHolder, CompareMark, ClearMark, CompareLock, UnlinkDeadLock,
       ReadOwnMark, UnlinkOwnMark, FnSettles, ReadOwnLock, UnlinkOwnLock, LockSteps, MarkerSteps,
       Reads, files

LEMMA RacedForEver == [Next]_vars /\ ~raced' => ~raced
BY DEF Next, vars, LockCode, Reclaiming, Acquire, CreateLock, WriteLock, ReadLock, ProbeOwner,
       CreateMark, WriteMark, ReadMark, ProbeMarkHolder, CompareMark, ClearMark, CompareLock,
       UnlinkDeadLock, ReadOwnMark, UnlinkOwnMark, FnSettles, ReadOwnLock, UnlinkOwnLock, Crash

LEMMA FilesNext == IInv /\ [Next]_vars => FilesOK'
<1> SUFFICES ASSUME IInv, [Next]_vars, ~raced', NEW v \in Waiter PROVE WaiterFilesOK(v)'
  BY DEF FilesOK
<1> DEFINE Live(w) == alive[pidOf[w]]
<1>0. ~raced /\ \A w \in Waiter : WaiterFilesOK(w)
  BY RacedForEver DEF IInv, FilesOK
<1>1. ASSUME NEW w \in Waiter, v # w, Acquire(w) \/ LockCode(w) \/ FnSettles(w)
      PROVE  WaiterFilesOK(v)'
  <2>1. /\ pc'[v] = pc[v] /\ token'[v] = token[v] /\ mark'[v] = mark[v]
        /\ judged'[v] = judged[v] /\ alive' = alive
    BY <1>1, OthersStay DEF IInv
  <2>2. LockSteps(w) /\ MarkerSteps(w)
    BY <1>1, FileSteps
  <2>3. At(v, "reclaim") => judged[v] \in Token /\ Dead(judged[v])
    BY DEF At, IInv, Typed, LocalsOK, JudgedDead, Judging
  <2>4. At(w, "reclaim") => judged[w] \in Token /\ Dead(judged[w])
    BY DEF At, IInv, Typed, LocalsOK, JudgedDead, Judging
  <2>5. At(w, "clearMark") => Dead(judgedMark[w])
    BY DEF At, IInv, JudgedDead
  <2>6. pc[v] # "idle" => token[v] \in Token /\ Owner(token[v]) = v
    BY DEF IInv, Typed, LocalsOK
  <2>7. pc[w] # "idle" => token[w] \in Token /\ Owner(token[w]) = w
    BY DEF IInv, Typed, LocalsOK
  <2>8. pc[v] \in Marking => mark[v] \in Token /\ Owner(mark[v]) = v
    BY DEF IInv, Typed, LocalsOK
  <2>9. pc[w] \in Marking => mark[w] \in Token /\ Owner(mark[w]) = w
    BY DEF IInv, Typed, LocalsOK
  <2>10. lock' # lock =>
           /\ ~InSection(v) /\ ~At(v, "write") /\ ~At(v, "reclaim")
    <3>1. lock = NoFile => ~InSection(v) /\ ~At(v, "write") /\ ~At(v, "reclaim")
      <4>1. ASSUME lock = NoFile, InSection(v) \/ At(v, "write") PROVE FALSE
        <5>1. pc[v] # "idle"
          BY <4>1 DEF InSection, Holding, At
        <5>2. lock = Record(token[v], TRUE) \/ lock = Record(token[v], FALSE)
          BY <1>0, <4>1 DEF WaiterFilesOK
        <5> QED BY <2>6, <4>1, <5>1, <5>2, RecordFields
      <4>2. ASSUME lock = NoFile, At(v, "reclaim") PROVE FALSE
        <5>1. lock = Record(judged[v], TRUE)
          BY <1>0, <4>2 DEF WaiterFilesOK
        <5> QED BY <2>3, <4>2, <5>1, RecordFields
      <4> QED BY <4>1, <4>2
    <3>2. At(w, "write") => ~InSection(v) /\ ~At(v, "write") /\ ~At(v, "reclaim")
      BY <1>0, <1>1, <2>6, <2>7 DEF WaiterFilesOK, InSection, Holding, At, Record
    <3>3. At(w, "reclaim") => ~InSection(v) /\ ~At(v, "write") /\ ~At(v, "reclaim")
      <4>1. At(w, "reclaim") => ~InSection(v) /\ ~At(v, "write")
        BY <1>0, <2>4, <2>6 DEF WaiterFilesOK, InSection, Holding, At, Record, Dead
      <4>2. At(w, "reclaim") => ~At(v, "reclaim")
        BY <1>0, <1>1, <2>8, <2>9 DEF WaiterFilesOK, At, MarkHeld, Marking, Judging, Record
      <4> QED BY <4>1, <4>2
    <3>4. At(w, "unlinkOwn") => ~InSection(v) /\ ~At(v, "write") /\ ~At(v, "reclaim")
      <4>1. At(w, "unlinkOwn") => ~InSection(v) /\ ~At(v, "write")
        BY <1>0, <1>1, <2>6, <2>7 DEF WaiterFilesOK, InSection, Holding, At, Record
      <4>2. At(w, "unlinkOwn") => ~At(v, "reclaim")
        BY <1>0, <2>3, <2>7 DEF WaiterFilesOK, InSection, Holding, At, Record, Dead
      <4> QED BY <4>1, <4>2
    <3> QED BY <2>2, <3>1, <3>2, <3>3, <3>4 DEF LockSteps
  <2>11. marker' # marker => ~(Live(v) /\ pc[v] \in MarkHeld) /\ ~At(v, "writeMark")
    <3>1. marker = NoFile => ~(Live(v) /\ pc[v] \in MarkHeld) /\ ~At(v, "writeMark")
      BY <1>0, <2>8, RecordFields DEF WaiterFilesOK, MarkHeld, Marking, Judging, At
    <3>2. At(w, "writeMark") \/ At(w, "unlinkMine")
            => ~(Live(v) /\ pc[v] \in MarkHeld) /\ ~At(v, "writeMark")
      BY <1>0, <1>1, <2>8, <2>9 DEF WaiterFilesOK, MarkHeld, Marking, Judging, At, Record
    <3>3. At(w, "clearMark") /\ marker = Record(judgedMark[w], TRUE)
            => ~(Live(v) /\ pc[v] \in MarkHeld) /\ ~At(v, "writeMark")
      <4> SUFFICES ASSUME At(w, "clearMark"), marker = Record(judgedMark[w], TRUE), Live(v)
                   PROVE  pc[v] \notin MarkHeld \cup {"writeMark"}
        BY DEF At
      <4>1. marker.token = judgedMark[w]
        BY DEF Record
      <4>2. pc[v] \in MarkHeld \cup {"writeMark"} => marker.token = mark[v]
        BY <1>0 DEF WaiterFilesOK, Record, At
      <4>3. pc[v] \in MarkHeld \cup {"writeMark"} => Owner(mark[v]) = v
        BY <2>8 DEF MarkHeld, Marking, Judging
      <4> QED BY <2>5, <4>1, <4>2, <4>3 DEF Dead
    <3> QED BY <2>2, <3>1, <3>2, <3>3 DEF MarkerSteps
  <2> QED BY <1>0, <2>1, <2>10, <2>11 DEF WaiterFilesOK, InSection, At
<1>2. ASSUME Acquire(v) \/ LockCode(v) \/ FnSettles(v) PROVE WaiterFilesOK(v)'
  <2> USE <1>0 DEF IInv, Typed, TypeOK, At, Goto, locals, files, WaiterFilesOK, InSection, Holding,
                   MarkHeld
  <2>1. CASE Acquire(v)
    BY <2>1 DEF Acquire
  <2>2. CASE CreateLock(v) \/ WriteLock(v)
    BY <2>2 DEF CreateLock, WriteLock
  <2>3. CASE ReadLock(v) \/ ProbeOwner(v)
    BY <2>3 DEF ReadLock, ProbeOwner, TryAgain
  <2>4. CASE CreateMark(v) \/ WriteMark(v)
    BY <2>4 DEF CreateMark, WriteMark
  <2>5. CASE ReadMark(v) \/ ProbeMarkHolder(v) \/ CompareMark(v)
    <3>1. pc'[v] \in {"create", "idle", "probeMark", "compareMark", "clearMark"}
      <4>1. CASE ReadMark(v)
        BY <4>1 DEF ReadMark, ReturnFromReclaim, TryAgain
      <4>2. CASE ProbeMarkHolder(v) \/ CompareMark(v)
        BY <4>2 DEF ProbeMarkHolder, CompareMark, ReturnFromReclaim, TryAgain
      <4> QED BY <2>5, <4>1, <4>2
    <3> QED BY <3>1
  <2>10. CASE ReadOwnMark(v)
    <3>1. /\ lock' = lock /\ marker' = marker
          /\ \/ pc'[v] \in {"create", "idle"}
             \/ pc'[v] = "unlinkMine" /\ Reads(marker, mark[v]) /\ mark' = mark
      BY <2>10 DEF ReadOwnMark, ReturnFromReclaim, TryAgain
    <3> QED BY <3>1 DEF Reads
  <2>6. CASE ClearMark(v)
    BY <2>6 DEF ClearMark, ReturnFromReclaim, TryAgain
  <2>7. CASE UnlinkOwnMark(v)
    BY <2>7 DEF UnlinkOwnMark, ReturnFromReclaim, TryAgain
  <2>8. CASE CompareLock(v) \/ UnlinkDeadLock(v)
    BY <2>8 DEF CompareLock, UnlinkDeadLock, Reads
  <2>9. CASE FnSettles(v) \/ ReadOwnLock(v) \/ UnlinkOwnLock(v)
    BY <2>9 DEF FnSettles, ReadOwnLock, UnlinkOwnLock
  <2> QED
    BY <1>2, <2>1, <2>2, <2>3, <2>4, <2>5, <2>6, <2>7, <2>8, <2>9, <2>10
    DEF LockCode, Reclaiming
<1>3. ASSUME NEW p \in Process, Crash(p) PROVE WaiterFilesOK(v)'
  <2>1. /\ pc' = pc /\ token' = token /\ mark' = mark /\ judged' = judged
        /\ lock' = lock /\ marker' = marker
    BY <1>3 DEF Crash, locals, files
  <2>2. alive'[pidOf[v]] => alive[pidOf[v]]
    BY <1>3, StoreLockAssumption DEF Crash, IInv, Typed, TypeOK
  <2> QED BY <1>0, <2>1, <2>2 DEF WaiterFilesOK, InSection, At
<1>4. CASE UNCHANGED vars
  <2>1. /\ alive' = alive /\ pc' = pc /\ token' = token /\ mark' = mark /\ judged' = judged
        /\ lock' = lock /\ marker' = marker
    BY <1>4 DEF vars
  <2> QED BY <1>0, <2>1 DEF WaiterFilesOK, InSection, At
<1> QED BY <1>1, <1>2, <1>3, <1>4 DEF Next

LEMMA Inductive == Spec => []IInv
<1>1. Init => IInv
  BY TypedInit, FilesInit DEF IInv
<1>2. IInv /\ [Next]_vars => IInv'
  BY TypedNext, JudgedDeadNext, FilesNext DEF IInv
<1> QED BY <1>1, <1>2, PTL DEF Spec

\* fn runs only under its caller's own complete record.
THEOREM SectionLocked == Spec => []SectionHoldsRecord
<1>1. IInv => SectionHoldsRecord
  BY DEF IInv, FilesOK, WaiterFilesOK, SectionHoldsRecord
<1> QED BY <1>1, Inductive, PTL

\* Two live waiters are never inside fn at once.
THEOREM Exclusive == Spec => []MutualExclusion
<1>1. IInv => MutualExclusion
  BY OneHolder DEF IInv, MutualExclusion
<1> QED BY <1>1, Inductive, PTL

\* A live owner is never evicted.
THEOREM NeverEvicted == Spec => LiveOwnerKeepsLock
<1> DEFINE Kept == lock # NoFile /\ ~raced' =>
                     \/ lock' # NoFile /\ lock'.token = lock.token
                     \/ Dead(lock.token)
                     \/ pc'[Owner(lock.token)] # pc[Owner(lock.token)]
<1>1. ASSUME IInv, [Next]_vars PROVE [Kept]_vars
  <2> SUFFICES ASSUME lock # NoFile, ~raced', lock' # lock
               PROVE  Kept
    OBVIOUS
  <2>1. PICK w \in Waiter : Acquire(w) \/ LockCode(w) \/ FnSettles(w)
    BY <1>1 DEF Next, Crash, files, vars
  <2>2. WaiterFilesOK(w)
    BY <1>1, RacedForEver DEF IInv, FilesOK
  <2>3. LockSteps(w)
    BY <2>1, FileSteps
  <2>4. CASE At(w, "write") \/ At(w, "unlinkOwn")
    <3>1. lock.token = token[w] /\ Owner(token[w]) = w
      BY <1>1, <2>2, <2>4 DEF WaiterFilesOK, At, InSection, Holding, Record, IInv, Typed, LocalsOK
    <3>2. WriteLock(w) \/ UnlinkOwnLock(w)
      BY <2>1, <2>4 DEF At, LockCode, Reclaiming, Acquire, CreateLock, WriteLock, ReadLock,
             ProbeOwner, CreateMark, WriteMark, ReadMark, ProbeMarkHolder, CompareMark, ClearMark,
             CompareLock, UnlinkDeadLock, ReadOwnMark, UnlinkOwnMark, FnSettles, ReadOwnLock,
             UnlinkOwnLock
    <3>3. pc'[w] # pc[w]
      BY <1>1, <3>2 DEF WriteLock, UnlinkOwnLock, At, Goto, IInv, Typed, TypeOK
    <3> QED BY <3>1, <3>3
  <2>5. CASE At(w, "reclaim")
    <3>1. lock.token = judged[w]
      BY <2>2, <2>5 DEF WaiterFilesOK, Record
    <3>2. Dead(judged[w])
      BY <1>1, <2>5 DEF At, IInv, JudgedDead, Judging
    <3> QED BY <3>1, <3>2
  <2> QED BY <2>3, <2>4, <2>5 DEF LockSteps
<1> QED BY <1>1, Inductive, PTL DEF Spec, LiveOwnerKeepsLock

-----------------------------------------------------------------------------
(* withLock implements Mutex. *)

\* A waiter's step moves its own call only, and only along the edges of the abstract life cycle.
LEMMA CallEdges ==
  ASSUME Typed, NEW w \in Waiter, Acquire(w) \/ LockCode(w) \/ FnSettles(w)
  PROVE  /\ alive' = alive /\ alive[pidOf[w]]
         /\ pc[w] = "idle" => pc'[w] = "create"
         /\ pc[w] = "section" => pc'[w] = "readOwn"
         /\ pc[w] = "readOwn" => pc'[w] \in {"unlinkOwn", "idle"}
         /\ pc[w] = "unlinkOwn" => pc'[w] = "idle"
         /\ pc[w] \notin {"idle", "section", "readOwn", "unlinkOwn"} =>
              pc'[w] \notin {"readOwn", "unlinkOwn"}
<1> USE DEF Typed, TypeOK, At, Goto, locals, files, TryAgain, ReturnFromReclaim
<1>1. CASE Acquire(w) \/ CreateLock(w) \/ WriteLock(w) \/ ReadLock(w) \/ ProbeOwner(w)
  BY <1>1 DEF Acquire, CreateLock, WriteLock, ReadLock, ProbeOwner
<1>2. CASE CreateMark(w) \/ WriteMark(w) \/ ReadMark(w) \/ ProbeMarkHolder(w)
  BY <1>2 DEF CreateMark, WriteMark, ReadMark, ProbeMarkHolder
<1>3. CASE CompareMark(w) \/ ClearMark(w) \/ ReadOwnMark(w) \/ UnlinkOwnMark(w)
  BY <1>3 DEF CompareMark, ClearMark, ReadOwnMark, UnlinkOwnMark
<1>4. CASE \/ CompareLock(w) \/ UnlinkDeadLock(w) \/ FnSettles(w)
           \/ ReadOwnLock(w) \/ UnlinkOwnLock(w)
  BY <1>4 DEF CompareLock, UnlinkDeadLock, FnSettles, ReadOwnLock, UnlinkOwnLock
<1> QED BY <1>1, <1>2, <1>3, <1>4 DEF LockCode, Reclaiming

LEMMA CallPhases ==
  ASSUME NEW w \in Waiter
  PROVE  /\ callPhase[w] \in Promised!Phase
         /\ callPhase[w] = "dead" <=> ~alive[pidOf[w]]
         /\ callPhase[w] = "inside" <=> InSection(w)
         /\ callPhase[w] = "out" <=> At(w, "idle")
BY DEF callPhase, Promised!Phase, InSection, At, Holding

LEMMA CallStep == IInv /\ IInv' /\ MutualExclusion' /\ [Next]_vars => [Promised!Next]_<<callPhase, raced>>
<1> SUFFICES ASSUME IInv, IInv', MutualExclusion', [Next]_vars PROVE [Promised!Next]_<<callPhase, raced>>
  OBVIOUS
<1> DEFINE Old(u) == callPhase[u]
           New(u) == callPhase'[u]
<1>a. \A u \in Waiter : /\ Old(u) \in Promised!Phase
                        /\ Old(u) = "dead" <=> ~alive[pidOf[u]]
                        /\ Old(u) = "inside" <=> InSection(u)
                        /\ Old(u) = "out" <=> At(u, "idle")
  BY CallPhases
<1>b. \A u \in Waiter : /\ New(u) \in Promised!Phase
                        /\ New(u) = "dead" <=> ~alive'[pidOf[u]]
                        /\ New(u) = "inside" <=> InSection(u)'
                        /\ New(u) = "out" <=> At(u, "idle")'
  BY DEF callPhase, Promised!Phase, InSection, At, Holding
<1>c. /\ callPhase = [u \in Waiter |-> Old(u)]
      /\ callPhase' = [u \in Waiter |-> New(u)]
  BY DEF callPhase
<1>1. CASE raced'
  BY <1>1, <1>b, <1>c DEF Promised!Next, Promised!Void
<1>2. CASE ~raced'
  <2>0. ~raced
    BY <1>2, RacedForEver
  <2>0a. raced' = raced
    <3>1. raced \in BOOLEAN /\ raced' \in BOOLEAN
      BY DEF IInv, Typed, TypeOK
    <3> QED BY <3>1, <1>2, <2>0
  <2>1. ASSUME NEW p \in Process, Crash(p) PROVE Promised!Next
    <3> DEFINE W == {u \in Waiter : pidOf[u] = p}
    <3>1. \A u \in Waiter : New(u) = IF u \in W THEN "dead" ELSE Old(u)
      BY <2>1, StoreLockAssumption DEF Crash, callPhase, InSection, At, IInv, Typed, TypeOK
    <3>2. Promised!Die(W)
      BY <3>1, <1>c, <2>0a DEF Promised!Die
    <3> QED BY <3>2 DEF Promised!Next
  <2>2. ASSUME NEW w \in Waiter, Acquire(w) \/ LockCode(w) \/ FnSettles(w)
        PROVE  [Promised!Next]_<<callPhase, raced>>
    <3>1. \A u \in Waiter : u # w => New(u) = Old(u)
      BY <2>2, OthersStay DEF callPhase, InSection, At, IInv
    <3>2. New(w) # "dead" /\ Old(w) # "dead"
      BY <2>2, CallEdges, <1>a, <1>b DEF IInv
    <3>3. ~(Old(w) = "out" /\ New(w) = "inside") /\ ~(Old(w) = "inside" /\ New(w) = "waiting")
      BY <2>2, CallEdges, <1>a, <1>b DEF IInv, InSection, At, Holding
    <3>4. ASSUME New(w) = "inside", Old(w) # "inside" PROVE \A u \in Waiter : Old(u) # "inside"
      <4>1. \A u \in Waiter : New(u) = "inside" => u = w
        BY <3>4, <1>b, <1>2 DEF MutualExclusion
      <4> QED BY <3>1, <3>4, <4>1
    <3>5. callPhase' = [callPhase EXCEPT ![w] = New(w)]
      BY <3>1, <1>c
    <3> DEFINE Moves(from, to) == Old(w) = from /\ New(w) = to
    <3>6. \/ Old(w) = New(w)
          \/ Moves("out", "waiting") \/ Moves("waiting", "inside")
          \/ Moves("waiting", "out") \/ Moves("inside", "out")
      BY <3>2, <3>3, <1>a, <1>b DEF Promised!Phase
    <3>7. CASE Old(w) = New(w)
      BY <3>7, <3>1, <1>c, <2>0a
    <3>8. CASE Moves("waiting", "inside")
      <4>1. Promised!Inside = {}
        BY <3>8, <3>4 DEF Promised!Inside
      <4>2. Promised!Enter(w)
        BY <3>8, <3>5, <4>1, <2>0a DEF Promised!Enter, Promised!Move
      <4> QED BY <4>2 DEF Promised!Next
    <3>9. CASE Moves("out", "waiting") \/ Moves("waiting", "out") \/ Moves("inside", "out")
      <4>1. Promised!Ask(w) \/ Promised!GiveUp(w) \/ Promised!Leave(w)
        BY <3>9, <3>5, <2>0a DEF Promised!Ask, Promised!GiveUp, Promised!Leave, Promised!Move
      <4> QED BY <4>1 DEF Promised!Next
    <3> QED BY <3>6, <3>7, <3>8, <3>9
  <2>3. CASE UNCHANGED vars
    BY <2>3 DEF vars, callPhase, InSection, At
  <2> QED BY <2>1, <2>2, <2>3 DEF Next
<1> QED BY <1>1, <1>2

\* withLock is the mutual exclusion with a bounded wait that its callers are promised.
THEOREM Implements == Spec => ImplementsMutex
<1>1. Init => Promised!Init
  BY StoreLockAssumption DEF Init, Promised!Init, callPhase, Holding
<1>2. IInv /\ IInv' /\ MutualExclusion' /\ [Next]_vars => [Promised!Next]_<<callPhase, raced>>
  BY CallStep
<1> QED BY <1>1, <1>2, Inductive, Exclusive, PTL DEF Spec, ImplementsMutex, Promised!Spec, Promised!vars
=============================================================================
