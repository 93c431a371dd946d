----------------------------- MODULE StoreLock -----------------------------
(***************************************************************************)
(* The cross-process advisory lock of src/storeLock.ts: withLock and       *)
(* everything it calls.  A waiter is one call of withLock; waiters live in *)
(* OS processes, and a process may die between any two system calls.  The  *)
(* two files (the lockfile and its .reclaim marker) outlive their creator. *)
(*                                                                         *)
(* One step is one system call, so that another process can run between    *)
(* a read and the unlink it justifies.  A file is either absent or a       *)
(* record carrying its creator's token; in the "open" create mode it       *)
(* exists for a moment with nothing written (whole = FALSE).               *)
(***************************************************************************)
EXTENDS Naturals

CONSTANTS
  Waiter,      \* calls of withLock that may be in progress
  Process,     \* the OS processes they run in
  pidOf,       \* the process of each waiter
  RetryMax,    \* LOCK_RETRY_MAX
  MaxSerial,   \* bound: a waiter starts no acquire once it has minted this many tokens
  NoFile,      \* an absent file
  NoToken      \* a local variable that holds no token

Token == Waiter \X Nat
File == [token : Token, whole : BOOLEAN]

ASSUME StoreLockAssumption ==
  /\ pidOf \in [Waiter -> Process]
  /\ RetryMax \in Nat
  /\ MaxSerial \in Nat
  /\ NoFile \notin File
  /\ NoToken \notin Token

VARIABLES
  createMode,  \* "link": records are published whole; "open": created, then written
  alive,       \* process -> it has not died (kill(pid, 0) does not say ESRCH)
  pc,          \* waiter -> the system call it makes next
  serial,      \* waiter -> tokens it has minted (tokenCounter)
  token,       \* waiter -> the token of its acquire
  attempt,     \* waiter -> acquireLock's loop counter
  judged,      \* waiter -> the token of the record it judges (judgedRaw)
  mark,        \* waiter -> the token of its reclaim marker
  judgedMark,  \* waiter -> the token of the stale marker it judges
  lock,        \* the lockfile
  marker,      \* the .reclaim marker
  raced        \* history: a waiter removed a marker other than the one it judged

files == <<lock, marker>>
locals == <<serial, token, attempt, judged, mark, judgedMark>>
vars == <<createMode, alive, pc, serial, token, attempt, judged, mark, judgedMark, lock, marker, raced>>

\* Where a waiter can stand.  "section" is fn(); "readOwn" and "unlinkOwn" are
\* releaseLock; the last four are the marker's holder in reclaimDeadOwner.
PC == {"idle", "create", "write", "read", "probe", "section", "readOwn", "unlinkOwn",
       "mark", "writeMark", "readMark", "probeMark", "compareMark", "clearMark",
       "compareLock", "reclaim", "readMine", "unlinkMine"}

Holding == {"section", "readOwn", "unlinkOwn"}
MarkHeld == {"compareLock", "reclaim", "readMine", "unlinkMine"}

Owner(t) == t[1]
Dead(t) == ~alive[pidOf[Owner(t)]]
Record(t, w) == [token |-> t, whole |-> w]

\* What ends a try: `f` holds a complete record with token `t`.
Reads(f, t) == f = Record(t, TRUE)

\* probeLinks' answer for the directory: its filesystem has hard links or not.
CreateModes == {"link", "open"}

Init ==
  /\ createMode \in CreateModes
  /\ alive = [p \in Process |-> TRUE]
  /\ pc = [w \in Waiter |-> "idle"]
  /\ serial = [w \in Waiter |-> 0]
  /\ token = [w \in Waiter |-> NoToken]
  /\ attempt = [w \in Waiter |-> 0]
  /\ judged = [w \in Waiter |-> NoToken]
  /\ mark = [w \in Waiter |-> NoToken]
  /\ judgedMark = [w \in Waiter |-> NoToken]
  /\ lock = NoFile
  /\ marker = NoFile
  /\ raced = FALSE

At(w, where) == alive[pidOf[w]] /\ pc[w] = where
Goto(w, where) == pc' = [pc EXCEPT ![w] = where]

\* Mutants of TryAgain: the loop runs once too often; it never gives up; its last
\* exit falls through into fn (the bug the throw after the loop fixed).
TryAgainOnceMore(w) ==
  IF attempt[w] > RetryMax
  THEN Goto(w, "idle") /\ UNCHANGED attempt
  ELSE Goto(w, "create") /\ attempt' = [attempt EXCEPT ![w] = @ + 1]

TryAgainForEver(w) == Goto(w, "create") /\ UNCHANGED attempt

TryAgainFallsThrough(w) ==
  IF attempt[w] >= RetryMax
  THEN Goto(w, "section") /\ UNCHANGED attempt
  ELSE Goto(w, "create") /\ attempt' = [attempt EXCEPT ![w] = @ + 1]

\* An attempt that did not create the lockfile, after a reclaim or not: the last
\* one throws (both throws end the call), any other is followed by the next.
TryAgain(w) ==
  IF attempt[w] >= RetryMax
  THEN Goto(w, "idle") /\ UNCHANGED attempt
  ELSE Goto(w, "create") /\ attempt' = [attempt EXCEPT ![w] = @ + 1]

-----------------------------------------------------------------------------
(* acquireLock *)

Acquire(w) ==
  /\ At(w, "idle")
  /\ serial[w] < MaxSerial
  /\ token' = [token EXCEPT ![w] = <<w, serial[w]>>]
  /\ serial' = [serial EXCEPT ![w] = @ + 1]
  /\ attempt' = [attempt EXCEPT ![w] = 0]
  /\ Goto(w, "create")
  /\ UNCHANGED <<createMode, alive, judged, mark, judgedMark, files, raced>>

\* createLockFileSync on the lockfile: the exclusive step.
CreateLock(w) ==
  /\ At(w, "create")
  /\ IF lock = NoFile
     THEN /\ lock' = Record(token[w], createMode = "link")
          /\ Goto(w, IF createMode = "link" THEN "section" ELSE "write")
     ELSE Goto(w, "read") /\ UNCHANGED lock
  /\ UNCHANGED <<createMode, alive, locals, marker, raced>>

\* createInPlaceSync's second call: the write, or its failure, which removes
\* the file and throws out of withLock.
WriteLock(w) ==
  /\ At(w, "write")
  /\ \/ lock' = Record(token[w], TRUE) /\ Goto(w, "section")
     \/ lock' = NoFile /\ Goto(w, "idle")
  /\ UNCHANGED <<createMode, alive, locals, marker, raced>>

\* readOrNull and parseLockRecord: only a complete record can be judged.
ReadLock(w) ==
  /\ At(w, "read")
  /\ IF lock # NoFile /\ lock.whole
     THEN /\ judged' = [judged EXCEPT ![w] = lock.token]
          /\ Goto(w, "probe")
          /\ UNCHANGED attempt
     ELSE TryAgain(w) /\ UNCHANGED judged
  /\ UNCHANGED <<createMode, alive, serial, token, mark, judgedMark, files, raced>>

\* Mutant of ProbeOwner: a holder is evicted for being slow, alive or not.
ProbeOwnerByAge(w) ==
  /\ At(w, "probe")
  /\ Goto(w, "mark")
  /\ UNCHANGED <<createMode, alive, locals, files, raced>>

\* isProcessAlive on the record's pid.
ProbeOwner(w) ==
  /\ At(w, "probe")
  /\ IF Dead(judged[w])
     THEN Goto(w, "mark") /\ UNCHANGED <<attempt, judged>>
     ELSE TryAgain(w) /\ judged' = [judged EXCEPT ![w] = NoToken]
  /\ UNCHANGED <<createMode, alive, serial, token, mark, judgedMark, files, raced>>

-----------------------------------------------------------------------------
(* reclaimDeadOwner *)

\* Returning from it drops its locals; both results end the attempt.
ReturnFromReclaim(w) ==
  /\ TryAgain(w)
  /\ judged' = [judged EXCEPT ![w] = NoToken]
  /\ mark' = [mark EXCEPT ![w] = NoToken]
  /\ judgedMark' = [judgedMark EXCEPT ![w] = NoToken]

CreateMark(w) ==
  /\ At(w, "mark")
  /\ mark' = [mark EXCEPT ![w] = <<w, serial[w]>>]
  /\ serial' = [serial EXCEPT ![w] = @ + 1]
  /\ IF marker = NoFile
     THEN /\ marker' = Record(<<w, serial[w]>>, createMode = "link")
          /\ Goto(w, IF createMode = "link" THEN "compareLock" ELSE "writeMark")
     ELSE Goto(w, "readMark") /\ UNCHANGED marker
  /\ UNCHANGED <<createMode, alive, token, attempt, judged, judgedMark, lock, raced>>

\* The marker's write; its failure removes the marker and throws out of withLock.
WriteMark(w) ==
  /\ At(w, "writeMark")
  /\ \/ marker' = Record(mark[w], TRUE) /\ Goto(w, "compareLock")
     \/ marker' = NoFile /\ Goto(w, "idle")
  /\ UNCHANGED <<createMode, alive, locals, lock, raced>>

ReadMark(w) ==
  /\ At(w, "readMark")
  /\ IF marker # NoFile /\ marker.whole
     THEN /\ judgedMark' = [judgedMark EXCEPT ![w] = marker.token]
          /\ Goto(w, "probeMark")
          /\ UNCHANGED <<attempt, judged, mark>>
     ELSE ReturnFromReclaim(w)
  /\ UNCHANGED <<createMode, alive, serial, token, files, raced>>

ProbeMarkHolder(w) ==
  /\ At(w, "probeMark")
  /\ IF Dead(judgedMark[w])
     THEN Goto(w, "compareMark") /\ UNCHANGED <<attempt, judged, mark, judgedMark>>
     ELSE ReturnFromReclaim(w)
  /\ UNCHANGED <<createMode, alive, serial, token, files, raced>>

\* readOrNull(markerPath) === raw.
CompareMark(w) ==
  /\ At(w, "compareMark")
  /\ IF Reads(marker, judgedMark[w])
     THEN Goto(w, "clearMark") /\ UNCHANGED <<attempt, judged, mark, judgedMark>>
     ELSE ReturnFromReclaim(w)
  /\ UNCHANGED <<createMode, alive, serial, token, files, raced>>

\* The unlink removes whatever is at the path by now.
ClearMark(w) ==
  /\ At(w, "clearMark")
  /\ marker' = NoFile
  /\ raced' = (raced \/ (marker # NoFile /\ ~Reads(marker, judgedMark[w])))
  /\ ReturnFromReclaim(w)
  /\ UNCHANGED <<createMode, alive, serial, token, lock>>

\* Mutant of CompareLock: unlink without looking again.
CompareLockSkipped(w) ==
  /\ At(w, "compareLock")
  /\ Goto(w, "reclaim")
  /\ UNCHANGED <<createMode, alive, locals, files, raced>>

\* The marker's holder: is the lockfile still exactly the judged record?
CompareLock(w) ==
  /\ At(w, "compareLock")
  /\ Goto(w, IF Reads(lock, judged[w]) THEN "reclaim" ELSE "readMine")
  /\ UNCHANGED <<createMode, alive, locals, files, raced>>

UnlinkDeadLock(w) ==
  /\ At(w, "reclaim")
  /\ lock' = NoFile
  /\ Goto(w, "readMine")
  /\ UNCHANGED <<createMode, alive, locals, marker, raced>>

\* releaseLockSync of the marker: the token check, then the unlink.
ReadOwnMark(w) ==
  /\ At(w, "readMine")
  /\ IF Reads(marker, mark[w])
     THEN Goto(w, "unlinkMine") /\ UNCHANGED <<attempt, judged, mark, judgedMark>>
     ELSE ReturnFromReclaim(w)
  /\ UNCHANGED <<createMode, alive, serial, token, files, raced>>

UnlinkOwnMark(w) ==
  /\ At(w, "unlinkMine")
  /\ marker' = NoFile
  /\ ReturnFromReclaim(w)
  /\ UNCHANGED <<createMode, alive, serial, token, lock, raced>>

-----------------------------------------------------------------------------
(* withLock around fn, and releaseLock *)

FnSettles(w) ==
  /\ At(w, "section")
  /\ Goto(w, "readOwn")
  /\ UNCHANGED <<createMode, alive, locals, files, raced>>

ReadOwnLock(w) ==
  /\ At(w, "readOwn")
  /\ Goto(w, IF Reads(lock, token[w]) THEN "unlinkOwn" ELSE "idle")
  /\ UNCHANGED <<createMode, alive, locals, files, raced>>

UnlinkOwnLock(w) ==
  /\ At(w, "unlinkOwn")
  /\ lock' = NoFile
  /\ Goto(w, "idle")
  /\ UNCHANGED <<createMode, alive, locals, marker, raced>>

\* A process dies: its waiters stop where they stand and its files stay.
Crash(p) ==
  /\ alive[p]
  /\ alive' = [alive EXCEPT ![p] = FALSE]
  /\ UNCHANGED <<createMode, pc, locals, files, raced>>

Reclaiming(w) ==
  \/ CreateMark(w) \/ WriteMark(w) \/ ReadMark(w) \/ ProbeMarkHolder(w)
  \/ CompareMark(w) \/ ClearMark(w) \/ CompareLock(w) \/ UnlinkDeadLock(w)
  \/ ReadOwnMark(w) \/ UnlinkOwnMark(w)

\* A step of withLock's own code, as opposed to a step of fn.
LockCode(w) ==
  \/ CreateLock(w) \/ WriteLock(w) \/ ReadLock(w) \/ ProbeOwner(w)
  \/ Reclaiming(w)
  \/ ReadOwnLock(w) \/ UnlinkOwnLock(w)

Next ==
  \/ \E w \in Waiter : Acquire(w) \/ LockCode(w) \/ FnSettles(w)
  \/ \E p \in Process : Crash(p)

Spec == Init /\ [][Next]_vars

\* Every live process runs its event loop; fn may hang for ever.
Fairness == \A w \in Waiter : WF_vars(LockCode(w))
FairSpec == Spec /\ Fairness

-----------------------------------------------------------------------------
(* Properties *)

\* Types: every local of acquireLock is set before it is used, and its loop stays in its bound.
TypeOK ==
  /\ createMode \in CreateModes
  /\ alive \in [Process -> BOOLEAN]
  /\ pc \in [Waiter -> PC]
  /\ serial \in [Waiter -> Nat]
  /\ token \in [Waiter -> Token \cup {NoToken}]
  /\ attempt \in [Waiter -> 0..RetryMax]
  /\ judged \in [Waiter -> Token \cup {NoToken}]
  /\ mark \in [Waiter -> Token \cup {NoToken}]
  /\ judgedMark \in [Waiter -> Token \cup {NoToken}]
  /\ lock \in File \cup {NoFile}
  /\ marker \in File \cup {NoFile}
  /\ raced \in BOOLEAN

InSection(w) == alive[pidOf[w]] /\ pc[w] \in Holding

\* Two live waiters are never both inside fn (or its release), whoever died and
\* wherever, unless the race the source leaves open happened: a waiter cleared a
\* marker that was no longer the stale one it had judged.
MutualExclusion ==
  ~raced => \A v, w \in Waiter : InSection(v) /\ InSection(w) => v = w

\* fn never runs unlocked: a live waiter inside it finds its own complete record
\* in the lockfile, so neither the reclaim of a dead owner nor a late release
\* removed it, and no exit of the retry loop enters fn without a token.
SectionHoldsRecord ==
  ~raced => \A w \in Waiter : InSection(w) => lock = Record(token[w], TRUE)

\* A live owner is never evicted: its record leaves the lockfile only by its own
\* step.  (releaseLock reads the token and unlinks in two calls.)
LiveOwnerKeepsLock ==
  [][ lock # NoFile /\ ~raced' =>
        \/ lock' # NoFile /\ lock'.token = lock.token
        \/ Dead(lock.token)
        \/ pc'[Owner(lock.token)] # pc[Owner(lock.token)] ]_vars

\* Where the call of w stands, as its caller sees it.
callPhase == [w \in Waiter |->
  IF ~alive[pidOf[w]] THEN "dead"
  ELSE IF pc[w] \in Holding THEN "inside"
  ELSE IF pc[w] = "idle" THEN "out"
  ELSE "waiting"]

Promised == INSTANCE Mutex WITH phase <- callPhase, void <- raced

\* withLock is a mutual exclusion with a bounded wait: whatever its system calls do, and whoever dies
\* between two of them, its callers see no more than a call that waits, runs alone or throws.
ImplementsMutex == Promised!Spec

\* A wedged holder surfaces as a thrown error: under fairness for the lock's own
\* code alone, an acquire enters fn or throws, or its process dies.
AcquireSettles ==
  \A w \in Waiter :
    pc[w] = "create" ~> (pc[w] \in {"section", "idle"} \/ ~alive[pidOf[w]])
=============================================================================
