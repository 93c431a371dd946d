------------------------------- MODULE Mutex -------------------------------
(***************************************************************************)
(* What withLock of src/storeLock.ts promises its callers, with no files   *)
(* in sight: a call waits, then runs its function alone or throws; a call  *)
(* whose process dies is over and shuts nobody out.                        *)
(*                                                                         *)
(* `void` is the exception the source documents: once a reclaim marker has *)
(* been cleared by a waiter that judged another one, nothing is promised.  *)
(***************************************************************************)
CONSTANTS
  Waiter    \* calls of withLock that may be in progress

VARIABLES
  phase,    \* waiter -> where its call stands
  void      \* the promise is void

vars == <<phase, void>>

Phase == {"out", "waiting", "inside", "dead"}
Inside == {w \in Waiter : phase[w] = "inside"}

Init ==
  /\ phase = [w \in Waiter |-> "out"]
  /\ void = FALSE

\* One call goes on, the others stand still.
Move(w, from, to) ==
  /\ phase[w] = from
  /\ phase' = [phase EXCEPT ![w] = to]
  /\ void' = void

Ask(w) == Move(w, "out", "waiting")

\* The function runs only when nobody else's does.
Enter(w) == Inside = {} /\ Move(w, "waiting", "inside")

\* The retries are used up, or a write failed: the call throws.
GiveUp(w) == Move(w, "waiting", "out")

Leave(w) == Move(w, "inside", "out")

\* The calls of a process that dies.
Die(W) ==
  /\ phase' = [w \in Waiter |-> IF w \in W THEN "dead" ELSE phase[w]]
  /\ void' = void

\* From here on anything may happen.
Void ==
  /\ phase' \in [Waiter -> Phase]
  /\ void' = TRUE

Next ==
  \/ \E w \in Waiter : Ask(w) \/ Enter(w) \/ GiveUp(w) \/ Leave(w)
  \/ \E W \in SUBSET Waiter : Die(W)
  \/ Void

Spec == Init /\ [][Next]_vars
=============================================================================
