-------------------------- MODULE MCRestartCycle --------------------------
(* A root, a worker under it, and a session on its own. *)
EXTENDS RestartCycle

CONSTANTS root, worker, solo

MCSpawner == [s \in Session |-> IF s = worker THEN root ELSE NoSession]
=============================================================================
