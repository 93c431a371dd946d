----------------------------- MODULE MCWakeHub -----------------------------
(* A root, a section lead it spawned and a worker the lead spawned; dispatches add every other    *)
(* edge, cycles included.                                                                          *)
EXTENDS WakeHub

CONSTANTS root, lead, worker

MCSpawner == [s \in Session |-> CASE s = root -> NoSession [] s = lead -> root [] s = worker -> lead]
=============================================================================
