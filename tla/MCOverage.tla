----------------------------- MODULE MCOverage -----------------------------
(* A conductor, a section lead it spawned and a worker the lead spawned, the worker on another     *)
(* backend.                                                                                        *)
EXTENDS Overage

CONSTANTS boss, lead, worker

MCOwner == [s \in Session |-> CASE s = boss -> NoSession [] s = lead -> boss [] s = worker -> lead]
=============================================================================
