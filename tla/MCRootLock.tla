---------------------------- MODULE MCRootLock ----------------------------
(* Instances of RootLock for TLC. *)
EXTENDS RootLock, TLC

CONSTANTS s1, s2, s3, s4

\* After a race only the servers' way back out of it is followed.
RaceEndsRun == raced => \E s \in Server : pc[s] \in {"confirm", "backoff"}

MCSymmetry == Permutations(Server)
=============================================================================
