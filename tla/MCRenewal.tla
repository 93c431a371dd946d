------------------------------ MODULE MCRenewal ------------------------------
(* One session; the bounds are in the configurations. *)
EXTENDS Renewal
=============================================================================
