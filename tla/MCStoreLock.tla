---------------------------- MODULE MCStoreLock ----------------------------
(* Three waiters, each in a process of its own: an owner that dies, a reclaimer *)
(* that dies under the mark, and one more.                                      *)
EXTENDS StoreLock

CONSTANTS w1, w2, w3

MCOwnProcess == [w \in Waiter |-> w]
=============================================================================
