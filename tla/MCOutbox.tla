------------------------------ MODULE MCOutbox ------------------------------
(* The instance of Outbox for TLC: the two rows of one order, two passes. *)
EXTENDS Outbox

CONSTANTS o1, w1, w2, a1, a2
=============================================================================
