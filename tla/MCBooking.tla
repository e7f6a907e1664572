----------------------------- MODULE MCBooking -----------------------------
(* The instance of Booking for TLC: a booking of two places, a truck for     *)
(* each, and two calls in progress.                                          *)
EXTENDS Booking, TLC

CONSTANTS t1, t2, p1, p2

MCTruckOf == (1 :> t1) @@ (2 :> t2)
=============================================================================
