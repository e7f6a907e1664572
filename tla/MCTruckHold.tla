---------------------------- MODULE MCTruckHold ----------------------------
(* Model-checking instances of TruckHold: an order of two trucks, two rival  *)
(* transporters; t1 has two vehicles for one driver, so that a driver could  *)
(* be booked twice without the vehicle being.                                *)
EXTENDS TruckHold, TLC

CONSTANTS o1, x1, x2, t1, t2, v1, v2, v3, d1, d2, d3

MCOrderOf == [x \in Trucks |-> o1]
MCFleetOf == [v \in Vehicles |-> IF v = v3 THEN t2 ELSE t1]
MCCrewOf  == [d \in Drivers |-> IF d = d2 THEN t2 ELSE t1]

\* Interchangeable ids; sound for the run that checks no liveness.
Symmetric == Permutations(Holds) \union Permutations(Workers)
=============================================================================
