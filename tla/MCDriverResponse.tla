-------------------------- MODULE MCDriverResponse --------------------------
(* The instance of DriverResponse for TLC: an order of two trucks.  Trucks,  *)
(* vehicles and handlers are interchangeable.                                *)
EXTENDS DriverResponse, TLC

CONSTANTS o1, t1, t2, v1, v2, p1, p2

MCOrderOf == [t \in Trucks |-> o1]
Symmetric == Permutations(Trucks) \union Permutations(Vehicles) \union Permutations(Procs)

\* Bound: once a handler has died or a truck request has gone astray, the handlers
\* run one after another.
OneByOne == (faults = 0 /\ strayed = {}) \/ \E p \in Procs : call[p] = Idle
=============================================================================
