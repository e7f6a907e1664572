SPECIFICATION FairSpec
CONSTANTS
  o1 = o1  x1 = x1  x2 = x2  t1 = t1  t2 = t2
  v1 = v1  v2 = v2  v3 = v3  d1 = d1  d2 = d2  d3 = d3
  Orders = {o1}
  Trucks = {x1}
  Holds = {h1, h2}
  Transporters = {t1, t2}
  Vehicles = {v1, v3}
  Drivers = {d1, d2}
  Workers = {w1}
  Sweeper = Sweeper
  None = None
  OrderOf <- MCOrderOf
  FleetOf <- MCFleetOf
  CrewOf <- MCCrewOf
  DurableJobs = TRUE
  ReleaseMayFail = TRUE
INVARIANTS VehicleHeldIffNeeded HeldIsCovered
PROPERTIES ClosedStaysClosed HoldIsClosed
CHECK_DEADLOCK FALSE
