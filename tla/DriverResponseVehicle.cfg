SPECIFICATION Spec
CONSTANTS
  o1 = o1
  t1 = t1
  t2 = t2
  v1 = v1
  v2 = v2
  p1 = p1
  p2 = p2
  Orders = {o1}
  Trucks = {t1, t2}
  Vehicles = {v1, v2}
  Assignments = {1, 2, 3}
  Procs = {p1, p2}
  None = None
  OrderOf <- MCOrderOf
  MaxEvents = 0
CHECK_DEADLOCK FALSE
INVARIANTS OneLivePerVehicle
