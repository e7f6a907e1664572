SPECIFICATION FairSpec
CONSTANTS
  t1 = t1
  t2 = t2
  p1 = p1
  p2 = p2
  Assignments = {1, 2}
  Trucks = {t1, t2}
  TruckOf <- MCTruckOf
  Needed = 2
  Procs = {p1, p2}
  None = None
  MaxEvents = 1
INVARIANTS TypeOK FullMeansFull FilledIsBacked
PROPERTIES EndStands KeepsPlaces Settles
CHECK_DEADLOCK FALSE
