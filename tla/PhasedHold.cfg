SPECIFICATION FairSpec
CONSTANTS
  Holds = {h1}
  Workers = {w1, w2}
  Sweeper = Sweeper
  Reconciler = Reconciler
  None = None
  Base = 1
  Extension = 2
  MaxFlex = 2
  MaxExtensions = 2
  ConfirmedFor = 1
  OrderLives = {2}
  Horizon = 3
  Faults = TRUE
INVARIANTS TypeOK FlexBounded
PROPERTIES ConfirmedFixed BaseHonoured KeepsTimes FlexEnds
CHECK_DEADLOCK FALSE
