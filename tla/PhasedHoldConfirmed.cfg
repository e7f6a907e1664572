SPECIFICATION FairSpec
CONSTANTS
  Holds = {h1}
  Workers = {w1}
  Sweeper = Sweeper
  Reconciler = Reconciler
  None = None
  Base = 1
  Extension = 1
  MaxFlex = 3
  MaxExtensions = 2
  ConfirmedFor = 1
  OrderLives = {2}
  Horizon = 5
  Faults = TRUE
PROPERTIES ConfirmedEnds
CHECK_DEADLOCK FALSE
