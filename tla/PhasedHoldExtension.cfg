SPECIFICATION FairSpec
CONSTANTS
  Holds = {h1}
  Workers = {w1}
  Sweeper = Sweeper
  Reconciler = Reconciler
  None = None
  Base = 2
  Extension = 2
  MaxFlex = 4
  MaxExtensions = 2
  ConfirmedFor = 2
  OrderLives <- MCOrderLives
  Horizon = 7
  Faults = FALSE
PROPERTIES ExtensionHonoured
CHECK_DEADLOCK FALSE
