SPECIFICATION Spec
CONSTANTS
  j1 = j1
  i1 = i1
  i2 = i2
  Jobs = {j1}
  Instances = {i1, i2}
  None = None
  Lowest = 2
  Normal = 1
  PriorityOf <- MCPriorityOf
  MaxAttempts = 2
  Twins = {0, 1, 2}
  MaxUpsets = 1
  MaxFaults = 1
INVARIANTS TypeOK NothingLostWithoutFault DeadLetterExhausted RunsAlone HashIsExact
PROPERTIES KeepsLives EveryJobEnds
