SPECIFICATION Spec
CONSTANTS
  o1 = o1
  w1 = w1
  w2 = w2
  a1 = a1
  a2 = a2
  Orders = {o1}
  Workers = {w1, w2}
  Admins = {a1, a2}
  None = None
  MaxAttempts = 2
  MaxRedrives = 2
  MaxFaults = 2
CHECK_DEADLOCK FALSE
INVARIANTS TypeOK OneOwner DlqExhausted
PROPERTIES DispatchedIsFinal AnnouncesCancellations EveryRowEnds
