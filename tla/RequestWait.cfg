CONSTANTS
  Requests = {r1, r2}
  IdSpan = 4
  MaxIssued = 3
  MaxGap = 1
  MaxIndex = 2
SPECIFICATION Spec
INVARIANTS
  OneSenderPerChannel
  NoLeak
PROPERTIES
  EveryRequestReturns
CHECK_DEADLOCK FALSE
