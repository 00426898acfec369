SPECIFICATION PackagesSpec
CONSTANTS
  Waiters = {w1, w2}
  MaxDeadline = 3
  MemberIDs = {5, 9, 10}
  PrefixSpan = 4
  TsSpan = 2
  CntSpan = 2
  MaxNow = 2
  MaxIssued = 3
  Registrars = {r1, r2}
  Exiters = {x1, x2}
  MaxSignals = 2
  N = 2
  Acceptors = {a1, a2}
  Conns = {c1, c2, c3}
  Closers = {g1, g2}
  MaxPairs = 4
  MaxCrashes = 4
  Capacity = 3
  Sizes = {1, 2}
  Second = 1
  MaxTime = 2
  Raters = {q1, q2}
INVARIANTS
  NoMissedTrigger
  IdsKeptApart
  HandlersRunWhole
  WithinLimit
  PairMatches
PROPERTIES
  SignalEndsProcess
  ClosedListenerStops
  KeepsWindow
CHECK_DEADLOCK FALSE
