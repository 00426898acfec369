SPECIFICATION ServerSpec
CONSTANTS
  Stoppers = {t1, t2, t3}
  Procs = {p1, p2}
  MaxCrashes = 2
  Users = {u1, u2}
INVARIANTS
  CreateNeverPanics
  RunningKeepsItsLog
PROPERTIES
  NoAddAfterStopping
  ErrorStopsServer
  SecondStartIsMember
  BackendIsGivenUp
  CloseReturns
  CommitEnds
CHECK_DEADLOCK FALSE
