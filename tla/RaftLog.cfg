SPECIFICATION Spec
CONSTANTS
  MaxIndex = 3
  MaxTerm = 2
  MaxBatch = 2
  MaxPeers = 2
  HardStates <- MCHardStates
  EmptyHardState <- MCEmptyHardState
INVARIANTS
  SliceServed
PROPERTIES
  StorageNeverPanics
  RefinesAbstractLog
CHECK_DEADLOCK FALSE
