SPECIFICATION StorageSpec
CONSTANTS
  MaxIndex = 4
  MaxTerm = 2
  MaxBatch = 2
  HardStates <- MCHardStates
  EmptyHardState <- MCEmptyHardState
PROPERTIES
  AppendOverlays
CHECK_DEADLOCK FALSE
