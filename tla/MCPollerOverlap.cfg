SPECIFICATION Spec
CONSTANTS
  Keys = {1, 2}
  Invocations = {i1, i2}
  StateTable = TRUE
  Interval = 2
  PageSize = 1
  BatchSize = 1
  Deletes = TRUE
  MaxClock = 3
  MaxWrites = 3
  MaxFaults = 1
SYMMETRY InvocationSymmetry
INVARIANTS
  TypeOK
  MissedOnlyInSkippedSeconds
  NoDuplicateNotification
PROPERTIES
  SavesOnlyPublished
  CheckpointMovesForward
CHECK_DEADLOCK FALSE
