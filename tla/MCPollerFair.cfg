SPECIFICATION FairSpec
CONSTANTS
  Keys = {1, 2}
  Invocations = {i1}
  StateTable = TRUE
  Interval = 2
  PageSize = 1
  BatchSize = 1
  Deletes = TRUE
  MaxClock = 4
  MaxWrites = 3
  MaxFaults = 1
PROPERTIES
  NotifiedUnlessSkipped
CHECK_DEADLOCK FALSE
