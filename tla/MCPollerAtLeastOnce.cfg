SPECIFICATION FairSpec
CONSTANTS
  Keys = {1, 2}
  Invocations = {i1}
  StateTable = TRUE
  Interval = 2
  PageSize = 1
  BatchSize = 1
  Deletes = FALSE
  MaxClock = 4
  MaxWrites = 3
  MaxFaults = 0
PROPERTIES
  AtLeastOnceDelivery
CHECK_DEADLOCK FALSE
