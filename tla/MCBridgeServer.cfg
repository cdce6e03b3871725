SPECIFICATION Spec
CONSTANTS
  Messages = {m1, m2}
  Workers = {w1}
  Bodies <- ServerBodies
  BatchSize = 2
  MaxReceive = 3
  MaxDuplicates = 0
  EventBus = FALSE
  MaxFaults = 0
CHECK_DEADLOCK FALSE
INVARIANT ServerCreationsPublished
