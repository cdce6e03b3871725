SPECIFICATION FairSpec
CONSTANTS
  Messages = {m1, m2}
  Workers = {w1, w2}
  Bodies <- DocumentedBodies
  BatchSize = 2
  MaxReceive = 3
  MaxDuplicates = 1
  EventBus = TRUE
  MaxFaults = 2
CHECK_DEADLOCK FALSE
INVARIANTS
  TypeOK
  PublishedOncePerDelivery
  BusAfterTopic
  CreationDiesOfFaultsOnly
PROPERTIES
  MalformedLeavesWithPublished
  ImplementsDelivery
  EventuallySettled
