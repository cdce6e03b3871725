SPECIFICATION Spec
CONSTANTS
  Files = {f1, f2}
  Workers = {w1, w2}
  MaxMessages = 3
  Messages <- MCMessages
  BatchSize = 2
  MaxReceive = 2
  MaxDuplicates = 1
  Fields <- DocumentedFields
  MaxUnusable = 1
  MaxFaults = 1
SYMMETRY SyncSymmetry
CHECK_DEADLOCK FALSE
INVARIANTS
  TypeOK
  ViewAgreesWithVolume
  DeadOnlyForACause
PROPERTIES
  ImplementsDelivery
  ImplementsLatestWins
