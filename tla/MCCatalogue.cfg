CONSTANTS
  f1 = f1
  f2 = f2
  scanned1 = scanned1
  x1 = x1
  Files <- MCFiles
  Ids <- SameIds
  Kind <- SameKind
  Order <- MCOrder
  ScannedAs <- SameScannedAs
  Executions <- MCExecutions
  MaxRecords = 2
  MaxConcurrency = 2
  MaxFiles = 2
  PageSize = 1
  BatchSize = 2
  MaxOps = 2
  MaxDemos = 1
  Embeddings = TRUE
SPECIFICATION Spec
INVARIANTS
  TypeOK
  ViewCatchesUp
  SucceedsOnlyWithoutFiles
  FailsOnlyForACause
  SearchOutlivesOnlyDeletions
CHECK_DEADLOCK FALSE
