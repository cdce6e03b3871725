CONSTANTS
  f1 = f1
  f2 = f2
  scanned1 = scanned1
  x1 = x1
  Files <- OneFile
  Ids <- SlashIds
  Kind <- SlashKind
  Order <- OneOrder
  ScannedAs <- SlashScannedAs
  Executions <- MCExecutions
  MaxRecords = 1
  MaxConcurrency = 1
  MaxFiles = 2
  PageSize = 1
  BatchSize = 1
  MaxOps = 1
  MaxDemos = 0
  Embeddings = TRUE
SPECIFICATION Spec
INVARIANT OneVersionPerFile
CHECK_DEADLOCK FALSE
