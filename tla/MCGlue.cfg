CONSTANTS
  t1 = t1
  t2 = t2
  c1 = c1
  c2 = c2
  p1 = p1
  p2 = p2
  march = march
  customers = customers
  Nobody = Nobody
  Files <- FourFiles
  Transactions <- TwoTransactions
  Customers <- TwoCustomers
  Events <- NoEvents
  Folders <- TwoFolders
  FolderOf <- ByFolder
  Pipelines <- TwoPipelines
  MaxFaults = 2
  MaxRuns = 2
SPECIFICATION Spec
SYMMETRY Symmetric
INVARIANTS
  TypeOK
  SilverCountsRuns
  CustomersEmptyOnlyAfterFailure
  GoldMatchesSilver
  SuccessCoversBronze
CHECK_DEADLOCK FALSE
