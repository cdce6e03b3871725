CONSTANTS
  t1 = t1
  t2 = t2
  i1 = i1
  i2 = i2
  NoAddress = NoAddress
  Tasks <- TwoTasks
  Invocations <- TwoInvocations
  MaxAttempts = 2
  MaxFaults = 2
  MaxRuns = 2
SPECIFICATION Spec
SYMMETRY Symmetric
INVARIANTS
  TypeOK
  ExitZeroMeansConfigured
  RunsFailOnlyForACause
  StaleOnlyForACause
CHECK_DEADLOCK FALSE
