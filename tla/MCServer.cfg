SPECIFICATION FairSpec
CONSTANTS
  Connections = {c1, c2}
  DefaultSvm = FSxN_OnPre
  SvmOf <- MCSvmOf
  MaxNotifications = 2
  MaxBuffered = 1
  MaxFaults = 1
  MaxBreaks = 1
CHECK_DEADLOCK FALSE
INVARIANTS
  TypeOK
  InvertedOnlyIfTogether
  RealtimeLosesOnlyFailed
  NothingAfterFailedWrite
PROPERTIES
  ImplementsLanes
  NotificationServed
