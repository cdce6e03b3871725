SPECIFICATION FairSpec
CONSTANTS
  Files = {f1}
  Workers = {w1, w2}
  MaxMessages = 3
  Messages <- MCMessages
  BatchSize = 2
  MaxReceive = 3
  MaxDuplicates = 0
  Fields <- DocumentedFields
  MaxUnusable = 1
  MaxFaults = 1
CHECK_DEADLOCK FALSE
PROPERTY EventuallySettled
