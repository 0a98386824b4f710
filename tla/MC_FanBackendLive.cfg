SPECIFICATION FanFairSpec
CONSTANTS
  Policies <- MCCalm
  Requests <- MCCalmRequests
  Capacity = 1
  MaxErrors = 3
  MaxFaults = 2
  MaxOps = 1
  MaxLate = 2
PROPERTIES
  FailedReleaseIsRetried
  OperationsEnd
CHECK_DEADLOCK FALSE
