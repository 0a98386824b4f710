SPECIFICATION HardwareSpec
CONSTANTS
  Policies <- MCPolicies
  Requests <- MCRequests
  Capacity = 8
  MaxErrors = 3
  MaxFaults = 3
  MaxOps = 2
  MaxLate = 3
  Tables <- MCTables
  EditPoints <- MCEditPoints
  EditTemps = {20, 89}
  EditDuties = {0, 220, 300}
  Sensors <- MCSensors
  Tunings <- MCTunings
  Gaps = {500, 1000}
  MaxEdits = 2
  MaxTicks = 6
  Watts = {1, 2, 3}
  RangeMin = 1
  RangeMax = 2
  SettleTimeout = 2
  Hold = 6
  RetryDelay = 2
  BiosLatency = 5
  FastCaps = {2, 3}
  MaxLimitFaults = 1
INVARIANTS
  NoOrphanDirectMode
  FirmwareWriteIsFenced
  HoldIsLifted
  FansFollowRequests
  ProtectedFansAreFast
  VerifiedLimitsHold
\* Every part is bounded.
CHECK_DEADLOCK FALSE
