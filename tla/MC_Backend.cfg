SPECIFICATION BackendSpec
CONSTANTS
  Requests <- MCRequests
  Limits <- MCLimits
  Lights <- MCLights
  MaxOps = 2
  MaxFaults = 2
  MaxStops = 1
  d1 = d1
  d2 = d2
  p1 = p1
  p2 = p2
  Devices <- MCDevices
  Pids <- MCPids
  QueueLimit = 2
  MaxFlips = 2
  MaxPlugs = 1
  MaxCaptureFaults = 2
SYMMETRY DeviceSymmetry
INVARIANTS
  UndegradedMatchesHardware
  DurableAgrees
  SteamBlockedOnlyWhileCaptured
  CaptureIsCurrent
  AckComing
  NoForgottenPid
PROPERTIES
  RaiseNeedsProtection
  TransactionsAreAtomic
  PreciousFileKept
\* Requests, faults and lease changes are bounded.
CHECK_DEADLOCK FALSE
