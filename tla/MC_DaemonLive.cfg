SPECIFICATION DaemonFairSpec
CONSTANTS
  Clients = {}
  Keys = {}
  NoKey = NoKey
  None = None
  Capacity = 3
  Reserve = 2
  MaxRetained = 1
  MaxLifecycleEvents = 2
  SleepCapacity = 2
  MaxSignals = 3
INVARIANTS
  NoNotificationDropped
PROPERTIES
  FollowsLogind
  InvalidationDrained
  TerminateReleases
CHECK_DEADLOCK FALSE
