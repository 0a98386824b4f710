SPECIFICATION DaemonSpec
CONSTANTS
  Clients = {c1}
  Keys = {k1}
  NoKey = NoKey
  None = None
  Capacity = 3
  Reserve = 2
  MaxRetained = 1
  MaxLifecycleEvents = 2
  SleepCapacity = 1
  MaxSignals = 2
INVARIANTS
  OpenLifecycleAdmits
  NeverStranded
PROPERTIES
  Spec
CHECK_DEADLOCK FALSE
