SPECIFICATION Spec
CONSTANTS
  c1 = c1
  c2 = c2
  k1 = k1
  k2 = k2
  Clients = {c1, c2}
  Keys = {k1, k2}
  NoKey = NoKey
  None = None
  Capacity = 4
  Reserve = 2
  MaxRetained = 1
  MaxLifecycleEvents = 1
SYMMETRY MCSymmetry
INVARIANTS
  BarriersAlwaysFit
  WorkNeedsOpenBackend
  NothingBehindBarrier
  StoreAgrees
  RefusedNeverRuns
  OutcomesTellTheTruth
PROPERTIES
  TerminalIsFinal
  SerialSpec
CHECK_DEADLOCK FALSE
