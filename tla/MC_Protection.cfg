SPECIFICATION ProfilesSpec
CONSTANTS
  Builtins = {"balanced", "turbo"}
  Customs = {"c1"}
  Fallback = "balanced"
  AutoSwitch = TRUE
  MaxEvents = 4
  MaxFaults = 0
INVARIANT UnlockedOnlyIfConfirmed
CHECK_DEADLOCK FALSE
