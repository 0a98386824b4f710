SPECIFICATION DesktopSpec
CONSTANTS
  Builtins = {"balanced", "turbo"}
  Customs = {"c1"}
  Fallback = "balanced"
  AutoSwitch = TRUE
  MaxEvents = 3
  MaxFaults = 1
  MainWindow = 1
  FansWindow = 4
  Dialogs = {2}
  HudWindow = 3
  MAX_WINDOWS = 3
  MaxShown = 4
  StockProfiles <- MCStockProfiles
  Custom = "custom-1"
  Levels = {5, 60, 80, 120}
  MaxStrokes = 4
  MaxRevisions = 2
  MaxCrashes = 2
  MaxDiskFaults = 2
INVARIANTS
  SettledIsSelected
  ThreadsFollowTheOverlay
  EditsAreSound
  ConfigurationIsKept
\* Events are bounded; a desktop with nothing to do stops.
CHECK_DEADLOCK FALSE
