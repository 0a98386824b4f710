SPECIFICATION EditorSpec
CONSTANTS
  StockProfiles <- MCStockProfiles
  Custom = "custom-1"
  Levels = {5, 60, 80, 120}
  MaxStrokes = 4
INVARIANT EditorShowsItsProfile
CHECK_DEADLOCK FALSE
