SPECIFICATION TransactionsSpec
CONSTANTS
  Requests = {}
  Limits <- MCLimits
  Lights = {}
  MaxOps = 1
  MaxFaults = 0
  MaxStops = 1
PROPERTIES
  BatteryPolicySurvives
CHECK_DEADLOCK FALSE
