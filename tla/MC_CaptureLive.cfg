SPECIFICATION CaptureFairSpec
CONSTANTS
  d1 = d1
  d2 = d2
  p1 = p1
  p2 = p2
  Devices = {d1}
  Pids = {p1}
  QueueLimit = 2
  MaxFlips = 2
  MaxPlugs = 1
  MaxCaptureFaults = 2
PROPERTIES
  ReleasesWhenUnwanted
  CapturesWhenWanted
