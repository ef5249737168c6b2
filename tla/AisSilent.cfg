SPECIFICATION FairSpec
CONSTANTS
  ship = ship
  buoy = buoy
  None = None
  Targets = {buoy}
  Thresholds <- MCThresholds
  Levels = {}
  AgeCap = 3
  Capacity = 2
  MaxEmitting = 1
  MaxMessages = 1
PROPERTIES
  SilentIsRemoved
