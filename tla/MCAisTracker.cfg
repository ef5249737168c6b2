SPECIFICATION FairSpec
CONSTANTS
  ship = ship
  buoy = buoy
  None = None
  Targets = {ship, buoy}
  Thresholds <- MCThresholds
  Levels = {"warn", "alarm"}
  AgeCap = 3
  Capacity = 1
  MaxEmitting = 1
  MaxMessages = 3
INVARIANTS
  OnlyConfirmedAlarm
  AlarmIsShown
PROPERTIES
  AcquiringSettles
