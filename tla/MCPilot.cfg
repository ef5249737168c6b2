SPECIFICATION MCSpec
CONSTANTS
  Angle = 2
  Rudders = {0, 1}
  SensorTimeout = 1
  HeadingRate = 1
  GlitchMax = 2
  OutputEvery = 2
  TargetAngles = {1}
  Headings = {0, 2}
  InitialMode = "compass"
  Aboard = {"headingMagnetic", "bearingTrackTrue"}
  Absent = Absent
  MaxAge = 2
  MaxCalls = 2
  MaxStarts = 1
  Half = 3
  Gains <- MCGains
  DeadZone = 1
  MaxRudder = 3
  IntegralLimit = 2
  MaxRate = 1
  SpeedNominal = 2
  RecoveryThreshold = 2
  RecoveryTicks = 3
  RecoveryFactor = 2
  FeedbackThreshold = 1
  FeedbackTicks = 2
  Errors <- MCErrors
  DErrors <- MCDErrors
  Speeds = {0, 8}
  FeedForwards <- MCDErrors
  Actuals <- MCActuals
  Steps = {1, 2}
  NoReading = NoReading
  Distances = {0, 1, 2}
  Radii = {1}
  Unheard = Unheard
  MaxFixes = 4
  MaxAnchorStarts = 2
CHECK_DEADLOCK FALSE
INVARIANTS
  OffIsOff
  ControlBounded
  AnchorCorrect
PROPERTIES
  SilentSensorDisengages
