SPECIFICATION MCSpec
CONSTANTS
  p1 = p1
  put_path = put_path
  JsPlugins = {p1}
  PutPaths = {put_path}
  PathOf <- MCPathOf
  Unset = Unset
  FixedToken = FALSE
  HttpClients = {c1}
  MaxForwards = 1
  MaxServerStarts = 2
  MaxBridgeStarts = 2
  MaxReloads = 1
  MaxValues = 3
  MaxWire = 2
  MaxOutages = 2
  m1 = m1
  m2 = m2
  m3 = m3
  Blank = Blank
  Links = {l1, l2}
  Lines <- MCLines
  Frames <- MCFrames
  Exclusive = TRUE
  Buffered = 1
  MaxLines = 3
  MaxFrames = 2
  MaxUnplugs = 1
  MaxReceiveStarts = 2
  NmeaClients = {n1}
  ShownDeltas <- MCShown
  Lagging = 2
  Address = 100
  MaxHeard = 3
  MaxTicks = 2
  MaxSendStarts = 2
  NoValue = NoValue
  Circle = 8
  ShiftThreshold = 1
  Formula <- MCFormula
  Disabled <- MCDisabled
  SensorDeltas <- MCSensorDeltas
  MaxSensed = 3
  MaxDerivedStarts = 1
CHECK_DEADLOCK FALSE
INVARIANTS
  BridgeConsistent
  BundleCorrect
  OneTalkerPerMessage
  
  SentAsOwned
  FixpointReached
PROPERTIES
  
  StreamResumes
  
  
  DerivedSettles
