SPECIFICATION MCSpec
CONSTANTS
  helm = helm
  chart = chart
  Nobody = Nobody
  Plugins = {helm, chart}
  BridgePlugins = {js}
  Wants <- MCWants
  HandledPaths = {rudder}
  PutPath <- MCPutPath
  Clients = {c1, c2}
  MaxRequests = 2
  Blank = Blank
  BaseSpeed = 100
  Variation <- MCVariation
  MaxSimTicks = 1
  MaxSimStarts = 2
  own = own
  other = other
  NoSuch = NoSuch
  Malformed = Malformed
  OwnContexts = {own}
  TrackDeltas <- MCTrackDeltas
  TrackConfigs <- MCTrackConfigs
  TrackRequests <- MCTrackRequests
  MaxSightings = 3
  MaxTrackStarts = 2
  MaxMinutes = 6
  gps = gps
  ais = ais
  buoy = buoy
  urnSelf = urnSelf
  urnOther = urnOther
  pos = pos
  depth = depth
  None = None
  SelfContext = SelfContext
  ForeignContext = ForeignContext
  Self = urnSelf
  Vessels = {urnSelf, urnOther}
  Paths = {pos, depth}
  Sources = {gps, ais, buoy}
  Vals = {1, 2}
  Label <- MCLabel
  Bodies <- MCBodies
  PriorityConfigs <- MCPriorities
  TtlConfigs <- MCTtls
  MaxTime = 1
  MaxDeltas = 3
SYMMETRY Symmetry
CHECK_DEADLOCK FALSE
INVARIANTS
  ActiveMatchesRetained
  BroadcastAgreesWithStore
  
  OneGeneration
  TablesAgree
  
  TracksCorrect
  UnitsAgree
PROPERTIES
  PriorityKept
  BridgeHandlersKept
