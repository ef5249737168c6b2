SPECIFICATION FairStreamSpec
CONSTANTS
  gps = gps
  urnSelf = urnSelf
  urnOther = urnOther
  pos = pos
  depth = depth
  None = None
  SelfContext = SelfContext
  ForeignContext = ForeignContext
  Self = urnSelf
  Vessels = {urnSelf}
  Paths = {pos, depth}
  Sources = {gps}
  Vals = {1, 2}
  Label <- MCLabel
  Bodies <- StreamBodies
  PriorityConfigs <- OnlyNoConfig
  TtlConfigs <- OnlyNoConfig
  MaxTime = 1
  MaxDeltas = 2
  Clients = {c1}
  Modes = {"self", "none"}
  SubscribeMsgs <- MixedMsgs
  Capacity = 1
  Period = 1
  MaxConnects = 2
INVARIANTS
  StreamCorrect

  
  
