SPECIFICATION MCSpec
CONSTANTS
  Ids = {i1}
  Values = {v1, v2}
  Handlers = {r1, r2}
  Inodes = {1, 2, 3, 4, 5}
  Missing = Missing
  MaxResourceCalls = 3
  MaxServerRestarts = 1
  a = a
  b = b
  c1 = c1
  c2 = c2
  Keys = {a, b}
  Vals = {1, 2}
  Puts <- MCPuts
  SeedMap <- MCSeed
  Configs = {c1, c2}
  FirstEntry <- MCFirst
  Absent = Absent
  Slots = {s1, s2}
  MaxRequests = 3
  MaxConfigCrashes = 1
  Samples = {h1, h2}
  Delays = {0, 2}
  RetentionRaw = 1
  RetentionDaily = 2
  MaxHalfDays = 5
  MaxHistoryCrashes = 1
  PathMethods <- MCMethods
  Seconds = {0, 59, 70}
  Readings <- MCReadings
  Requests <- MCRequests
  Now = 80
  NoColumn = NoColumn
  north = north
  NoCourse = NoCourse
  Torn = Torn
  Navigators = {n1, n2}
  Destinations = {7}
  NmeaDestinations = {8}
  Hrefs = {north}
  Routes <- LongRoute
  Radius = 1
  Times = {noon}
  ResolveFails = TRUE
  DiskFails = TRUE
  ArrivalCheck = TRUE
  MaxOps = 3
  MaxRestarts = 1
  anchor = anchor
  course = course
  None = None
  Paths = {p1}
  Sources = {anchor, course}
  SpawnedSources = {anchor}
  DirectSources = {course}
  PluginSources = {anchor}
  Prio <- AnchorFirst
  ApiClients = {a1, a2}
  States = {"normal", "alarm", "emergency"}
  MaxEmits = 3
  MaxCalls = 2
  PresetNames = {"metric", "mine"}
  Shipped <- MCShipped
  SavedPresets <- MCPresets
  SavedDefinitions <- MCDefinitions
  SavedCategories <- MCCategories
  UnitClients = {u1, u2}
  UnitPaths <- MCPaths
  NoFile = NoFile
  Spoilt = Spoilt
  Off = Off
  MaxUnitCalls = 3
  MaxUnitStarts = 1
SYMMETRY Symmetry
CHECK_DEADLOCK FALSE
INVARIANTS
  CourseCorrect
  
  
  ResourcesCorrect
  ConfigCorrect
  
  
  

  
