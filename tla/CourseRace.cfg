SPECIFICATION CourseSpec
CONSTANTS
  north = north
  NoCourse = NoCourse
  Torn = Torn
  Navigators = {a1, a2}
  Destinations = {7}
  NmeaDestinations = {}
  Hrefs = {north}
  Routes <- OneRoute
  Radius = 1
  Times = {}
  ResolveFails = FALSE
  DiskFails = FALSE
  ArrivalCheck = FALSE
  MaxOps = 2
  MaxRestarts = 0
CHECK_DEADLOCK FALSE
INVARIANTS
  MirrorsAgree
