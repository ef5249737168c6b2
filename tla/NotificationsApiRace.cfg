SPECIFICATION Spec
CONSTANTS
  anchor = anchor
  bridge = bridge
  course = course
  None = None
  Paths = {p1}
  Sources = {anchor}
  SpawnedSources = {}
  DirectSources = {}
  PluginSources = {anchor}
  Prio <- EqualPrio
  ApiClients = {a1}
  States = {"normal", "alarm", "emergency"}
  MaxEmits = 3
  MaxCalls = 2
CHECK_DEADLOCK FALSE
INVARIANTS
  ManagerMatchesStore
