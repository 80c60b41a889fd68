SPECIFICATION InspectorFairSpec
CONSTANTS
  Starts = {start1, start2}
  Stops = {stop1}
  Closers = {hook, deferred}
  Hook = hook
  Deferred = deferred
  LastID = 3
  MaxAgents = 2
  None = None
INVARIANTS
  InspectorTypeOK
  NoProcessForgotten
  AtMostMaxAgents
  SlotsAreFreed
PROPERTIES
  InspectorExits
CHECK_DEADLOCK FALSE
