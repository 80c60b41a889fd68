SPECIFICATION InspectorSpec
CONSTANTS
  Starts = {start1, start2}
  Stops = {stop1}
  Closers = {hook, deferred}
  Hook = hook
  Deferred = deferred
  LastID = 3
  MaxAgents = 2
  None = None
INVARIANTS
  NoOrphans
CHECK_DEADLOCK FALSE
