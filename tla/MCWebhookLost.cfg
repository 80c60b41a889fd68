SPECIFICATION WebhooksSpec
SYMMETRY Symmetry
CONSTANTS
  Conns = {k1}
  Tasks = {t1}
  Contexts = {x1}
  Calls = {c1}
  Notifiers = {}
  Hooks = {w1}
  LastCall = 1
  MayBreak = TRUE
  None = None
  Rejection = Rejection
  Done = Done
INVARIANT TakenStays
CHECK_DEADLOCK FALSE
