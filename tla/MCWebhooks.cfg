SPECIFICATION WebhooksSpec
SYMMETRY Symmetry
CONSTANTS
  Conns = {k1, k2}
  Tasks = {t1}
  Contexts = {x1}
  Calls = {c1, c2}
  Notifiers = {n1}
  Hooks = {w1, w2}
  LastCall = 2
  MayBreak = FALSE
  None = None
  Rejection = Rejection
  Done = Done
INVARIANTS
  TakenStays
  HooksSound
PROPERTIES
  NoSecondConfig
CHECK_DEADLOCK FALSE
