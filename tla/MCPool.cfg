SPECIFICATION PoolFairSpec
CONSTANTS
  Objects = {o1, o2, o3}
  Callers = {c1, c2, c3}
  Groups = {g1, g2}
  GroupMax = 1
  Max = 2
  None = None
INVARIANTS
  PoolTypeOK
  NeverDestroyedWhileHeld
  DestroyedOnce
  WithinLimits
PROPERTIES
  OwnVictimFirst
  PoolImplementsCustody
  RemovedIsDestroyed
  ClosedIsDrained
