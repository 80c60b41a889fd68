SPECIFICATION SessionsSpec
SYMMETRY Symmetry
CONSTANTS
  Objects = {o1, o2, o3}
  Callers = {r1, r2, sweeper}
  Groups = {q1, q2}
  GroupMax = 1
  Max = 2
  None = None
  Clients = {k1, k2}
  Sweeper = sweeper
  StartBurst = 1
  CreateBurst = 1
INVARIANTS
  SessionsTypeOK
  ClientCap
  OneQuotaPerClient
  RenewedOnce
  NoHoldLeaked
PROPERTIES
  HeldEndsOnlyByAge
