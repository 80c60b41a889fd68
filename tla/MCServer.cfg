SPECIFICATION ServerSpec
CONSTANTS
  Objects = {o1, o2}
  Callers = {r1, r2, sweeper}
  Groups = {q1}
  GroupMax = 1
  Max = 1
  None = None
  Clients = {k1}
  Sweeper = sweeper
  StartBurst = 1
  CreateBurst = 1
  Connections = {conn1, conn2}
  Followers = {ui}
  Capacity = 1
  MaxBytes = 0
  MaxFrames = 1
  QueueSize = 1
  LastID = 2
  AtOnce = 1
  Weights = {1}
PROPERTIES
  RequestsAnswered
  IdleEnds
  OverIsShown
