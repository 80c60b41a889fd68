SPECIFICATION TrafficSpec
CONSTANTS
  Connections = {conn1}
  Followers = {ui}
  Capacity = 2
  MaxBytes = 4
  MaxFrames = 1
  QueueSize = 1
  LastID = 3
  AtOnce = 2
  Weights = {1}
  None = None
INVARIANTS
  TrafficSound
  FollowersAgree
PROPERTIES
  FinishedStays
