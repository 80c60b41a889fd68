SPECIFICATION Spec
CONSTANTS
  None = None
  HostId = HostId
  Agent = agent
  Interface <- MCInterface
  Slots = {1, 2}
  Texts = {"k"}
  LastConn = 2
  LastSession = 2
  LastContext = 2
  LastMessage = 2
  LastClick = 3
  LastEvent = 1
INVARIANTS AppSound AtMostOnce NewConversationHeld
PROPERTIES StopSticks
CHECK_DEADLOCK FALSE
