SPECIFICATION PageSpec
CONSTANTS
  None = None
  Nothing = None
  HostId = HostId
  NoCheck = NoCheck
  Refs <- MCRefs
  Leads <- MCLeads
  Offers <- MCOffers
  Custom <- MCCustom
  Cards = {"k1", "k2"}
  Listings <- MCListings
  SharedList <- MCShared
  Startups <- MCSharedStartups
  MayLackCatalog = TRUE
  Uuids = {"n1", "n2"}
  LastId = 3
  LastStep = 2
  Stored <- MCStored
  Values = {"a", "b"}
  LastSecret = 4
  LastFormStep = 3
  Transcript <- MCTranscript
  FieldTexts = {"", "1", "x"}
  Numerals = {"1"}
  LastFile = 2
  LastChatStep = 4
  TaskIds = {"t1"}
  ConfigIds = {"p1"}
  Wires <- MCWires
  Bases = {"b"}
  MaxNotices = 1
  AtOnce = 2
  LastNotice = 1
  LastCall = 3
  LastTaskStep = 3
  Streams <- MCStreams
  LastChunk = 3
  Delegable <- MCDelegable
  LastHostConn = 3
  LastHostEvent = 2
  LastHostStep = 2
  LastHostLoss = 1
  Drafts <- MCDrafts
  Schemas <- MCSchemas
  Templates <- MCTemplates
  Typeable = {"x", "Q"}
  Reports <- MCReports
  LastEdit = 3
INVARIANT StartupShown
CHECK_DEADLOCK FALSE
