SPECIFICATION FairSpec
CONSTANTS
  MaxHandle = 2
  WsSendMark = 2
  NetRelay = TRUE
  HostCallRelay = TRUE
  SidecarOnly = TRUE
  PersistRelay = TRUE
  Lens <- MCLens12
  ReadCaps <- MCCap1
  PullFits <- MCFits
  MaxAllocs = 2
  MaxEvents = 3
  MaxIncoming = 1
CHECK_DEADLOCK FALSE
INVARIANTS
  WsBacklogExact
  RecvCursorInMessage
PROPERTIES
  RequestsAnswered
  BlockedSenderResumes
