SPECIFICATION Spec
CONSTANTS
  MaxHandle = 3
  WsSendMark = 2
  NetRelay = TRUE
  HostCallRelay = TRUE
  SidecarOnly = FALSE
  PersistRelay = TRUE
  Lens <- MCLen1
  ReadCaps = {}
  PullFits <- MCFitsOrNot
  MaxAllocs = 3
  MaxEvents = 2
  MaxIncoming = 1
CHECK_DEADLOCK FALSE
INVARIANTS
  TypeOK
  AnswersMatch
  FramesInOrder
PROPERTY ImplementsContract
