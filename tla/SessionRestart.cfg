SPECIFICATION TimerSpec
CONSTANTS
  MaxGen = 3
  ReadyTicks = 2
  GraceExpires = TRUE
  DisposeAnyTime = FALSE
  GuestExits = TRUE
CHECK_DEADLOCK FALSE
INVARIANTS
  TypeOK
  TickHasItsHosts
  StateOfThisSession
  NothingLeftOpen
  InputReachesItsGuest
  CompressOnOpenTerminal
PROPERTIES
  DisposeEnds
  InputIsTaken
