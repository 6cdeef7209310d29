SPECIFICATION Spec
CONSTANTS
  MaxGen = 2
  ReadyTicks = 2
  GraceExpires = FALSE
  DisposeAnyTime = TRUE
  GuestExits = TRUE
CHECK_DEADLOCK FALSE
INVARIANT NothingLeftOpen
