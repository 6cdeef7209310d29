SPECIFICATION FairSpec
CONSTANTS
  Threads = {t1, t2}
  Options <- MCOptions
  MaxTicks = 2
  AskInTick <- MCAskInTick
  MaxVms = 2
  MaxAsks = 1
  MaxImages = 1
  MaxCalls = 3
INVARIANTS
  ToldItsOwnError
  GrantedAsAsked
  AskedIsKept
PROPERTY
  BootReturns
CHECK_DEADLOCK FALSE
