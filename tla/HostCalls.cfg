SPECIFICATION FairSpec
CONSTANTS
  Isolates = {i1, i2}
  Ops <- MCOps
  Lens = {1, 2}
  Caps = {1}
  MaxCalls = 3
  MaxJobs = 1
CHECK_DEADLOCK FALSE
INVARIANTS
  TypeOK
  WholeIfChecked
PROPERTY JobsEnd
