SPECIFICATION Spec
CONSTANTS
  Works <- MCThreeWorks
  Rows = 2
  MaxLines = 3
  MaxSeq = 4
CHECK_DEADLOCK FALSE
INVARIANTS
  TypeOK
  NoRepeat
PROPERTY SeenIsKept
