SPECIFICATION Spec
CONSTANTS
  Tokens = {"b1", "b2", "u1", "u2", "n", "q", "c"}
  Heads <- MCHeads
  MinPrefix = 2
  ReadyTicks = 2
  Heights = {1, 2}
  MaxChunk = 2
  MaxOut = 3
  MaxAnswers = 2
CHECK_DEADLOCK FALSE
INVARIANTS
  TypeOK
  FrameUpToDate
  PaintedInOrder
  AnswersSentOnce
