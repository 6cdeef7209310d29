SPECIFICATION ImagesSpec
CONSTANTS
  NKeys = 2
  MaxContent = 2
  Malformed <- MCNone
  MaxToken = 3
  MaxSyncs = 2
CHECK_DEADLOCK FALSE
INVARIANT PaintListLive
