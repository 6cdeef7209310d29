SPECIFICATION ImagesSpec
CONSTANTS
  NKeys = 2
  MaxContent = 3
  Malformed <- MCSecond
  MaxToken = 4
  MaxSyncs = 2
CHECK_DEADLOCK FALSE
INVARIANTS
  NoImageLeak
  SettledPaint
PROPERTY PaintNeverGoesBack
