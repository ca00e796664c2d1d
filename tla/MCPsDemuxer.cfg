SPECIFICATION Spec
CONSTANTS
  Settings <- MCSettings
  Shapes <- MCShapes
  VerifyMax = 4
  ZeroLimit = 1
  MaxFrames = 3
  MaxAudio = 2
  MaxUnits = 6
  MaxWire = 3
INVARIANTS
  TypeOK
  EverythingOnce
  NalsAreWhole
  NothingWithheld
  PtsOfFrame
  TimestampsKeepDistance
PROPERTIES
  OnlyPackHeadersSkipped
CHECK_DEADLOCK FALSE
