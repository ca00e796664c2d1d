SPECIFICATION Spec
CONSTANTS
  c1 = c1
  c2 = c2
  Subscribers <- MCSubscribers
  GopCacheNum = 1
  SingleGopMaxFrameNum = 0
  Kinds <- MCKinds
  MaxMsgs = 4
  MaxSessions = 1
SYMMETRY MCSymmetry
INVARIANTS
  TypeOK
  StartsOnKeyFrame
  HeadersInForce
  InOrderOnce
  NoGapWhileAttached
CHECK_DEADLOCK FALSE
