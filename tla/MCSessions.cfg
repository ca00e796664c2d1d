SPECIFICATION Spec
CONSTANTS
  c1 = c1
  p1 = p1
  p2 = p2
  Subscribers <- MCSubscribers
  Publishers <- MCPublishers
  Kinds <- MCKinds
  Setups <- MCSetups
  FrameSize <- MCFrameSize
  GopCacheNum = 1
  SingleGopMaxFrameNum = 0
  MaxMsgs = 5
  MaxSessions = 2
  MaxLosses = 1
  MaxPayload = 3
  FragmentSamples = 1
  WriteChanSize = 3
  EncodeWrites = 2
  MaxSend = 1
  MaxEarly = 3
  PktChanSize = 1
INVARIANTS
  TypeOK
  NothingLostOnTheWay
  HlsHasEveryFrame
PROPERTIES
  HlsMuxersClosed
  ViewerReleased
  LalMovesOn
  
CHECK_DEADLOCK FALSE
