SPECIFICATION Spec
CONSTANTS
  GopCacheNum = 2
  SingleGopMaxFrameNum = 1
  Kinds <- MCKinds
  MaxMsgs <- MCMaxMsgs
INVARIANT
  DocGopFrameLimit
