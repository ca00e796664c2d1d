SPECIFICATION Spec
CONSTANTS
  Channels = {c1, c2}
  Streams = {n1}
  Ports = {p1}
  Invites = {i1, i2}
  Conns = {k1}
  StopCalls = {}
  ByeCalls = {bye}
  Nil = Nil
INVARIANTS
  TypeOK
  MapHoldsLive
PROPERTIES
  ChannelIsFreed
CHECK_DEADLOCK FALSE
