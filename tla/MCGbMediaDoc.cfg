SPECIFICATION Spec
CONSTANTS
  Channels = {c1}
  Streams = {n1}
  Ports = {p1, p2}
  Invites = {i1, i2}
  Conns = {k1}
  StopCalls = {}
  ByeCalls = {}
  Nil = Nil
INVARIANTS
  DocOneInviteAtATime
CHECK_DEADLOCK FALSE
