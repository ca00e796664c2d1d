SPECIFICATION Spec
CONSTANTS
  Channels = {c1}
  Streams = {n1}
  Ports = {p1}
  Invites = {i1}
  Conns = {k1, k2}
  StopCalls = {stop}
  ByeCalls = {}
  Nil = Nil
INVARIANTS
  RegisteredIsAlive
PROPERTIES
  PublisherGoes
CHECK_DEADLOCK FALSE
