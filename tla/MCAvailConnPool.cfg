SPECIFICATION Spec
CONSTANTS
  c1 = c1
  c2 = c2
  Callers <- MCCallers
  W = 8
  MinPort = 3
  MaxPort = 6
INVARIANTS
  TypeOK
  FailsOnlyAfterFullRound
PROPERTIES
  ReusedAfterAllOthers
  AcquireReturns
