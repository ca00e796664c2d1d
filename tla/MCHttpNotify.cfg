SPECIFICATION Spec
CONSTANTS
  maxTaskLen = 2
  MaxEvents = 4
INVARIANTS
  TypeOK
  ReceivedInOrder
PROPERTIES
  RefinesLossyFifo
  AcceptedIsPosted
CHECK_DEADLOCK FALSE
