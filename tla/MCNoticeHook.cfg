SPECIFICATION FairSpec
CONSTANTS
  Callbacks = {c1, c2, c3}
  Requested = 4
  RawSizes = {0, 4, 8, 10}
INVARIANTS
  TypeOK
  NoCallAfterClose
PROPERTIES
  DeliveredToCurrent
  SetReturns
  CloseReturns
CHECK_DEADLOCK FALSE
