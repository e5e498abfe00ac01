SPECIFICATION Spec
CONSTANTS
  Callbacks = {c1}
  Requested = 4
  RawSizes = {4}
INVARIANT
  ClampNoticed
CHECK_DEADLOCK FALSE
