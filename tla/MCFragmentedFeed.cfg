SPECIFICATION Spec
CONSTANTS
  whole = whole
  pair = pair
  long = long
  short = short
  Byte <- MCByte
  Tx <- MCTx
  Message <- MCMessage
  Cuts <- MCCuts
  Foreign <- MCForeign
  SeqMax = 4
  U8Max = 3
  SlotBytes = 2
  MaxSent = 5
  MaxPushes = 4
INVARIANTS
  TypeOK
  ExactReassembly
  CountedOnce
PROPERTY GivenUpForAReason
CHECK_DEADLOCK FALSE
