SPECIFICATION Spec
CONSTANTS
  SigLen = 2
  KeyLen = 1
  Transactions <- MCTransactions
  Provided <- MCProvided
INVARIANTS
  ParsesWhole
  RefusesCut
  SignaturesWhole
  PartsFit
CHECK_DEADLOCK FALSE
