SPECIFICATION Spec
CONSTANTS
  Capacity = 1
  MaxDatagrams = 4
INVARIANTS
  TypeOK
  CoversTaken
  ExactAfterClose
