SPECIFICATION FairSpec
CONSTANTS
  QueueCapacity = 2
  MaxUpdates = 6
  Mixed = FALSE
INVARIANTS
  TypeOK
  Conservation
  NoLostWakeup
PROPERTIES
  ImplementsBoundedFeed
  WaitReturns
  CloseReturns
