SPECIFICATION FairSpec
CONSTANTS
  QueueCapacity = 2
  MaxUpdates = 4
  Mixed = TRUE
PROPERTY
  WaitReturns
