SPECIFICATION FairSpec
CONSTANTS
  FilterMaps = {f1, f2}
  ChannelCap = 2
  ResetAfter = 2
  LossWindow = 2
  Initial = 1
  MaxDelay = 2
  Multiplier = 2
  MaxAttempt = 2
  MaxCount = 0
INVARIANTS
  TypeOK
  CurrentFilters
  ErrorNotLost
  BackoffKept
PROPERTIES
  ImmediateReconnectsSpaced
  EndIsFinal
  ImplementsUpdateStream
  Recovers
