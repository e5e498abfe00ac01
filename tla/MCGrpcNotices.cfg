SPECIFICATION Spec
CONSTANTS
  FilterMaps = {f1}
  ChannelCap = 1
  ResetAfter = 1
  LossWindow = 1
  Initial = 1
  MaxDelay = 2
  Multiplier = 2
  MaxAttempt = 1
  MaxCount = 1
INVARIANT
  AttemptAnnounced
