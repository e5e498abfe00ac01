SPECIFICATION Spec
CONSTANTS
  ValidKeys = {"good"}
  Batches <- MCBatches
  Names = {n1, n2}
  Endpoints <- MCEndpoints
  MAX_NAMED_FILTERS = 1
  MAX_KEYS_PER_FILTER = 1
INVARIANTS
  TypeOK
  RequestsSound
  RefusedForNumber
  EndpointRule
CHECK_DEADLOCK FALSE
