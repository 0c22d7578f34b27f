SPECIFICATION FairSpec
CONSTANTS
  Events = {v1, v2}
  Endpoints = {e1}
  Workers = {w1, w2}
  MaxDeliveryAttempts = 2
  DisableAfter = 2
  MaxJobStalls = 1
  MaxRetries = 1
  MaxCrashes = 1
  MaxErrors = 1
  MaxEdits = 1
  MaxDisturbances = 1
  NoDelivery = NoDelivery
INVARIANTS
  ChainsBounded
  SustainedFailuresDisable
PROPERTIES
  KeepsDeliveryPromise
  EveryDeliverySettles
CHECK_DEADLOCK FALSE
