SPECIFICATION FairSpec
CONSTANTS
  Items = {n1, n2}
  BatchSize = 2
  BatchesPerRun = 1
  Recheck = 1
  Retention = 2
  MaxChanges = 1
  MaxFaults = 1
PROPERTIES
  DiscardedWasRefused
  EveryItemLeaves
CHECK_DEADLOCK FALSE
