SPECIFICATION Spec
CONSTANTS
  Notifications = {n1, n2, n3}
  Requests = {r1}
  Workers = {w1, w2}
  Admins = {}
  LastDay = 2
  DailyLimit = 2
  TotalLimit = 2
  MonthlyLimit = 1
  MaxAttempts = 2
  MaxJobStalls = 1
  MaxApiFaults = 1
  MaxWorkerFaults = 1
  MaxLockLosses = 0
  MaxReprocess = 0
  TrialElapses = TRUE
  UpgradeHappens = FALSE
SYMMETRY Symmetry
INVARIANTS
  QuotaWithinLimits
  AckedIsStored
  ReservedCoversHeld
  TrialClosedAtTotal
PROPERTIES
  KeepsPromise
CHECK_DEADLOCK FALSE
