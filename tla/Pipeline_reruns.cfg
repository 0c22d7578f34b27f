SPECIFICATION Spec
CONSTANTS
  Notifications = {n1, n2}
  Requests = {r1}
  Workers = {w1, w2}
  Admins = {a1}
  LastDay = 1
  DailyLimit = 1
  TotalLimit = 2
  MonthlyLimit = 1
  MaxAttempts = 2
  MaxJobStalls = 1
  MaxApiFaults = 1
  MaxWorkerFaults = 0
  MaxLockLosses = 1
  MaxReprocess = 1
  TrialElapses = FALSE
  UpgradeHappens = TRUE
SYMMETRY Symmetry
INVARIANTS
  UsedMatchesTransactions
CHECK_DEADLOCK FALSE
