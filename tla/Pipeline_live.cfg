SPECIFICATION FairSpec
CONSTANTS
  Notifications = {n1, n2}
  Requests = {r1}
  Workers = {w1, w2}
  Admins = {a1}
  LastDay = 1
  DailyLimit = 2
  TotalLimit = 2
  MonthlyLimit = 1
  MaxAttempts = 2
  MaxJobStalls = 1
  MaxApiFaults = 0
  MaxWorkerFaults = 1
  MaxLockLosses = 0
  MaxReprocess = 1
  TrialElapses = FALSE
  UpgradeHappens = FALSE
PROPERTIES
  EveryPendingIsParsed
CHECK_DEADLOCK FALSE
