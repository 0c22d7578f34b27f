SPECIFICATION FairSpec
CONSTANTS
  Admins = {a1, a2}
  Schedulers = {s1, s2}
  Counters = {w1, w2}
  RegisteredOn = {30}
  Offered = {"FREE", "COMERCIO"}
  Cycles = {"MONTHLY"}
  Days = {30, 122}
  MonthlyLimit <- Limits
  TrialDays = 3
  MaxChanges = 2
  MaxCounted = 2
  MaxMailFaults = 1
  MaxLost = 1
INVARIANTS
  TrialEndMailedOnce
  ThresholdToldOnce
PROPERTIES
  NoGapBetweenPeriods
  PendingTakesEffect
CHECK_DEADLOCK FALSE
