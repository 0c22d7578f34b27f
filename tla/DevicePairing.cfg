SPECIFICATION Spec
CONSTANTS
  t1 = t1
  t2 = t2
  c1 = c1
  c2 = c2
  c3 = c3
  r1 = r1
  r2 = r2
  r3 = r3
  Tenants = {t1, t2}
  Codes = {c1, c2, c3}
  Requests = {r1, r2, r3}
  Users = {u1}
  Androids = {A1}
  Keys = {K1, K2}
  CodeOf <- CodesOf
  Rollouts <- Modes
  DeviceLimit = 1
  MaxChanges = 2
SYMMETRY Symmetry
INVARIANTS
  CodePairsOneDevice
  OneTrialPerSignal
  UnracedWithinLimit
CHECK_DEADLOCK FALSE
