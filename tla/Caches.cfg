SPECIFICATION FairSpec
CONSTANTS
  Versions = {v1, v2}
  Admins = {a1, a2}
  Parses = {p1, p2}
  Keys = {k1, k2}
  Users = {u1, u2}
  Checks = {c1}
  Creators = {n1, n2}
  KeyLimit = 1
  MaxChanges = 2
INVARIANTS
  LateIsRefused
PROPERTIES
  CachesCatchUp
CHECK_DEADLOCK FALSE
