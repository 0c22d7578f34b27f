SPECIFICATION FairSpec
CONSTANTS
  Callers = {"service", "worker"}
  Checkers = {k1, k2}
  Users = {u1}
  Wallets = {"yape", "plin"}
  WalletLimit = 1
  Threshold = 1
  MaxTicks = 2
  MaxChanges = 2
  MaxLosses = 1
INVARIANTS
  MailsPerMark
PROPERTIES
  BeatingIsOnline
  ConfigConverges
CHECK_DEADLOCK FALSE
