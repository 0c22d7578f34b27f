SPECIFICATION FairSpec
CONSTANTS
  Tabs = {b1, b2}
  Calls = {q1, q2, q3}
  MaxTokens = 5
  MaxLinks = 1
  MaxCalls = 5
INVARIANTS
  OneLivePerFamily
  SessionsEndWithThePassword
  BrowserKeepsItsSession
PROPERTIES
  LoadingEnds
CHECK_DEADLOCK FALSE
