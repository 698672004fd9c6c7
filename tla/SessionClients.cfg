\* Two tabs of one browser, two sessions allowed.
SPECIFICATION ClientsSpec
CONSTANTS
  t1 = t1
  t2 = t2
  t3 = t3
  r1 = r1
  r2 = r2
  b1 = b1
  b2 = b2
  Tokens <- MCTokens
  Requests <- MCRequests
  Tabs <- MCTabs
  ResetTokens = {}
  MaxSessions = 2
  None = None
CONSTRAINT Bounds
ACTION_CONSTRAINT InOrder
CHECK_DEADLOCK FALSE
INVARIANTS
  KeptSignedIn
  LogoutSticks
PROPERTY RefreshSettles
