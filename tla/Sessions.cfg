\* One user, one session allowed, two requests at a time and a password reset.
SPECIFICATION Spec
CONSTANTS
  t1 = t1
  t2 = t2
  t3 = t3
  r1 = r1
  r2 = r2
  k1 = k1
  Tokens = {t1, t2, t3}
  Requests = {r1, r2}
  ResetTokens = {k1}
  MaxSessions = 1
  None = None
SYMMETRY Symmetry
CONSTRAINT Bounds
CHECK_DEADLOCK FALSE
INVARIANTS
  OneSuccessorUnlessShared
  LimitUnlessCrowded
  ResetEndsSessions
PROPERTY ResetOnceUnlessShared
