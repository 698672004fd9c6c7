\* Two users of one team, two scheduled deletions, two requests at a time.
SPECIFICATION Spec
CONSTANTS
  u1 = u1
  u2 = u2
  d1 = d1
  d2 = d2
  r1 = r1
  r2 = r2
  Users <- MCUsers
  Deletions <- MCDeletions
  Requests <- MCRequests
  MaxSize = 2
  None = None
CONSTRAINT Bounds
ACTION_CONSTRAINT InOrder
CHECK_DEADLOCK FALSE
INVARIANTS
  OnePendingUnlessRaced
  CancelledIsKept
PROPERTIES
  LastOwnerGoesLate
  OverdueEnds
