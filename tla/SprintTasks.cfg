\* Three users, one of them the Product Owner, one task, two requests at a time.
SPECIFICATION Spec
CONSTANTS
  u1 = u1
  u2 = u2
  u3 = u3
  Users <- MCUsers
  MaxSize = 3
  None = None
  Keep = Keep
  Tasks = {t1}
  Items <- MCItems
  Requests = {r1, r2}
  Hours = {0, 1}
  Edits <- MCEdits
SYMMETRY Symmetry
CONSTRAINT Bounds
CHECK_DEADLOCK FALSE
INVARIANTS
  OneLeaderUnlessRaced
  AssigneesAreMembers
  BurndownIsTheSum
PROPERTIES
  StepsFollowWorkflow
  NobodyApprovesHisOwn
