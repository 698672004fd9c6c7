\* The requests one at a time, the rollback endpoint included: two Sprints of the
\* user's or materialised from two generated ones.
SPECIFICATION SpecWithRollback
CONSTANTS
  Sprints = {s1, s2}
  PBIs = {p1}
  Gens = {g1, g2}
  NoSprint = NoSprint
SYMMETRY Symmetry
CONSTRAINT Bounds
INVARIANTS
  OneActiveSprint
  GeneratedInSync
  CancelledIsEmpty
PROPERTIES
  FinishedIsFinal
  StartTakesItsItems
