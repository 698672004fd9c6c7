\* Two requests at a time on two Sprints and a generated one to materialise.
SPECIFICATION ReqSpec
CONSTANTS
  Sprints = {s1, s2}
  PBIs = {p1}
  Gens = {g1}
  NoSprint = NoSprint
  Workers = {w1, w2}
SYMMETRY Symmetry
CONSTRAINT Bounds
INVARIANTS
  RequestsTypeOK
  OneActiveUnlessStartsMeet
  InSyncUnlessRaced
PROPERTIES
  StartedStaysUnlessRaced
  StartTakesUnlessRaced
