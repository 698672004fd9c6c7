\* Two requests at a time on two Increments of one Sprint.
SPECIFICATION Spec
CONSTANTS
  Incs = {i1, i2}
  Sprints = {s1}
  PBIs = {p1}
  Workers = {w1, w2}
  None = None
SYMMETRY Symmetry
CONSTRAINT Bounds
INVARIANTS
  OneOpenUnlessStrained
PROPERTY
  DeliveredIsFinal
