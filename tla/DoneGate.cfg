\* Three requests at a time on one item, and as many DoD items as two definitions of
\* one and of two items need.
SPECIFICATION Spec
CONSTANTS
  PBIs = {p1}
  DodItems = {d1, d2, d3}
  Requests = {r1, r2, r3}
  NoPBI = NoPBI
  NoItem = NoItem
SYMMETRY Symmetry
CONSTRAINT Bounds
INVARIANTS
  TypeOK
  DefinitionKept
PROPERTIES
  DoneIsVerified
  DoneStays
