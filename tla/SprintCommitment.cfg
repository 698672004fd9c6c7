\* One item in the plans of two Sprints.
SPECIFICATION Spec
CONSTANTS
  Sprints = {s1, s2}
  PBIs = {p1}
  Gens = {g1}
  NoSprint = NoSprint
INVARIANT CommittedToOneSprint
