\* Two instances with two connections each, two requests.
SPECIFICATION Spec
CONSTANTS
  Instances = {i1, i2}
  Callers = {c1, c2}
  Slots = {1, 2}
  MaxRetries = 2
  MaxVersion = 2
  None = None
CONSTRAINT FewHolds
INVARIANTS
  OneInitializer
PROPERTIES
  ServedNeverOlder
  EveryCallAnswered
