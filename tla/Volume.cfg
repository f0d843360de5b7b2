SPECIFICATION Spec
CONSTANTS
  Dir = {a, b, c}
  Proc = {p, q}
  NoDir = NoDir
  None = None
  MaxCalls = 4
  MaxWrites = 1
  MaxFaults = 1
  Inside = FALSE
SYMMETRY Symmetry
INVARIANTS DataKept LinksAgree OwnedOnce
CONSTRAINT Sound
CHECK_DEADLOCK FALSE
