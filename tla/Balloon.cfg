CONSTANTS
  None = None
  Proc = {p, q}
  N = 3
  L1 = 1
  Layouts <- Images
  Ops = {"inflate", "deflate", "clear", "check", "repair", "complete", "running", "track", "discard"}
  MaxCalls = 2
  MaxFaults = 1
  MaxWrites = 2
SPECIFICATION Spec
INVARIANTS
  GuestContent
  Reclaimed
  NothingStuck
  DiscardAnswered
CHECK_DEADLOCK FALSE
SYMMETRY Symmetry
