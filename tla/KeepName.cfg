SPECIFICATION Spec
CONSTANTS
  Proc = {p}
  None = None
  B = 64
  CreateSizes = {640}
  NewSizes = {448, 704}
  Ops = {"copy", "mount", "replace"}
  MaxCalls = 3
  MaxFaults = 0
INVARIANT KeepName
CHECK_DEADLOCK FALSE
