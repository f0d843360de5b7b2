SPECIFICATION Spec
CONSTANTS
  Proc = {p, q}
  None = None
  B = 64
  CreateSizes = {630}
  NewSizes = {448, 682, 704}
  Ops = {"create", "restore", "snapshot", "copy", "mount", "umount", "resize",
         "grow", "replace", "convert", "max", "check"}
  MaxCalls = 3
  MaxFaults = 1
INVARIANTS DescriptorFits FsFits DeviceFound NothingLeft
CONSTRAINT Sound
SYMMETRY Symmetry
CHECK_DEADLOCK FALSE
