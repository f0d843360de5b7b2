SPECIFICATION Spec
CONSTANTS
  TopDelta = TopDelta
  NoneUuid = NoneUuid
  Hole = Hole
  NoFile = NoFile
  Guid = {g1, g2}
  File = {f1, f2, f3, f4}
  Block = {b1}
  MaxImages = 2
  MaxWrites = 2
  MaxFaults = 1
  MaxRo = 1
  Ops <- TempOps
INVARIANTS
  OnlineContent
  ReadOnlyStable
SYMMETRY GuidSymmetry
