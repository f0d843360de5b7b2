SPECIFICATION FairSpec
CONSTANTS
  TopDelta = TopDelta
  NoneUuid = NoneUuid
  Hole = Hole
  NoFile = NoFile
  Guid = {g1, g2}
  File = {f1, f2, f3, f4}
  Block = {b1}
  MaxImages = 2
  MaxWrites = 1
  MaxFaults = 0
  MaxRo = 1
  Ops <- RoOps
INVARIANTS
  ReadOnlyStable
PROPERTIES
  OperationEnds
