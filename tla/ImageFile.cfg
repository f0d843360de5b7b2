SPECIFICATION Spec
CONSTANTS
  NImages = 2
  Words = 2
  BlockSize = 2
  InitSize = 3
  MaxSize = 4
  MaxWrites = 3
  MaxFaults = 2
  Ops = {"grow", "lower", "convert"}
INVARIANTS
  TypeOK
  GuestContentOutside
  CoreMatches
  VersionsAgree
  RecoverableOutside
CHECK_DEADLOCK FALSE
