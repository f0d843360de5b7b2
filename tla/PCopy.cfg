SPECIFICATION FairSpec
CONSTANTS
  N = 3
  MaxWrites = 3
  MaxFail = 1
  Cancels = TRUE
  Raw = FALSE
INVARIANTS TypeOK CopyComplete NeverLooped
PROPERTIES BufferStable LiveSpec CallReturns Thawed
CHECK_DEADLOCK FALSE
