SPECIFICATION Spec
CONSTANTS
  NBits = 3
  ChunkBits = 2
  MaxExtents = 1
  Uuid = {u1, u2}
  None = None
  MaxDeltas = 3
  MaxCalls = 4
  MaxWrites = 2
  MaxFaults = 1
INVARIANTS
  TypeOK
  ChangesTracked
  TrackingKept
  DataKept
CHECK_DEADLOCK FALSE
SYMMETRY UuidSymmetry
CONSTRAINT NotTorn
