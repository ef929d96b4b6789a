CONSTANTS
  Ladder <- MCLadder
  MaxRequests = 2
  MaxSteps = 2
  ChunkSize = 1
  MaxRollouts = 3
  MayTimeOut = TRUE
SPECIFICATION Spec
INVARIANTS
  SnapshotIsExact
  SnapshotGamma
