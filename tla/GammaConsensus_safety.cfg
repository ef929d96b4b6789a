CONSTANTS
  s1 = s1  s2 = s2  w1 = w1  w2 = w2
  Servers <- MCServers
  Workers <- MCWorkers
  Ladder <- MCLadder
  PersistenceN = 2
  AlphaUp = 94
  AlphaDown = 85
  Tallies <- MCTallies
  MaxRollouts = 6
  MaxFaults = 2
SPECIFICATION FairSpec
INVARIANTS
  UniformGamma
  ValidateModeBracketsRollout
  EvidenceForMove
  RollbackRestoresEngines
PROPERTIES
  ImplementsClusterGamma
  DrivesEngines
  RolloutEnds
