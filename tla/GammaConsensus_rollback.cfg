CONSTANTS
  s1 = s1  s2 = s2  w1 = w1  w2 = w2
  Servers <- MCServers
  Workers <- MCWorkers
  Ladder <- MCLadder
  PersistenceN = 1
  AlphaUp = 94
  AlphaDown = 85
  Tallies <- MCTallies
  MaxRollouts = 1
  MaxFaults = 1
SPECIFICATION Spec
INVARIANT RollbackRestoresCluster
