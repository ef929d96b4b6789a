CONSTANTS
  Ranks = 2
  RowsPerRank = 4
  Lengths = {1, 3, 5}
  MaxTokenLen = 5
  MiniBatch = 3
  Epochs = 1
SPECIFICATION Spec
INVARIANTS
  ForwardsMatch
  LogProbsComeBack
  WorkIsBalanced
  EveryRowTrains
