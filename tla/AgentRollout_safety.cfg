CONSTANTS
  r1 = r1  r2 = r2  v1 = v1  v2 = v2
  None = None
  Samples <- MCSamples
  Requests <- MCSamples
  ServerOrder <- MCServers
  Limiters <- MCLimiters
  CacheSize = 2
  PromptLength = 1
  ResponseLength = 3
  MaxModelLen = 5
  MaxUserTurns = 0
  MaxAssistantTurns = 0
  MaxParallelCalls = 2
  ToolCalls = {0, 2}
  ObsLengths = {1, 2}
  Batches = 2
  MaxConcurrent = 1
  Threads = 1
SPECIFICATION FairSpec
INVARIANTS
  ResponseIsAligned
  SessionsAreSticky
  LoadIsSpread
  StatsAreOfThisBatch
  LetThroughIsPaid
PROPERTY RolloutEnds
CHECK_DEADLOCK FALSE
