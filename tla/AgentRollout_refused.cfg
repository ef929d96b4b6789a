CONSTANTS
  r1 = r1  r2 = r2  v1 = v1  v2 = v2
  None = None
  Samples <- MCSamples
  Requests <- MCSamples
  ServerOrder <- MCServers
  Limiters <- MCLimiters
  CacheSize = 2
  PromptLength = 1
  ResponseLength = 3
  MaxModelLen = 5
  MaxUserTurns = 0
  MaxAssistantTurns = 0
  MaxParallelCalls = 2
  ToolCalls = {0, 2}
  ObsLengths = {1, 2}
  Batches = 1
  MaxConcurrent = 1
  Threads = 1
SPECIFICATION Spec
INVARIANT NoTurnIsRefused
CHECK_DEADLOCK FALSE
