SPECIFICATION KVSpec
CONSTANTS
  r1 = r1
  r2 = r2
  r3 = r3
  Requests = {r1, r2, r3}
  Prompt <- MCPrompt
  SampledTokens = {"s"}
  EOS = "eos"
  MaxTokens = 4
  MaxModelLen = 6
  MaxNumSeqs = 2
  MaxNumBatchedTokens = 4
  Gamma = 2
  Method = "ngram"
  NumBlocks = 3
  BlockSize = 2
  Batches <- MCBatches
INVARIANTS KVTypeOK ComputedKVIsOwn CachedKVIsCurrent BlocksAccountedFor CommittedBlocksAreCached ComputedIsBehind PositionsAreInBounds
PROPERTIES OrderIsKept OldestIsNotPreempted RequestsEnd ImplementsRequestOutputs
CHECK_DEADLOCK FALSE
