SPECIFICATION KVSpec
CONSTANTS
  r1 = r1
  r2 = r2
  r3 = r3
  Requests = {r1, r2, r3}
  Prompt <- MCPrompt
  SampledTokens = {"s"}
  EOS = "eos"
  MaxTokens = 4
  MaxModelLen = 6
  MaxNumSeqs = 2
  MaxNumBatchedTokens = 4
  Gamma = 2
  Method = "quant_self"
  NumBlocks = 3
  BlockSize = 2
  Batches <- MCBatches
INVARIANTS ComputedKVIsOwn
CHECK_DEADLOCK FALSE
