------------------------------ MODULE KVScheduler ------------------------------
(***************************************************************************)
(* vLLM's scheduler with its KV cache manager, as one engine uses them in  *)
(* a rollout: which requests compute how many tokens in a step, in which   *)
(* blocks, and what the step's output does to them.                        *)
(*                                                                         *)
(* schedule() is a loop over the running and then over the waiting         *)
(* requests; each turn of it is an action here.  One step of the engine is *)
(*                                                                         *)
(*   idle -> running -> waiting -> forward -> update -> idle               *)
(*                                                                         *)
(* and messages (new and aborted requests, calls) are served when idle.    *)
(* The policy is first come, first served, without pipeline parallelism or *)
(* asynchronous scheduling, with chunked prefill and prefix caching: what  *)
(* the rollout configures.                                                 *)
(***************************************************************************)
EXTENDS BlockPool

CONSTANTS
  Requests,
  Prompt,               \* the prompt of a request, a sequence of tokens
  SampledTokens,        \* tokens the model may sample, apart from EOS
  EOS,
  MaxTokens,            \* the limit on the output of a request
  MaxModelLen,
  MaxNumSeqs,           \* max_num_running_reqs
  MaxNumBatchedTokens,  \* max_num_scheduled_tokens
  Gamma,                \* the most drafts proposed for a request
  Method,               \* of speculation
  Batches               \* bound: the requests of each rollout, in a sequence

ASSUME MethodAssumption == Method \in {"quant_self", "sparse_attn", "ngram"}

ASSUME LimitsAssumption ==
  {MaxTokens, MaxModelLen, MaxNumSeqs, MaxNumBatchedTokens, Gamma} \subseteq Nat \ {0}

\* The engine does not start unless the cache holds the longest request, nor does it
\* accept a prompt without room for an output.
ASSUME CapacityAssumption == NumBlocks * BlockSize >= MaxModelLen

ASSUME BatchesAssumption == Batches \in Seq(SUBSET Requests) /\ Batches # <<>>

ASSUME RequestsAssumption == IsFiniteSet(Requests)

ASSUME PromptAssumption ==
  \A r \in Requests :
    /\ Prompt[r] \in Seq(ToSet(Prompt[r]))
    /\ Prompt[r] # <<>> /\ Len(Prompt[r]) < MaxModelLen

VARIABLES
  \* Request
  tokens,        \* prompt and output so far, empty when there is no such request
  computed,      \* num_computed_tokens
  spec,          \* the number of spec_token_ids
  \* Scheduler
  waiting,
  running,
  finishedIds,   \* finished_req_ids
  specEnabled,   \* _spec_decode_enabled
  \* the KV cache manager
  pool,
  blocks,        \* req_to_blocks
  cachedBlocks,  \* num_cached_block
  \* the step in progress
  phase,
  step,
  \* the rollout
  toCome,        \* requests it will still add
  rollout

requestVars == <<tokens, computed, spec>>
queueVars == <<waiting, running>>
cacheVars == <<pool, blocks, cachedBlocks>>
rolloutVars == <<toCome, rollout>>
schedulerVars == <<requestVars, queueVars, finishedIds, specEnabled, cacheVars, phase,
                   step, rolloutVars>>

\* The local variables of schedule(), and of update_from_output.
NoStep ==
  [index     |-> 1,      \* req_index; then the place in batch
   budget    |-> MaxNumBatchedTokens,
   preempted |-> FALSE,  \* something has been preempted
   scheduled |-> [r \in Requests |-> 0],
   drafted   |-> [r \in Requests |-> 0],   \* scheduled_spec_decode_tokens
   batch     |-> <<>>,   \* the requests scheduled
   fits      |-> FALSE]  \* input_fits_in_drafter

Init ==
  /\ tokens = [r \in Requests |-> <<>>]
  /\ computed = [r \in Requests |-> 0]
  /\ spec = [r \in Requests |-> 0]
  /\ waiting = <<>> /\ running = <<>>
  /\ finishedIds = {}
  /\ specEnabled \in BOOLEAN
  /\ pool = FullPool
  /\ blocks = [r \in Requests |-> <<>>]
  /\ cachedBlocks = [r \in Requests |-> 0]
  /\ phase = "idle"
  /\ step = NoStep
  /\ toCome = Batches[1]
  /\ rollout = 1

-------------------------------------------------------------------------------
(* The KV cache manager. *)

BlocksFor(n) == (n + BlockSize - 1) \div BlockSize

\* Whether allocate_slots has room for n more tokens of r, the blocks found in the
\* prefix cache among them: those nobody holds are taken from the free queue too.
NeedSlot(r, found, n, lookahead) ==
  Min({computed[r] + Len(found) * BlockSize + n + lookahead, MaxModelLen})

NewBlocks(r, found, n, lookahead) ==
  Max({0, BlocksFor(NeedSlot(r, found, n, lookahead)) - Len(found) - Len(blocks[r])})

HasRoom(r, found, n, lookahead) ==
  LET evictable == {i \in DOMAIN found : pool.ref[found[i]] = 0} IN
  BlocksFor(NeedSlot(r, found, n, lookahead)) - Len(found) - Len(blocks[r])
    + Cardinality(evictable) <= Len(pool.free)

\* Mutant: drafts are committed before they are verified.
AllocateSlotsCachesDrafts(r, found, n, lookahead) ==
  LET touched == Touch(pool, found)
      new == NewBlocks(r, found, n, lookahead)
      mine == blocks[r] \o found \o NextFree(touched, new)
      cached == cachedBlocks[r] + Len(found)
      full == (computed[r] + Len(found) * BlockSize + n) \div BlockSize
  IN  /\ pool' = CacheFullBlocks(GetNewBlocks(touched, new), mine, cached, full,
                                 tokens[r] \o [i \in 1..Gamma |-> EOS])
      /\ blocks' = [blocks EXCEPT ![r] = mine]
      /\ cachedBlocks' = [cachedBlocks EXCEPT ![r] = Max({cached, full})]

\* What is found is held, the rest is new; blocks are cached as far as their tokens
\* are committed, drafts may be rejected.
AllocateSlots(r, found, n, lookahead) ==
  LET touched == Touch(pool, found)
      new == NewBlocks(r, found, n, lookahead)
      mine == blocks[r] \o found \o NextFree(touched, new)
      cached == cachedBlocks[r] + Len(found)
      full == Min({computed[r] + Len(found) * BlockSize + n, Len(tokens[r])})
                \div BlockSize
  IN  /\ pool' = CacheFullBlocks(GetNewBlocks(touched, new), mine, cached, full, tokens[r])
      /\ blocks' = [blocks EXCEPT ![r] = mine]
      /\ cachedBlocks' = [cachedBlocks EXCEPT ![r] = Max({cached, full})]

\* The last blocks are freed first, so that they are evicted first.
Free(r) ==
  /\ pool' = FreeBlocks(pool, Reverse(blocks[r]))
  /\ blocks' = [blocks EXCEPT ![r] = <<>>]
  /\ cachedBlocks' = [cachedBlocks EXCEPT ![r] = 0]

-------------------------------------------------------------------------------
(* schedule() *)

NumLookaheadTokens == IF Method = "sparse_attn" THEN Gamma ELSE 0

\* Where a request must end.
MaxTotalTokens(r) == Min({Len(Prompt[r]) + MaxTokens, MaxModelLen})

\* The engine core runs a step when the scheduler has requests, or finished ones to tell
\* the workers of; the toggle may switch speculation on before.
StartStep ==
  /\ phase = "idle"
  /\ running # <<>> \/ waiting # <<>> \/ finishedIds # {}
  /\ phase' = "running"
  /\ specEnabled' \in {specEnabled, TRUE}
  /\ UNCHANGED <<requestVars, queueVars, finishedIds, cacheVars, step, rolloutVars>>

\* The running request at req_index, while there is one and the budget lasts.
AtRunning(r) ==
  /\ phase = "running"
  /\ step.index <= Len(running) /\ step.budget > 0
  /\ r = running[step.index]

\* Mutant: drafts may lie past the end of the request.
NumNewTokensUncapped(r) ==
  Min({Len(tokens[r]) + spec[r] - computed[r], step.budget})

NumNewTokens(r) ==
  Min({Len(tokens[r]) + spec[r] - computed[r],
       step.budget,
       MaxTotalTokens(r) - 1 - computed[r]})

\* Drafts that no longer fit are dropped; none are left for the next step, the
\* drafter proposes anew.  That a running request has nothing to compute does not
\* happen (ComputedIsBehind), the code's turn that skips it would be stuck here.
ScheduleRunning(r) ==
  LET n == NumNewTokens(r) IN
  /\ AtRunning(r)
  /\ n > 0
  /\ HasRoom(r, <<>>, n, NumLookaheadTokens)
  /\ AllocateSlots(r, <<>>, n, NumLookaheadTokens)
  /\ step' = [step EXCEPT
                !.index = @ + 1,
                !.budget = @ - n,
                !.scheduled[r] = n,
                !.drafted[r] = Min({spec[r], Max({0, n + computed[r] - Len(tokens[r])})})]
  /\ spec' = [spec EXCEPT ![r] = 0]
  /\ UNCHANGED <<tokens, computed, queueVars, finishedIds, specEnabled, phase, rolloutVars>>

\* Mutant: the request that has run longest makes room.
PreemptFirst(r) ==
  LET preempted == Head(running) IN
  /\ AtRunning(r)
  /\ NumNewTokens(r) > 0
  /\ ~HasRoom(r, <<>>, NumNewTokens(r), NumLookaheadTokens)
  /\ running' = Tail(running)
  /\ Free(preempted)
  /\ computed' = [computed EXCEPT ![preempted] = 0]
  /\ waiting' = <<preempted>> \o waiting
  /\ step' = [step EXCEPT !.preempted = TRUE, !.scheduled[preempted] = 0]
  /\ phase' = "forward"
  /\ UNCHANGED <<tokens, spec, finishedIds, specEnabled, rolloutVars>>

\* Mutant: a preempted request queues up again at the end.
PreemptLastAppends(r) ==
  LET preempted == Last(running) IN
  /\ AtRunning(r)
  /\ NumNewTokens(r) > 0
  /\ ~HasRoom(r, <<>>, NumNewTokens(r), NumLookaheadTokens)
  /\ running' = Front(running)
  /\ Free(preempted)
  /\ computed' = [computed EXCEPT ![preempted] = 0]
  /\ waiting' = Append(waiting, preempted)
  /\ step' = [step EXCEPT !.preempted = TRUE]
  /\ phase' = IF preempted = r THEN "forward" ELSE phase
  /\ UNCHANGED <<tokens, spec, finishedIds, specEnabled, rolloutVars>>

\* Mutant: a preempted request starts again from its prompt.
PreemptLastDropsOutput(r) ==
  LET preempted == Last(running) IN
  /\ AtRunning(r)
  /\ NumNewTokens(r) > 0
  /\ ~HasRoom(r, <<>>, NumNewTokens(r), NumLookaheadTokens)
  /\ running' = Front(running)
  /\ Free(preempted)
  /\ computed' = [computed EXCEPT ![preempted] = 0]
  /\ tokens' = [tokens EXCEPT ![preempted] = Prompt[preempted]]
  /\ waiting' = <<preempted>> \o waiting
  /\ step' = [step EXCEPT !.preempted = TRUE]
  /\ phase' = IF preempted = r THEN "forward" ELSE phase
  /\ UNCHANGED <<spec, finishedIds, specEnabled, rolloutVars>>

\* The last running request makes room: it loses its blocks, keeps its tokens and its
\* drafts, and is the next to be admitted.
PreemptLast(r) ==
  LET preempted == Last(running) IN
  /\ AtRunning(r)
  /\ NumNewTokens(r) > 0
  /\ ~HasRoom(r, <<>>, NumNewTokens(r), NumLookaheadTokens)
  /\ running' = Front(running)
  /\ Free(preempted)
  /\ computed' = [computed EXCEPT ![preempted] = 0]
  /\ waiting' = <<preempted>> \o waiting
  /\ step' = [step EXCEPT !.preempted = TRUE]
  /\ phase' = IF preempted = r THEN "forward" ELSE phase
  /\ UNCHANGED <<tokens, spec, finishedIds, specEnabled, rolloutVars>>

\* After a preemption nothing is admitted.
RunningScheduled ==
  /\ phase = "running"
  /\ step.index > Len(running) \/ step.budget = 0
  /\ phase' = IF step.preempted THEN "forward" ELSE "waiting"
  /\ UNCHANGED <<requestVars, queueVars, finishedIds, specEnabled, cacheVars, step,
                 rolloutVars>>

\* The first waiting request, new or preempted, starts after what the prefix cache has
\* of it.  Its drafts of before a preemption are not scheduled.  No lookahead: at this
\* point num_computed_tokens is 0.
Admissible(r, found) ==
  /\ step.budget > 0
  /\ Len(running) < MaxNumSeqs
  /\ HasRoom(r, found, Min({Len(tokens[r]) - Len(found) * BlockSize, step.budget}), 0)

AdmitWaiting(r, found) ==
  LET n == Min({Len(tokens[r]) - Len(found) * BlockSize, step.budget}) IN
  /\ phase = "waiting"
  /\ Admissible(r, found)
  /\ AllocateSlots(r, found, n, 0)
  /\ waiting' = Tail(waiting)
  /\ running' = Append(running, r)
  /\ computed' = [computed EXCEPT ![r] = Len(found) * BlockSize]
  /\ step' = [step EXCEPT !.budget = @ - n, !.scheduled[r] = n]
  /\ UNCHANGED <<tokens, spec, finishedIds, specEnabled, phase, rolloutVars>>

WaitingScheduled ==
  /\ phase = "waiting"
  /\ waiting # <<>> => \E found \in FindLongestCacheHit(pool, tokens[Head(waiting)]) :
                         ~Admissible(Head(waiting), found)
  /\ phase' = "forward"
  /\ UNCHANGED <<requestVars, queueVars, finishedIds, specEnabled, cacheVars, step,
                 rolloutVars>>

-------------------------------------------------------------------------------
(* The forward pass and its output. *)

\* _update_after_schedule counts the tokens as computed before they are, and the
\* rejected drafts are taken back when the output is there.  Drafts are proposed for
\* the batch when its longest request leaves room for them.
Forward ==
  LET batch == Only(running, {r \in Requests : step.scheduled[r] > 0})
      length == [r \in Requests |-> computed[r] + step.scheduled[r]]
  IN
  /\ phase = "forward"
  /\ phase' = "update"
  /\ computed' = length
  /\ finishedIds' = {}
  /\ step' = [step EXCEPT
       !.index = 1,
       !.batch = batch,
       !.fits = batch # <<>> /\ Max({length[r] : r \in ToSet(batch)}) + Gamma <= MaxModelLen]
  /\ UNCHANGED <<tokens, spec, queueVars, specEnabled, cacheVars, rolloutVars>>

AtBatch(r) ==
  /\ phase = "update"
  /\ step.index <= Len(step.batch)
  /\ r = step.batch[step.index]

\* A prompt that is not complete gives no output.
PrefillContinues(r) ==
  /\ AtBatch(r)
  /\ computed[r] < Len(tokens[r])
  /\ step' = [step EXCEPT !.index = @ + 1]
  /\ UNCHANGED <<requestVars, queueVars, finishedIds, specEnabled, cacheVars, phase,
                 rolloutVars>>

\* check_stop, once the request has these tokens.
Stops(r, ts) ==
  \/ Last(ts) = EOS
  \/ Len(ts) >= MaxModelLen
  \/ Len(ts) - Len(Prompt[r]) >= MaxTokens

\* Mutant: only the last generated token can stop the request.
WithOutputChecksLast(r, new) == tokens[r] \o new

\* Generated tokens are appended until one of them stops the request.
WithOutput(r, new) ==
  LET stopping == {i \in DOMAIN new : Stops(r, tokens[r] \o SubSeq(new, 1, i))} IN
  tokens[r] \o SubSeq(new, 1, IF stopping = {} THEN Len(new) ELSE Min(stopping))

\* The accepted drafts and one more token.
Generated(r, accepted, new) ==
  /\ AtBatch(r)
  /\ computed[r] >= Len(tokens[r])
  /\ accepted \in 0..step.drafted[r]
  /\ new \in [1..(accepted + 1) -> SampledTokens \cup {EOS}]

\* The rejected drafts are not counted.
ComputedAfter(r, accepted) == computed[r] - (step.drafted[r] - accepted)

\* Mutant: rejected drafts stay counted as computed.
RequestContinuesKeepsRejected(r, accepted, new) ==
  LET output == WithOutput(r, new) IN
  /\ Generated(r, accepted, new)
  /\ ~Stops(r, output)
  /\ tokens' = [tokens EXCEPT ![r] = output]
  /\ step' = [step EXCEPT !.index = @ + 1]
  /\ UNCHANGED <<computed, spec, queueVars, finishedIds, specEnabled, cacheVars, phase,
                 rolloutVars>>

RequestContinues(r, accepted, new) ==
  LET output == WithOutput(r, new) IN
  /\ Generated(r, accepted, new)
  /\ ~Stops(r, output)
  /\ tokens' = [tokens EXCEPT ![r] = output]
  /\ computed' = [computed EXCEPT ![r] = ComputedAfter(r, accepted)]
  /\ step' = [step EXCEPT !.index = @ + 1]
  /\ UNCHANGED <<spec, queueVars, finishedIds, specEnabled, cacheVars, phase, rolloutVars>>

\* Mutant: the blocks of a stopped request are not given back.
RequestStopsKeepsBlocks(r, accepted, new) ==
  /\ Generated(r, accepted, new)
  /\ Stops(r, WithOutput(r, new))
  /\ tokens' = [tokens EXCEPT ![r] = <<>>]
  /\ computed' = [computed EXCEPT ![r] = ComputedAfter(r, accepted)]
  /\ running' = Only(running, Requests \ {r})
  /\ finishedIds' = finishedIds \cup {r}
  /\ blocks' = [blocks EXCEPT ![r] = <<>>]
  /\ cachedBlocks' = [cachedBlocks EXCEPT ![r] = 0]
  /\ spec' = [spec EXCEPT ![r] = 0]
  /\ step' = [step EXCEPT !.index = @ + 1]
  /\ UNCHANGED <<pool, waiting, specEnabled, phase, rolloutVars>>

RequestStops(r, accepted, new) ==
  /\ Generated(r, accepted, new)
  /\ Stops(r, WithOutput(r, new))
  /\ tokens' = [tokens EXCEPT ![r] = <<>>]
  /\ computed' = [computed EXCEPT ![r] = ComputedAfter(r, accepted)]
  /\ running' = Only(running, Requests \ {r})
  /\ finishedIds' = finishedIds \cup {r}
  /\ Free(r)
  /\ spec' = [spec EXCEPT ![r] = 0]
  /\ step' = [step EXCEPT !.index = @ + 1]
  /\ UNCHANGED <<waiting, specEnabled, phase, rolloutVars>>

\* quant_self and sparse_attn draft for every row of the batch; ngram proposes what it
\* finds, which may be nothing.
Proposals == IF Method = "ngram" THEN 0..Gamma ELSE {Gamma}

\* post_step: the drafts proposed for the batch are put on the requests still there.
PostStep ==
  LET drafting == {r \in ToSet(step.batch) : specEnabled /\ step.fits /\ tokens[r] # <<>>} IN
  /\ phase = "update"
  /\ step.index > Len(step.batch)
  /\ phase' = "idle"
  /\ \E proposed \in [drafting -> Proposals] :
       spec' = [r \in Requests |-> IF r \in drafting THEN proposed[r] ELSE spec[r]]
  /\ computed' = [r \in Requests |-> IF tokens[r] = <<>> THEN 0 ELSE computed[r]]
  /\ step' = NoStep
  /\ UNCHANGED <<tokens, queueVars, finishedIds, specEnabled, cacheVars, rolloutVars>>

-------------------------------------------------------------------------------
(* Messages, and the rollouts. *)

AddRequest(r) ==
  /\ phase = "idle"
  /\ r \in toCome
  /\ toCome' = toCome \ {r}
  /\ tokens' = [tokens EXCEPT ![r] = Prompt[r]]
  /\ waiting' = Append(waiting, r)
  /\ UNCHANGED <<computed, spec, running, finishedIds, specEnabled, cacheVars, phase, step,
                 rollout>>

\* Mutant: an aborted request is looked for among the running ones only.
FinishRequestLeavesWaiting(r) ==
  /\ phase = "idle"
  /\ tokens[r] # <<>>
  /\ running' = Only(running, Requests \ {r})
  /\ tokens' = [tokens EXCEPT ![r] = <<>>]
  /\ computed' = [computed EXCEPT ![r] = 0]
  /\ spec' = [spec EXCEPT ![r] = 0]
  /\ finishedIds' = finishedIds \cup {r}
  /\ Free(r)
  /\ UNCHANGED <<waiting, specEnabled, phase, step, rolloutVars>>

\* finish_requests, for an aborted request.
FinishRequest(r) ==
  /\ phase = "idle"
  /\ tokens[r] # <<>>
  /\ running' = Only(running, Requests \ {r})
  /\ waiting' = Only(waiting, Requests \ {r})
  /\ tokens' = [tokens EXCEPT ![r] = <<>>]
  /\ computed' = [computed EXCEPT ![r] = 0]
  /\ spec' = [spec EXCEPT ![r] = 0]
  /\ finishedIds' = finishedIds \cup {r}
  /\ Free(r)
  /\ UNCHANGED <<specEnabled, phase, step, rolloutVars>>

RolloutOver ==
  /\ phase = "idle" /\ toCome = {}
  /\ running = <<>> /\ waiting = <<>>

\* Mutant: the prefix cache outlives the weights.
SleepKeepsCache ==
  /\ RolloutOver
  /\ rollout < Len(Batches)
  /\ rollout' = rollout + 1
  /\ toCome' = Batches[rollout + 1]
  /\ specEnabled' \in {specEnabled, FALSE}
  /\ UNCHANGED <<requestVars, queueVars, finishedIds, cacheVars, phase, step>>

\* sleep resets the prefix cache, the weights are replaced, and wake_up switches
\* speculation off, unless there is no toggle.
SleepAndWakeUp ==
  /\ RolloutOver
  /\ rollout < Len(Batches)
  /\ rollout' = rollout + 1
  /\ toCome' = Batches[rollout + 1]
  /\ pool' = ResetPrefixCache(pool)
  /\ specEnabled' \in {specEnabled, FALSE}
  /\ UNCHANGED <<requestVars, queueVars, finishedIds, blocks, cachedBlocks, phase, step>>

\* The step of the engine.
EngineStep ==
  \/ StartStep
  \/ \E r \in Requests : ScheduleRunning(r)
  \/ \E r \in Requests : PreemptLast(r)
  \/ RunningScheduled
  \/ waiting # <<>> /\ \E found \in FindLongestCacheHit(pool, tokens[Head(waiting)]) :
                         AdmitWaiting(Head(waiting), found)
  \/ WaitingScheduled
  \/ Forward
  \/ \E r \in Requests : PrefillContinues(r)
  \/ \E r \in Requests, accepted \in 0..Gamma :
       \E new \in [1..(accepted + 1) -> SampledTokens \cup {EOS}] :
         RequestContinues(r, accepted, new) \/ RequestStops(r, accepted, new)
  \/ PostStep

Next ==
  \/ EngineStep
  \/ \E r \in Requests : AddRequest(r) \/ FinishRequest(r)
  \/ SleepAndWakeUp

\* The busy loop of the engine core, and the trainer that sends its requests.
Fairness ==
  /\ WF_schedulerVars(EngineStep)
  /\ \A r \in Requests : WF_schedulerVars(AddRequest(r))

Spec == Init /\ [][Next]_schedulerVars /\ Fairness

-------------------------------------------------------------------------------
(* Properties. *)

TypeOK ==
  LET Tokens == SampledTokens \cup {EOS} \cup UNION {ToSet(Prompt[r]) : r \in Requests} IN
  /\ \A r \in Requests :
       /\ ToSet(tokens[r]) \subseteq Tokens
       /\ ToSet(blocks[r]) \subseteq Blocks
  /\ \A b \in Blocks : ToSet(pool.hash[b]) \subseteq Tokens
  /\ computed \in [Requests -> 0..MaxModelLen]
  /\ spec \in [Requests -> 0..Gamma]
  /\ ToSet(waiting) \cup ToSet(running) = {r \in Requests : tokens[r] # <<>>}
  /\ finishedIds \subseteq Requests /\ specEnabled \in BOOLEAN
  /\ pool.ref \in [Blocks -> 0..Cardinality(Requests)]
  /\ cachedBlocks \in [Requests -> 0..NumBlocks]
  /\ phase \in {"idle", "running", "waiting", "forward", "update"}
  /\ step.budget \in 0..MaxNumBatchedTokens
  /\ step.scheduled \in [Requests -> 0..MaxNumBatchedTokens]
  /\ step.drafted \in [Requests -> 0..Gamma]
  /\ toCome \subseteq Requests /\ rollout \in DOMAIN Batches

\* A block is counted once for each request that holds it, and the free queue has, once
\* each, the blocks nobody holds: no block is lost, and none is in use by two requests
\* unless the second found it in the prefix cache.  BlockPool relies on this and asserts
\* a part of it only.
BlocksAccountedFor ==
  LET holders(b) == {r \in Requests : b \in ToSet(blocks[r])} IN
  /\ \A b \in Blocks : pool.ref[b] = Cardinality(holders(b))
  /\ ToSet(pool.free) = {b \in Blocks : holders(b) = {}}
  /\ IsInjective(pool.free)
  /\ \A r \in Requests : IsInjective(blocks[r])
  /\ \A b \in Blocks : Cardinality(holders(b)) > 1 => pool.hash[b] # NoHash

\* The blocks of a request that can be found by others are exactly those the manager has
\* counted as cached, and they are found by the request's own committed tokens, never by
\* drafts that may be rejected (the assertion of cache_full_blocks and more).
CommittedBlocksAreCached ==
  \A r \in Requests : \A i \in DOMAIN blocks[r] :
    IF i <= cachedBlocks[r]
      THEN /\ i * BlockSize <= Len(tokens[r])
           /\ pool.hash[blocks[r][i]] = SubSeq(tokens[r], 1, i * BlockSize)
      ELSE pool.hash[blocks[r][i]] = NoHash

\* Between two steps a running request has blocks for what it has computed, and has not
\* computed its last token: whatever was preempted, trimmed or rejected, the next step
\* has something to compute for it, and computes it in the request's blocks.
ComputedIsBehind ==
  phase = "idle" =>
    \A r \in ToSet(running) :
      /\ computed[r] < Len(tokens[r])
      /\ computed[r] <= Len(blocks[r]) * BlockSize

\* What a step computes lies before the last position the request may have, and what it
\* verifies directly follows the request's tokens (schedule() trims the drafts).
PositionsAreInBounds ==
  phase = "forward" =>
    \A r \in Requests : step.scheduled[r] > 0 =>
      /\ computed[r] + step.scheduled[r] < MaxTotalTokens(r)
      /\ computed[r] + step.scheduled[r] <= Len(blocks[r]) * BlockSize
      /\ step.drafted[r] > 0 =>
           computed[r] + step.scheduled[r] = Len(tokens[r]) + step.drafted[r]

\* An output ends with the first token that stops it, however many drafts were accepted
\* with it.
NothingAfterStop ==
  \A r \in Requests : \A n \in (Len(Prompt[r]) + 1)..Len(tokens[r]) :
    ~Stops(r, SubSeq(tokens[r], 1, n))

\* First come, first served: preempted requests are resumed before younger ones and in
\* their order.
Line == running \o waiting

Before(line, q, r) == \E i, j \in DOMAIN line : i < j /\ line[i] = q /\ line[j] = r

OrderIsKept ==
  [][\A q, r \in Requests :
       Before(Line, q, r) /\ {q, r} \subseteq ToSet(Line') => Before(Line, q, r)']_schedulerVars

\* The oldest running request is never the one that is preempted: with everything else
\* preempted its own blocks are enough, which is why a rollout makes progress.
OldestIsNotPreempted ==
  [][phase = "running" /\ running # <<>> => running' # <<>> /\ Head(running') = Head(running)
    ]_schedulerVars

\* The scheduler as RequestOutputs sees it.
Outputs == INSTANCE RequestOutputs WITH speculating <- specEnabled

\* Preemption, chunks of a prompt, hits in the prefix cache and rejected drafts are not
\* seen from outside: what a request has generated only grows, by more than one token in
\* a step only while speculation is on, and a rollout begins when all requests of the one
\* before have ended.
ImplementsRequestOutputs == Outputs!Spec

\* Every request ends, however often it is preempted or its drafts are rejected.
RequestsEnd == \A r \in Requests : tokens[r] # <<>> ~> tokens[r] = <<>>
==============================================================================
