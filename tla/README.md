# EfficientRollout: TLA+ models of rollouts and training

EfficientRollout trains language models with reinforcement learning (a fork of
veRL) and generates its rollouts with a vendored vLLM in which a *quantised copy
of the policy drafts tokens for itself* (`quant_self`).  Two controllers decide
how much to speculate:

- inside each engine, a **toggle** switches speculative decoding (SD) on once the
  running batch has become small enough for it to pay off;
- in the trainer, the **adaptive-gamma consensus** moves the draft length `gamma`
  of *all* engines up or down a configured ladder, from the acceptance rate of
  the whole cluster.

This directory specifies these controllers, the calls they make, the data they
decide with, and the scheduler and KV cache underneath, where drafts become tokens; and
around them the agent loops with their rewards, the way of a batch through the training
ranks, and the trainer's checkpoints.
Paths below are relative to the repository; `vllm/` stands for
`third_party/vllm/vllm/`.

Contents: 1 the system, 2 modules, 3 runs, 4 bounds, 5 fairness, 6 proofs,
7 findings, 8 what is only model-checked, 9 what is not modelled, 10 plan.

## 1. The system

```
 RayPPOTrainer --- generate_sequences ---> AgentLoopManager  (one thread)
                                             |   ^
              set_validate_mode, wake_up,    |   | get_sd_stats
              force_set_gamma, reset, sleep  v   |
                             vLLMHttpServer  x N  (one asyncio loop each)
                               AsyncLLM: output_handler, _SDStatsAccumulator
                                 |  ZeroMQ, FIFO    ^  ZeroMQ, FIFO
                                 v                  |
                             EngineCore  (busy loop: one message or one step)
                               Scheduler: running, waiting, spec_token_ids
                                 |  collective_rpc (send to all, then all replies)
                                 v
                             workers: vLLMAsyncRollout._loop_forever
                               GPUModelRunner.num_spec_tokens, draft proposer
```

| component | state it keeps | operations | what makes it correct |
|---|---|---|---|
| AgentLoopManager (`verl/experimental/agent_loop/agent_loop.py`) | persistence counters `_consecutive_crossings`, `_consecutive_low_crossings`, the ladder | `generate_sequences`, `_generate_sequences_impl`, `_broadcast_set_gamma`, `set_validate_mode` | one gamma in the whole cluster; a move only on persistent evidence; a rollback undoes a move; validation is bracketed; every call ends |
| vLLMHttpServer, executor and worker loop (`verl/workers/rollout/vllm_rollout/`) | the engine handle, ZeroMQ sockets, whether the engine sleeps | `wake_up`, `sleep`, `get_sd_stats`, `reset_sd_stats`, `force_set_gamma`, `set_validate_mode`, `collective_rpc`, `_loop_forever` | replies are matched to calls; an error in one worker surfaces; nothing changes before it is confirmed |
| AsyncLLM and its accumulator (`vllm/v1/engine/async_llm.py`) | `outputs_queue`, draft and accept totals, last gamma, toggle flag | `output_handler`, `observe`, `reset`, `wait_for_output_handler_idle` | a snapshot is exactly the rollout's statistics |
| EngineCore (`vllm/v1/engine/core.py`) | toggle mode, `sd_toggled`, `_seen_full_batch`, `_current_gamma`, `_validate_mode`, `_last_L_accept` and its counts | `step`, `_check_sd_toggle`, `force_set_gamma`, `wake_up`, `set_validate_mode`, the busy loop | the toggle starts anew each rollout and waits for the ramp-up; L is one training rollout's acceptance length |
| Scheduler (`vllm/v1/core/sched/scheduler.py`) | `running`, `waiting`, `spec_token_ids`, computed tokens, `_spec_decode_enabled` | `schedule`, `update_from_output`, `update_draft_token_ids`, `enable/disable_spec_decode` | drafts only while SD is on; accounting survives rejections and preemptions |
| KV cache manager and block pool (`vllm/v1/core/`) | free queue, reference counts, hashes of blocks, blocks per request | `get_computed_blocks`, `allocate_slots`, `free`, `reset_prefix_cache` | no block is lost or shared by accident; only committed tokens can be found |
| draft proposer and runner (`vllm/v1/spec_decode/quant_self_proposer.py`, `vllm/v1/worker/gpu_model_runner.py`) | `num_spec_tokens`, rows of the batch, block tables, the shared KV cache | `_update_states`, `propose`, `set_current_gamma` | all workers draft with the engine's gamma; a request reads and writes its own blocks |
| server manager and agent loops (`verl/experimental/agent_loop/`) | `request_id_to_server`, request counts, statistics per server; of each sample its conversation, mask, log-probabilities and turns | `_choose_server`, `generate`, `pop_per_gpu_stats`, `ToolAgentLoop.run` and its handlers, `SingleTurnAgentLoop.run` | the policy is trained on its own tokens only; a sample stays at one server; shares are even; a batch ends |
| reward loop (`verl/experimental/reward_loop/reward_manager/limited.py`) | token buckets, semaphore, the executor's threads | `run_single`, `acquire`, `_compute_reward` with its timeout | rates are kept; every request gets a score |
| balancing and training ranks (`verl/utils/seqlen_balancing.py`, `verl/workers/actor/dp_actor.py`) | order of a batch, micro-batches of each rank, gradients | `_balance_batch`, `rearrange_micro_batches`, `compute_log_prob`, `update_policy` | ranks meet in every collective; each row's result comes back to it; each row trains once |
| trainer's loop and checkpoints (`verl/trainer/ppo/ray_trainer.py`, `verl/utils/checkpoint/`) | `global_steps`, the dataloader, weights of every rank, `previous_saved_paths`; on disk the folders, files and the tracker | `fit`, `_save_checkpoint`, `_load_checkpoint`, `save_checkpoint` with its rotation | a restart finds a whole and consistent checkpoint; nothing finished is lost |
| allocation policy, length tracker (`verl/utils/`) | moving length estimates | `DefaultPolicy` assigns nothing, the other policies raise NotImplementedError | - |
| roofline (`sd_toggle/`) | fitted constants | predict SD against plain decoding | numerical |

What is hard here: fan-outs that go on after one of their calls has raised; a
worker that fails in the middle of an RPC to all workers; statistics that arrive
one step after the last answer; two objects that each hold half of the toggle;
training and validation rollouts that interleave over the same counters; requests
that are preempted, or arrive late, around the moment the toggle fires; blocks that are
freed, found again in the prefix cache and handed out in one pass of the scheduler; tokens
counted as computed before they are, and partly taken back; weights that change under a
cache.  Further out: crashes between any two writes of a save, and in the middle of one;
ranks that must agree on how often they meet before they know each other's rows; samples of
one event loop that share a server manager and a dict of sampling parameters; timeouts that
abandon a thread which runs on.

## 2. Modules

**`GammaLadder`** — the ladder (`RolloutConfig.__post_init__`,
`SpeculativeConfig._verify_args`) and its neighbours.  `Ladder` is a constant with
the assumption the configuration enforces.

**`GammaConsensus`** — the trainer and N servers.  `phase` is the line of
`generate_sequences` the trainer is at.  A fan-out (`FanOut`) puts one call in the
queue `calls[s]` of each server; a server serves its queue in order (`Answer`),
because a Ray actor's calls of one caller start in order and the engine core takes
utility calls from one FIFO queue.  The trainer goes on when all have answered
(`AllReturned`) or as soon as one raised (`SomeRaised`), which is
`ray.get` of the calls' references, which raises on the first that failed: a rollback is queued
behind forward calls that are still pending.

| action | code |
|---|---|
| `StartTrainingRollout`, `StartValidationRollout`, `ValidateModeEnabled`, `EnablingRaises`, `ValidateModeCleared`, `ClearingRaises`, `Raise` | `generate_sequences` with its try/finally |
| `GenerateOn(s)` | the rollout of one engine: its totals, or nothing when it had no request |
| `SkipValidation`, `SkipNoEvidence`, `CrossUp`, `CrossDown`, `NoCrossing` | the decision of `_generate_sequences_impl` |
| `BroadcastSucceeds`, `BroadcastFails`, `RollbackEnds` | `_broadcast_set_gamma` |
| `ResetAndSleep`, `RolloutRaises` | the end of the rollout; an exception from any other call |
| `ForceNoOp`, `ForceApplies`, `ForceRaisesInWorkers` | `EngineCore.force_set_gamma` over `collective_rpc` over `_loop_forever` |
| `ServeSetValidateMode`, `CallRaises` | `EngineCore.set_validate_mode`; a call that raises before the engine |

The acceptance rate is exact: totals are summed over servers and compared with
thresholds in percent.  `evidence` is a
history variable: what each training rollout since the last move has shown, one that drafted
nothing as "none".  Such a rollout leaves the counters as they are (line 1277), so that two
crossings with one between them count as two in a row; the comments on the gate say otherwise
(finding 2).  `EvidenceForMove` states what the code does guarantee: since the first of the
`PersistenceN` crossings, nothing has been observed that spoke against the move.  The trainer's
drift check (servers reporting different gammas) has no action: `UniformGamma`,
proved below, shows that it cannot fire, and `Deciding` requires what it checks.

**`ClusterGamma`** — what the controller promises, without servers or calls: ONE
gamma that moves a rung at a time after `PersistenceN` crossings.
`ImplementsClusterGamma` is the refinement, with the gamma of before the broadcast
as the abstract one until the broadcast has succeeded.

**`SDToggle`** — one engine: toggle, scheduler flag, draft tokens, and L.
`Step` is a whole `EngineCore.step` with `post_step`: `_check_sd_toggle`, then
`schedule` (admission, preemption, trimming of drafts, finished requests are all
chosen freely within the scheduler's limits), the counts behind L, and the new
drafts.  `WakeUp` is `EngineCore.wake_up` with `FreezeL` and `ResetToggle` in its
order.  L is modelled by its provenance, the set of (rollout, gamma) whose drafts it
was computed from; the roofline verdict comes out either way at every step.  The
phases and the calls between them are those of `EngineCalls`.

**`EngineCalls`** — what one engine may expect of the trainer: flagged before a rollout,
cleared before the next, at most one move of one rung after it, none while it generates and
none after a validation; after a failure, which ends training, whatever the clean-up sends.
It is where the two models above meet.  `GammaConsensus` makes the calls of a whole cluster,
with other servers late, failing or ahead, and `DrivesEngines` says that each engine sees
them in this order (`EnginePhase(s)` reads its phase from the trainer's and its own state).
`SDToggle` is one engine under these calls: each action of `EngineCalls` but `Stop` and
`CleanUp` is an action of the same name there, with the same guard except for the bound
`MaxRollouts` and, in `Drain`, the engine's own being empty.

**`SDStats`** — the way of the statistics from one engine to the trainer's
decision: input queue, steps, the output socket `wire`, `outputs_queue`, the
output handler with its slices, the idle poll of `get_sd_stats`, a move of gamma and
the reset.  A reply to a utility call reaches its caller only after the outputs
before it have been handled (`ClientReceives`): on the event loop the handler's
future is resolved first.  `sleep`'s own round trip through the engine
(`reset_prefix_cache`) is left out, `wake_up` makes one at the same place.  A step
after the last request is modelled: the scheduler still has `finished_req_ids`, so
the busy loop runs once more and sends statistics.  Aborts by a stop string are left
out, no agent loop uses them.

**`BlockPool`** — operators on a pool record: `free` is the free queue in eviction order,
`ref` the reference counts, `hash` what a block can be found by.  Hashes are chained, so
that the hash of a request's i-th block is modelled by the tokens of its first i blocks
(collisions of the real hash are left out).  `FindLongestCacheHit` is a set: several blocks
may have a hash and `get_one_block` gives any.

**`KVScheduler`** — one engine's scheduler with its KV cache manager.  `schedule()` is
two loops; each of their turns is an action, and `step` holds the local variables.

| action | code |
|---|---|
| `StartStep` | `EngineCore.step` up to `schedule`; the toggle may fire |
| `ScheduleRunning(r)`, `PreemptLast(r)`, `RunningScheduled` | the loop over `running`: budget, `allocate_slots`, trimming of drafts, preemption from the end |
| `AdmitWaiting(r, found)`, `WaitingScheduled` | the loop over `waiting`: prefix cache, budget, `allocate_slots` |
| `Forward` | `_update_after_schedule`, and whether drafts will fit |
| `PrefillContinues`, `RequestContinues`, `RequestStops` | `update_from_output` for a request of the batch, with `_update_request_with_output`, `check_stop`, `_free_request` |
| `PostStep` | `post_step` and `update_draft_token_ids` |
| `AddRequest`, `FinishRequest` | messages, served between two steps |
| `SleepAndWakeUp` | `sleep` resets the prefix cache; new weights; `wake_up` switches SD off |

A request is its tokens, what is computed of them, and how many drafts wait for it; what
the drafts are does not matter, any number may be accepted and the model may sample
anything.  `Gamma` is constant, its moves are GammaConsensus's.  A request without tokens is
one the scheduler does not have.

**`RequestOutputs`** — what a rollout may expect of an engine, without batch, queues or
cache: the tokens of a request, which only grow.  `ImplementsRequestOutputs` is the
refinement; the abstract variables are the scheduler's own, and everything else it has is
invisible.  `Generate` cannot give the token that ends a request: in one step of the code the
last tokens are appended and the request is freed, so that its end is the abstract `End`.

**`KVCache`** — KVScheduler with the worker: `rows` is the persistent batch, `table` its
block table, `kv` the content of the cache.  Keys and values of a token depend on all
tokens up to it and on the weights: that pair is the content of a slot, or `Scratch` for what
is computed from drafts that are rejected, or by the drafter.  `WorkerForward` is
`_update_states`; the code removes rows, fills the smallest empty ones and condenses, the
operators say where every request ends up.  Rows are not cleared, which is the code's
`BlockTable`.  The target's writes are applied when the output of a request is processed: in
the code they are earlier in the same step, and nothing looks at the cache in between.

**`TrainerCheckpoint`** — the training loop of `fit`, saving and restarting.  Weights,
optimizer and dataloader are modelled by the run that computed them and the step it had
reached; runs differ, since rollouts are sampled.

| action | code |
|---|---|
| `StartFromScratch`, `Resume`, `ResumeRaises` | `_load_checkpoint` with `find_latest_ckpt_path`, up to the first batch of `fit` |
| `TrainStep`, `TrainStepAndSave`, `EndOfStep` | a turn of `fit`'s loop; a save that is not due may come too, before the instance expires |
| `BeginSave`, `RemoveFile`, `RotationEnds`, `WriteFile(r)`, `GroupSaved` | `save_checkpoint` of a worker group: rank 0 rotates, file by file, a barrier, every rank opens and completes its files, a barrier |
| `OpenData`, `CloseData`, `OpenTracker`, `CloseTracker` | the driver's own files in `_save_checkpoint` |
| `Crash` | all processes die, the disk stays as it is: a file opened and not completed is `Torn` |

**`ResumableTraining`** — what checkpoints promise, as if there were one machine and a save
were one write.  In the refinement `ImplementsResumableTraining` the model is the state
that all ranks of all groups have in common (and a `Torn` one, which no abstract step
produces, when they differ), what is saved is the common content of the files of the last
checkpoint that was completed, and the abstract save is the step in which the tracker is
closed.

**`SeqlenBalancing`** — operators: the largest differencing method of Karmarkar and Karp, as
`seqlen_balancing.py` runs it on a heap of tuples, the split of a rank's rows into
micro-batches, and the inverse of an order.

**`BatchPipeline`** — a batch from the driver through the data parallel ranks and back:
`BalanceBatch` reorders it, each rank makes its micro-batches after an all-reduce of their
number (`PrepareMicroBatches`, `AllReduceCount`), a forward is a collective, as parameters
are sharded (`Forward`), then `GatherLogProbs`, and the same mini-batch by mini-batch with an
optimizer step (`OptimizerStep`, `UpdateEnds`).  A log-probability is modelled by its row.

**`AgentLoop`** — one agent-loop worker: the server manager and the loops of the samples, of
which each step runs from one await to the next.  A token is modelled by where it comes from
(the prompt, the policy, an answer).  `Begin`, `GenerateReturns`, `GenerateRaises`,
`CallRefused` to `ToolReleased`, `ToolsReturn`, `UserReplies` are the handlers of
`ToolAgentLoop` with what they call; a single-turn sample takes the first three only.
`NextBatch` is `pop_per_gpu_stats` and the next call of `generate_sequences`.

**`RewardLimiter`** — `RateLimitedRewardManager`: request-rate and token-rate buckets, the
semaphore, the executor's threads, timeouts that abandon a started call.  Time is in ticks.

**`AgentRollout`** composes the two: a sample that is through asks for its score and is done
when it has it.

**`MC...`** modules give the constants small values; the modules **`..._proofs`** hold the
theorems on the module they are named after; `KVScheduler_proofs` begins with the lemmas on the
pool's operators, `BatchPipeline_proofs` with those on `SeqlenBalancing`.  `KVCache_proofs`
extends `KVScheduler_proofs`.

Definitions whose comment begins with "Mutant:" are wrong variants of the definition
after them.  No action uses them; substituting one for its original breaks the
property it was written against, which is how we know the property can fail.

## 3. Runs

| run | shows |
|---|---|
| `consensus_safety` | `UniformGamma`: outside a broadcast all engines and workers have one gamma.  `ValidateModeBracketsRollout`: no training rollout runs on a flagged engine, whichever calls failed.  `EvidenceForMove`: a move is backed by `PersistenceN` crossings one way at this gamma, and every rollout since the first of them crossed that way too or drafted nothing.  `RollbackRestoresEngines`: a completed rollback leaves every engine at the old gamma even when a forward call was served late.  `ImplementsClusterGamma`: all of it is the one-gamma cluster.  `DrivesEngines`: until training ends, each engine is flagged, woken, moved and cleared in the order `SDToggle` assumes, whatever the other servers are doing.  `RolloutEnds`: every call of `generate_sequences` returns or raises, with up to two faults. |
| `consensus_rollback` | finding 1 |
| `consensus_gate` | finding 2 |
| `toggle_safety` | `ToggleAgrees`, `DraftsFollowToggle` (no stale drafts across reset, preemption, move of gamma), `ToggleAfterRamp`, `LOfLastTrainingRollout` (L survives interleaved validation and mixes nothing) |
| `stats_safety` | `SnapshotIsExact`: however outputs are delayed, the acceptance counts are exactly the rollout's.  `SnapshotGamma`: nor does a late output report the gamma of before a move, which the drift check would take for a split cluster. |
| `engine_cache` | `BlocksAccountedFor`: reference counts are the numbers of holders, the free queue has the rest, once.  `CommittedBlocksAreCached`: a block in use is found by its request's committed tokens or not at all.  `ComputedIsBehind`, `PositionsAreInBounds`: whatever is trimmed, rejected or preempted, computed tokens stay behind the tokens and inside the blocks, and drafts directly follow the tokens.  `OrderIsKept`, `OldestIsNotPreempted`: preemption does not overtake.  `RequestsEnd`: requests that preempt each other all end.  `ImplementsRequestOutputs`: from outside it is `RequestOutputs`; no token follows the one that ends an output, whatever was accepted with it.  `ComputedKVIsOwn`: for every computed position of a request, its blocks hold what the present weights compute from its own tokens.  `CachedKVIsCurrent`: the same of everything the prefix cache offers, across two rollouts.  The first eight speak of `KVScheduler` alone; the worker follows its steps (`WorkerKeepsSchedule`) and blocks none of them. |
| `draft_overwrites` | finding 3 |
| `checkpoint_safety` | `TrackedIsComplete`: whatever a crash interrupts, the checkpoint the tracker names has all files of all ranks and groups, of one run and step.  `ResumeIsConsistent`: training goes on from one state everywhere and with the batch that follows.  `LostWorkIsBounded`: a crash costs at most `SaveFreq` steps.  `DiskIsBounded`: rotation keeps its bound, also while a checkpoint is written.  `TrainingEnds`: the job ends however often it is killed, or stops at a torn tracker.  `ImplementsResumableTraining`: all of it is one process with an atomic save, and what `fit` returns with is saved. |
| `checkpoint_rotation` | finding 4 |
| `batch_pipeline` | `ForwardsMatch`: no rank is left alone in a collective.  `LogProbsComeBack`: through two reorderings, each row has its own log-probability.  `WorkIsBalanced`: work of ranks and of micro-batches differs by a row at most.  `EveryRowTrains`: each row is in exactly one optimizer step per epoch.  Deadlock, checked too, would be ranks at different collectives. |
| `agent_rollout` | `ResponseIsAligned`: through any turns, tools, answers and cuts, mask and log-probabilities fit the response, and mark exactly the policy's tokens.  `SessionsAreSticky`, `LoadIsSpread`, `StatsAreOfThisBatch`: the server manager across batches.  `LetThroughIsPaid`: no request passes a limiter unpaid, whatever order sleepers wake in.  `RolloutEnds`: every batch ends or raises. |
| `agent_refused` | finding 5 |

Every module has a type invariant.  Those of `GammaConsensus`, `SDToggle`, `SDStats`,
`KVScheduler`, `KVCache` and `TrainerCheckpoint` are proved (section 6), that of
`KVCache` also part of a run.  The
runs of the engine's cache and of the agent loops do not check for deadlock: after the last
rollout the engine waits for messages, and a worker's last batch ends.

## 4. Bounds

- `consensus_safety`: two servers with two workers each (one that fails while another
  does not, on either level), a ladder of three rungs (both ends and a middle one
  from which both moves exist), `PersistenceN = 2`, tallies at exactly the upper
  threshold, exactly the lower one, and zero, so that sums fall on, above and between
  the thresholds.  Six rollouts are enough to climb to the last rung (2+2) and come down
  again, or to climb one with validations and rollouts without drafts in between; two faults
  are enough to fail a broadcast and its rollback.
- `consensus_gate`: the same cluster without faults and with three rollouts, of which the second
  drafts nothing.
- `toggle_safety`: three requests for two places in the batch, so that requests wait and are
  preempted; two rungs; four rollouts, enough for training, validation, training, and
  one more after a move.  `RooflineRamp` stands for the 32 the code arrives at; 1 lets
  the guard open with two requests.
- `stats_safety`: two requests at a time with slices of one, so that an output is split and a
  rollout may be over in one or several steps; three rollouts, so that what is late may
  cross a move and a reset.
- `engine_cache`: blocks of two tokens, three of them, so that one request at its longest takes
  all: two requests preempt each other.  Two of the three requests share a prompt of a block and
  a half, so that the prefix cache is hit by requests at the same time and one after the other.
  Two places in the batch; a budget of four tokens, less than two prompts of three or two
  requests with two drafts each need, so that drafts are trimmed and prefill is chunked.  A
  model length of six, which the longer prompts reach before the limit of four output tokens and
  the shorter one at the same time: all accepted, then some rejected, with EOS at any place.  A
  second rollout of one request (`Batches`) would find blocks of the first if the cache were not
  reset.  The drafter is `ngram`, which writes nothing to the cache and may propose any number
  of drafts up to `Gamma` for each row, so that the schedules include those of `quant_self`.
- `draft_overwrites`: the same configuration with `quant_self`.
- `checkpoint_*`: actor and critic with two ranks each and one file per rank, the smallest in
  which groups and ranks can differ; five steps saved every second, and at the last, so that
  saves are periodic, early and final; two checkpoints kept (one in `checkpoint_rotation`), so
  that rotation happens within a run; two crashes, so that a restart is interrupted too.
  `LoopSteps` is one more than `TotalSteps`: the epochs may offer more than is asked for.
- `batch_pipeline`: two ranks with four rows each of three lengths, of which no two of the
  longer fit together, so that ranks need different numbers of micro-batches; a mini-batch of
  three, so that the last one is smaller.  `Epochs = 1` is the configuration's default.
- `agent_*`: two samples and two servers with a cache of two request ids, so that the second
  batch evicts the first's; a response of three tokens and a model length of five, which
  answers of one or two tokens reach from every side; no limit of turns, the case in which
  only lengths end a loop; two tool calls at once.  One permit, one thread and a token bucket
  smaller than one request's cost, so that the requests meet at each of them.

## 5. Fairness

The liveness properties need some.  For `RequestsEnd`, `WF(EngineStep)`: the busy loop
steps as long as there are requests, and a step does not wait for messages.  `WF(AddRequest)`
of each request is the trainer's, which sends what it has; the property does not rest on it.
`KVSpec` has the same fairness of the scheduler's step, in which the worker takes part.

For `RolloutEnds` of `GammaConsensus`: `WF(Trainer)`: the trainer is one thread that waits on
nothing but its own calls.  `WF(Serve(s))`: each server's event loop and busy loop take
the next call when it is there.  `WF(GenerateOn(s))`: an engine ends its part of a batch,
as every request has a length limit.  No fairness is assumed of faults, and none of any
single action of the trainer.

A worker that raised has left its loop for good; the engine would wait for ever for its
next reply.  `RolloutEnds` holds all the same because after such a failure the rollback of
that engine is a no-op, and training is aborted before another RPC is sent.

For `TrainingEnds`, `WF(Work)`: the job goes on as long as it is not killed, and is started
again when it was, by whoever runs it.  Crashes have no fairness and are bounded; a job that
is killed for ever never ends.

For `RolloutEnds` of `AgentRollout`, `WF(Next)`: the event loops run on while anything can
run, and servers, tools, users and score functions return at last.  A score function that
never returns keeps its thread; with all threads gone the next decoding would wait for ever.

## 6. Proofs

### The consensus

`GammaConsensus_proofs` proves, with TLAPS, for every non-empty set of servers and
workers, every ladder, persistence, thresholds, tallies
and any number of rollouts and faults:

- `Inductive`: `IInv` is an inductive invariant of `Spec`;
- `TypeCorrect`: `Spec => []TypeOK`, with both counters bounded by `PersistenceN`;
- `NeverSplit`: `Spec => []UniformGamma`;
- `ValidateModeBracketed`: `Spec => []ValidateModeBracketsRollout`;
- `RollbackIsSound`: `Spec => []RollbackRestoresEngines`;
- `MovesAreBacked`: `Spec => []EvidenceForMove`;
- `Refinement`: `Spec => Cluster!Spec`;
- `EnginesAreDriven`: `Spec => DrivesEngines`, the order of `EngineCalls` at every engine.

Assumptions are the ones named in the modules: the ladder is strictly ascending with at
least two values, `PersistenceN` is positive, there is a server and a worker, tallies are
natural numbers.

None of these properties is inductive.  What keeps the cluster uniform is an argument on
the *queues*: between two fan-outs nothing relevant is pending anywhere, so what a reply
says of its server is still true when the last reply is in.  `IInv` says it in parts:

| part | says |
|---|---|
| `TypeOK` | types |
| `QueuesInv` | which calls can be pending in which phase, in what order: a forward call before its rollback, and no call of an earlier fan-out |
| `AnswersInv` | what a server's reply to the awaited call implies for its gamma and its validation flag |
| `UniformGamma` | as above |
| `ReportsInv` | a reported gamma is the gamma of the engine, so that `current` is the cluster's |
| `CountersInv` | a counter at `PersistenceN` means a move is in progress, at most one of the two is positive |
| `EvidenceInv` | `evidence` ends with as many crossings one way as that counter says, with nothing among them but rollouts that drafted nothing |
| `ValidateInv` | the flag of each engine, per phase |

Each action has a lemma per part it can disturb; `Refinement` maps each action to one
of `ClusterGamma` or to a stutter using `IInv`.  `EnginesAreDriven` needs one part more,
`BetweenRollouts`: an exception on its way out ends training, no engine still counts as done
when a rollout begins, and on the way out of a rollout that ended well the clearing call is
the only one pending.  A late `force_set_gamma` is the hard case: the engine's rollout ends
with it although the trainer is still in its broadcast, which is a step of `EngineCalls`
because `CountersInv` keeps the target a neighbour of `current`, and `AnswersInv` an engine
that has not answered at `current`.

### The toggle

`SDToggle_proofs` proves, for every finite set of requests, every batch size, threshold and
ramp, ladder and number of rollouts:

- `Inductive`, `TypeCorrect`: `Spec => []TypeOK`;
- `DraftsAreFresh`: `Spec => []DraftsFollowToggle`;
- `ToggleWaits`: `Spec => []ToggleAfterRamp`;
- `LIsOfLastTraining`: `Spec => []LOfLastTrainingRollout`;
- `TogglesAgree`: `Spec => []ToggleAgrees`, assuming that the roofline configuration can be
  loaded (`FALSE \notin ConfigLoads`); where it cannot, the statement is false, see section 7;
- `CalledAsExpected`: `Spec => Trainer!Spec`, the rollouts of `SDToggle` are those of
  `EngineCalls` and no others.

| part of `IInv` | says |
|---|---|
| `FlagInv` | in which phases the engine is flagged for validation |
| `RequestsInv` | requests live in one rollout, only they hold drafts, and a batch is within its limit |
| `ToggleInv` | the scheduler speculates only when the engine says so |
| `RampInv` | the guard has opened only on a batch above the threshold |
| `CountsInv` | the counts behind L are of one rollout, and of which; this is what carries L across validation rollouts |

### The statistics path

`SDStats_proofs` proves, for every ladder, any number of requests, steps and rollouts, every
size of a slice, and whether or not outputs are delayed:

- `TypeCorrect`: `Spec => []TypeOK`;
- `SnapshotCorrect`: `Spec => []SnapshotIsExact`;
- `SnapshotGammaCorrect`: `Spec => []SnapshotGamma`.

The difficulty is that `output_handler` takes an output apart in slices and gives control away
between them, so that `generate_sequences` may return, and a snapshot be asked for, with an
output half handled.  What rules out a loss is a ledger of requests: `answered` reaches `sent`
only with the last slice of the last output, because each unanswered request is on its way to
the engine, active in it, or finished in an output that is not yet observed.

| part of `IInv` | says |
|---|---|
| `LedgerInv` | there is a function `u` on the places of `queue \o wire` that starts with the unanswered requests, falls at each output by the requests it finishes, never below the outputs it carries, and ends with those the engine still has.  (`u` exists: this says of a sum over a queue what a recursion would define, in a form a prover can extend by one place.) |
| `AnswersInv` | only a rollout has unanswered requests |
| `InboxInv`, `RepliesInv` | the engine's queue has requests, or the one utility call the trainer waits for; there is at most one reply under way, and only for such a call |
| `GammaInv` | outputs carry the engine's gamma, those before the reply to a move the old one |
| `DraftsInv` | what was verified in this rollout is counted, in the output being handled, or under way; nothing else is |
| `SnapInv` | `SnapshotIsExact` and `SnapshotGamma` |

### The scheduler and its blocks

`KVScheduler_proofs` proves, for every finite set of requests, all prompts, every pool, block
size, batch size, budget, gamma and number of rollouts:

- `Invariance`: `Spec => []IInv`, and `TypeCorrect`: `Spec => []TypeOK`;
- `AccountsCorrect`: `Spec => []BlocksAccountedFor`;
- `CacheCorrect`: `Spec => []CommittedBlocksAreCached`;
- `ComputedCorrect`: `Spec => []ComputedIsBehind`;
- `PositionsCorrect`: `Spec => []PositionsAreInBounds`;
- `OutputCorrect`: `Spec => []NothingAfterStop`;
- `OrderCorrect`: `Spec => OrderIsKept`;
- `OldestCorrect`: `Spec => OldestIsNotPreempted`;
- `OutputsImplemented`: `Spec => ImplementsRequestOutputs`.

The assumptions are those of the two modules: the limits are positive, the pool holds the
longest request, and a prompt is a non-empty sequence shorter than the model's length.  The
capacity is used by `OldestCorrect` alone: a request that is alone in the pool is not refused.

| part of `IInv` | says |
|---|---|
| `TypeInv` | types (the numbers without their bounds) |
| `QueueInv` | a request is in one queue, once, exactly as long as it has tokens |
| `NotRunningInv` | only running requests have blocks |
| `StepInv` | in each of the two loops, which requests can be scheduled, and which still be updated |
| `PositionInv` | where a step ends in terms of tokens and blocks, before and after the scheduler has counted it |
| `OutputInv` | the prompt is complete, and nothing follows the end of an output |
| `CacheInv` | the blocks counted as cached exist, and `CommittedBlocksAreCached` |
| `AccountInv` | `ref` is the number of holders, `free` the rest, once; a request holds a block once, and a block two requests hold has a hash |

The parts need each other.  A position is inside its blocks because no block of a running
request is ever given to another, which is the accounting; the accounting needs that the blocks
found in the prefix cache are the ones of *these* tokens, which is the cache; and that drafts
are never cached needs the position at which a step ends.  The last conjunct of `AccountInv` is
what makes allocation safe: a block that is shared is full and hashed, so that a request only
ever writes into blocks of its own, or into shared ones what is in them.  `BoundsInv` adds the
bounds of the numbers.  The module begins with one lemma per operation of the pool (`Touch`,
`GetNewBlocks`, `FreeBlocks`, `CacheFullBlocks`), each saying what it does to `ref`, `hash`
and `free`.

`OutputsImplemented` maps each action to a step of `RequestOutputs` or to a stutter.  It uses `IInv` for the outputs (`OutputInv`: nothing has stopped a request that is
there, so that abstractly it can go on) and for the queues (a rollout may begin when no request
is queued, abstractly when none has tokens).  It adds one invariant, `DraftsInv`: without
speculation no request has drafts, neither waiting nor in the batch.  `wake_up` switches
speculation off and does not look at drafts; there are none because there is no request, which
is the invariant's other part.  For that reason a step without speculation gives one token.

### The contents of the cache

`KVCache_proofs` proves, under the same assumptions:

- `WorkerKeepsSchedule`: `KVSpec => Spec`.  Each step of the scheduler with its worker is one the
  scheduler alone may take, or leaves its variables as they are, so that every theorem of the
  last section holds of the whole;
- `KVTypeCorrect`: `KVSpec => []KVTypeOK`;
- `OwnKVCorrect`: `KVSpec => []ComputedKVIsOwn`, when `Method = "ngram"`;
- `CachedKVCorrect`: `KVSpec => []CachedKVIsCurrent`, when `Method = "ngram"`.

The first two hold for every drafter.  The last two are about a drafter that does not write the
cache; of `quant_self` `ComputedKVIsOwn` is false, which is finding 3, and no assumption the
code justifies would make it true.  They are theorems on the rest of the path: scheduler, block
pool, rows, block tables and the forward pass.

Neither property is inductive, since both speak of the time between two steps.  Within a
step the scheduler counts tokens as computed, and gives blocks their hashes, before the worker
has written them.  The invariant says how far each request's writing has come, `Done(r)`:

| part of `KVInv` | says |
|---|---|
| `RowInv` | rows are requests, once each; the row of a request in the step's batch has the request's blocks as its first columns |
| `DoneInv` | by the end of the step a request has computed all of its blocks that have a hash; a request of the step's batch had a token left to compute |
| `OwnInv` | what is `Done` in blocks without a hash is there |
| `CachedInv` | a slot of a block with a hash has what the hash says, or is `Pending`: a running request counts the block as its own cached one, and has not `Done` this position |

That a `Pending` slot is filled follows from `RowInv`: the request's row has the block in that
column, so that the forward pass writes it there, and writes what the hash says, since the
hash is of the request's own tokens (`CacheInv`).  That nobody else disturbs it follows from
`AccountInv`: a block that two requests hold has a hash, so that all who write it write the
same, and a block without one is written by its only holder.  At the end of a step
nothing is pending (`NothingPending`), which gives the two properties.  A request that is
preempted leaves no pending slot behind, because only requests not yet scheduled in this
step are preempted, and they have none.

The rows need a count.  `_update_states` fills the rows of requests that left with those that
join, and moves the last rows into the holes that remain; `ForwardRows` shows that the
outcome is a sequence without repetition of exactly the step's requests, from lemmas on the
n-th smallest and n-th largest elements of a finite set (`RankFacts`, `NthFacts`).

### Checkpoints

`TrainerCheckpoint_proofs` proves, for every list of worker groups and of files, every set of
ranks, save frequency and number of steps and crashes, **and every `MaxKeep` except 1**:

- `Inductive`, `TypeCorrect`: `Spec => []TypeOK`;
- `TrackedIsWhole`: `Spec => []TrackedIsComplete`;
- `ResumesConsistently`: `Spec => []ResumeIsConsistent`;
- `ResultIsSaved`: `Spec => []DoneIsSaved`;
- `RestartsSucceed`: `Spec => []RestartSucceeds`: a start raises for a torn tracker only;
- `LossIsBounded`: `Spec => []LostWorkIsBounded`;
- `CheckpointsAreAtomic`: `Spec => ImplementsResumableTraining`;

and, for `MaxKeep = 1` too, `DiskStaysBounded`: `Spec => []DiskIsBounded`.

For `MaxKeep = 1` `RestartSucceeds` is false, as `checkpoint_rotation` shows; the proof uses the
assumption at one place, `RotatedOut`: rotation never takes the last path of a group.  That
is what the argument turns on: the tracked checkpoint is the last *complete* one, and what is
removed or written is always another.

| part of `IInv` | says |
|---|---|
| `CursorInv`, `MemInv` | steps in range; all ranks hold one state, which one per phase |
| `TrackerInv` | the tracker is the last save that ended, before the step in progress; it is torn only between its two writes, or after a crash there |
| `SavedInv` | a group's paths ascend, none after the tracked one but this step's |
| `DoomedInv` | what is being removed is older than the tracked checkpoint |
| `CopiesInv` | which files of this step are already complete, by group, rank and position |
| `LastInv` | the last step ends with a save |

`LossIsBounded` adds `LagInv`: the steps since the last save are at most the remainder of the
step by `SaveFreq`, which a step that is not saved increases by one, and so never reach
`SaveFreq`.  `CheckpointsAreAtomic` needs no further invariant.  That the removals and writes of a
save are not seen is that they leave alone the files of the tracked step (`SavedStays`); that
closing the tracker saves the model in memory is that by then every rank's files of this step
are complete, `CopiesInv` (`SaveImplements`); that a start goes on
from what was saved is `TrackerInv`, and that it does not raise, `RestartsSucceed`
(`SavedFacts`, `StartImplements`).

`DiskStaysBounded` has an invariant of its own, `DiskInv`, without the tracker.  Its main part,
`LeftInv`, splits what a group has on the disk in two: what the present run may have written,
at most `MaxKeep` folders (its paths, what it is removing, the step it is writing), and a set
`left` of at most `MaxKeep` folders per earlier run.  A run that ends, by a crash in the middle
of a removal or of a write as well, turns the first into a part of the second, because a
restart forgets the paths and removes nothing.

### The batch

`BatchPipeline_proofs` proves, for every number of ranks and of rows per rank, all lengths up to
`MaxTokenLen`, every size of a mini-batch (one that does not divide the rows, or is larger than
they are, as well) and number of epochs:

- `BatchTypes`: `Spec => []TypeOK`;
- `RanksForwardTogether`: `Spec => []ForwardsMatch`;
- `LogProbsAreRestored`: `Spec => []LogProbsComeBack`;
- `RowsTrainOncePerEpoch`: `Spec => []EveryRowTrains`;
- `WorkStaysBalanced`: `Spec => []WorkIsBalanced`;

and of the balancing by itself, for every number of rows and parts and all positive workloads:

- `PartitionFacts`: the parts have every row once, and with no more parts than rows none of
  them is empty; the work of two parts differs by no more than the largest row;
- `EqualPartitionFacts`: when equal sizes are asked for, each part has `n \div k` rows; the
  work of two parts differs by no more than two rows can.

These are the assertions of `seqlen_balancing.py`, and what its balancing is for.  That no part stays empty is not a fact on
numbers: the invariant of a tuple (`Tuples`) is that as long as it has an empty part no part of
it has two rows.  A merge keeps it because it lays the parts of the one, the largest first, upon
those of the other, the smallest first, and empty parts are the smallest: where a part of the
outcome is empty, rows of the one lie before it and rows of the other after it.
In the code what `ForwardsMatch` says of the ranks' numbers rests on it, since otherwise the
assertion would end one rank and leave the others in their collective; the invariant itself
compares the numbers only, which is why this is a theorem of its own.

The method is recursive over a heap whose size the program does not fix, and its sorts are over
sequences of any length.  What a recursion computes is proved here without the library's
induction theorems: `InductionTo` says of a *set* of numbers, rather than a predicate, that it
has all of `0..n`, and `Recursion` that a function with the recursion's equations exists, for
steps given as a function.  Sorting is a choice by rank, of which `SortedBy` and `StableSort`
are shown to be permutations; a merge, a zigzag and the concatenation of chunks are shown to
keep "every position once".

For the work, the invariant of a tuple in the heap is that its sums are those of its rows and
differ by no more than a bound (`Weighs`).  A tuple of one row has it for that row, one of a
round of `k` rows, the smallest with the next, for the largest difference of rows.  A merge
keeps it, whichever two tuples it takes: of the sums of two parts, `a1 + b1` and `a2 + b2`, the
`a` ascend where the `b` descend, so that the differences have opposite signs and their sum is
no larger than one of them.  The mutant `MergeAlike` lays the largest upon the largest.  Sums over a
set are defined by a recursion in the library; `SumsExist`, `SumWith` and `SumOfUnion` derive
its equations for every finite set, and `SumRenamed` that they do not depend on the rows'
names, which carries the bound from the positions in a rank's piece to the rows.

| part of `Inv` | says |
|---|---|
| `TypeOK` | types; the driver's order has every row once |
| `Stages` | the driver's phase, and with it where the ranks may stand; all are at one turn |
| `CountsFit` | a rank asks for at least one micro-batch, and no more than its piece has rows |
| `WorkAddsUp` | what is before a rank and behind it are the positions of its piece, each once (`Splits`); its output has the rows at those behind |
| `TurnsAreCredited` | a row has been in as many optimizer steps as turns have had its mini-batch (`Trained`) |
| `ForwardsMatch`, `LogProbsComeBack` | as in the run |

When nothing is left before a rank, `Splits` makes `index` a permutation (`SplitsDone`), and
the inverse of it puts the log-probabilities back (`RestoredFacts`).  At an optimizer step the
same fact makes a row's credit one or none, according to its mini-batch (`PlacesAre`).

`WorkStaysBalanced` adds `Even`: the chunks of the ranks are even once the driver has balanced
them, and the micro-batches a rank still has before it are, at every turn, by the longest
row of its piece.  The bound holds for whatever number of micro-batches the all-reduce gives.

### The agent loops

`AgentRollout_proofs` proves, for every set of samples, list of servers, limit of turns and of
lengths, and whatever tools and users answer:

- `Inductive`, and `TrainedOnItsOwnTokens`: `Spec => []ResponseIsAligned`;
- `SessionsStay`: `Spec => []SessionsAreSticky`;
- `SharesAreEven`: `Spec => []LoadIsSpread`;
- `StatsAreRight`: `Spec => []StatsAreOfThisBatch`;
- `LimitsAreKept`: `Spec => []LetThroughIsPaid`.

`ResponseIsAligned` speaks of loops that are over; `IInv` of every await.  `SampleInv` says of
each sample that its mask and log-probabilities are `Aligned` with the end of its conversation
(one lemma shows that tokens of the policy and of answers keep it so, one that cutting does),
that nothing is recorded before the first turn returns and something thereafter: an answer
appended to *empty* log-probabilities would get none.  It also bounds the parameters the
samples share, from which `max_tokens` is computed.

`ManagerInv` is the server manager's.  `HomesInv`: in the cache of request ids those of this
batch are behind all older ones, so that an eviction takes an older one as long as the cache
holds a batch; that is what `SessionsAreSticky` supposes, and the next two with it.  `LoadInv`:
the loads are *stairs*, all servers at one height or one higher, and so were the loads before
the batch, because the least loaded server is picked and counts are never taken back.  The
difference of two stairs of which one is the other plus the batch's shares is even to one.
`StatsInv`: a server's count is the number of tokens it has generated in this batch, as a
cardinality of places in conversations rather than as a sum.

`LInv` is the limiters'.  `LetThroughIsPaid` says nothing of those asleep, whose debt is what
has to be bounded; `DebtInv` says it of *every later tick*: `k` ticks from now, what is
refilled by then and what is owed by those still asleep then make up for a bucket's debt.
Stated for all `k`, a tick is a step from `k + 1` to `k`.

## 7. Findings

Each is shown by a run whose property states what the code's own text says and whose
counterexample is a behaviour of the code.

1. `consensus_rollback` — a rollback is logged as completed for the whole cluster although
   workers of the engine whose RPC failed keep the new gamma: the engine itself never left
   the old one, so `force_set_gamma` returns at once.
2. `consensus_gate` — the persistence counters survive a training rollout in which nothing was
   drafted (`agent_loop.py:1277`): crossings on either side of it count as consecutive and gamma
   moves, where the comments ask for "N consecutive training rollouts" (1252), a reset "on any
   rollout that is neither" (1355) and no counter carried "across a rollout we never actually
   observed" (1234).  That no *other* rollout is passed over is `EvidenceForMove`, proved.
3. `draft_overwrites` — `quant_self` writes its drafts into the cache and the scheduler
   reserves no slots for them.  The block of a draft's position is then read from a column of
   the block table that an earlier request left in the row, and the drafter overwrites keys
   and values still read there.  With `ngram`, which writes nothing, `engine_cache` shows
   the same scheduler and tables to be right.
4. `checkpoint_rotation` — with `max_ckpt_to_keep` 1, the value the trainer recommends, the
   only complete checkpoint is removed before the new one is written; a crash in between
   leaves nothing to restart from, and the restart raises.
5. `agent_refused` — a user's answer is appended without the length test that tools' answers
   have; a conversation that fills the context makes the next `generate` raise, and with it
   the whole batch.

Disagreements between the code and its text that the models state without a run of their own
(the definitions named are in the modules, and not satisfied):

- `SDToggle!ReportedSDIsOn`: with a roofline configuration that does not load, the engine
  reports SD on, and the scheduler never has it on.
- `SDToggle!LMeasuredAtItsGamma`: the seed of L after a move is overwritten at the next
  `wake_up` by the acceptance length of the old gamma under the new one's tag.
- `SDToggle!FullBatchEndsRampUp`: the scheduler has no `max_num_seqs`; with at most 32 places
  the roofline never leaves the ramp-up.
- `SDStats!ToggleIsFresh`: the statistics of the step after the last request can arrive after
  the reset, and report a toggle in a rollout that had none.
- `BatchPipeline!TokensFit`: `max_token_len` is called the maximum of a micro-batch; the number
  of micro-batches follows from the sum over all rows, so that one can exceed it.

And observed while modelling:

- The manager's "least requests" counts are never taken back, which makes it round robin
  (`LoadIsSpread` holds for that reason).
- `seqlen_balancing.py:366` says that empty micro-batches are padded; line 398 asserts that
  there are none.
- `ToolAgentLoop` never calls `finalize_interaction`.
- A score function that times out keeps its thread, so that more than `max_concurrent` may
  run; the limiters are per process, where the docstring (`limited.py:195`) has them global.
- A crash while the tracker is written leaves it empty, and every restart raises until
  someone repairs it (`TrainingEnds` and `RestartSucceeds` name the case).
- After a restart the earlier run's checkpoints are no longer rotated, and when
  `total_training_steps` is below what the epochs offer, a job restarted after its last save
  trains one step more.

## 8. Model-checked only

Liveness (`RolloutEnds` of both modules, `RequestsEnd`, `TrainingEnds`) is out of the prover's
reach: it rests on fairness, and so on ENABLED.  The abstract specifications that are proved to be
implemented state safety only, for the same reason.  Every invariant, every action property
and every refinement that a passing run checks has a theorem.  What the five runs
that expect a violation refute is not provable, with one exception: `RestartSucceeds` is a
theorem for every `MaxKeep` but 1.

## 9. Not modelled

- Numbers: the roofline's prediction, its fit and sweep, quantisation, the rejection
  sampler and all kernels.  Their outcome is chosen freely where a model needs it.
- The scheduler's priority policy, KV connectors, structured output, LoRA and encoder
  inputs, cache managers other than full attention's: the rollout uses none.  The attention
  backend's reordering of the batch: FlashAttention has none.
- The values of drafts.  They matter for one hazard, listed in PROJECT.json: a running request
  left out of a step by the budget rejoins the batch without its drafts being written.
- The trainer's algorithms (advantages, losses, KL control in `core_algos.py`), the models, the
  Megatron workers, reward functions and data preparation: numerics and library calls.  Of the
  FSDP workers the loops over mini- and micro-batches and the checkpoints are modelled; the
  forward, offloading and the exchange of weights are not.
- The Hugging Face copy of a checkpoint and the copy to HDFS.  The `async_save` branch of
  `_save_checkpoint` (`ray_trainer.py:1080-1088`), in which the driver returns without writing
  the tracker and leaves it to whoever completes the save.
- Which rows `ngram` finds drafts for: any number up to `Gamma` for each row, where the code
  gives none to a row still in its prompt.
- The allocation policies: all but the default raise NotImplementedError, and the default
  assigns nothing.  Nobody reads the length tracker.
- vLLM's API servers, data-parallel engines, pipeline parallelism, async scheduling: not
  used by this configuration, or unrelated to speculation.
- The death of a single process while the job runs on: Ray supervises it, outside this code.
  `collective_rpc` waits for each reply without a timeout.  The death of the whole job is
  `Crash` in `TrainerCheckpoint`.

Most of the repository is numerics, model definitions, and a vendored inference engine; the
models cover its control, which is a small share of the lines.

## 10. Plan

1. *Done*: the rollout's controllers (`GammaLadder`, `ClusterGamma`, `GammaConsensus`,
   `SDToggle`, `SDStats`), the engine underneath (`BlockPool`, `KVScheduler`, `KVCache`), and
   the trainer around them (`TrainerCheckpoint`, `SeqlenBalancing`, `BatchPipeline`,
   `AgentLoop`, `RewardLimiter`, `AgentRollout`); proofs for `GammaConsensus`, `SDToggle`,
   `SDStats`, `KVScheduler` with `BlockPool`, `KVCache`, `TrainerCheckpoint`,
   `BatchPipeline` with `SeqlenBalancing`, and `AgentRollout`.
2. *Done*: abstract specifications of what the consensus, the scheduler and the checkpoints
   promise (`ClusterGamma`, `RequestOutputs`, `ResumableTraining`), with refinements proved;
   `EngineCalls` between `GammaConsensus` and `SDToggle`, proved of both.
3. The drafts' values and `token_ids_cpu` in `KVCache`, for the hazard above.
4. `SDStats` under the calls of `EngineCalls`, with the snapshot and the reset added to them.
