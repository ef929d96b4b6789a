---------------------------- MODULE GammaConsensus ----------------------------
(***************************************************************************)
(* The trainer-side controller of adaptive gamma (AgentLoopManager) and    *)
(* the rollout servers it drives.                                          *)
(*                                                                         *)
(* A call of generate_sequences is a walk of the trainer through phases:   *)
(*                                                                         *)
(*   idle -> [enabling] -> rollout -> [broadcast [-> rollback]]            *)
(*        -> resetting -> [clearing] -> idle                               *)
(*                                                                         *)
(* The bracketed ones are taken by validation rollouts (enabling,          *)
(* clearing) and by rollouts that move gamma.  An exception leads through  *)
(* the finally block (clearing) to "aborted", where training ends.         *)
(*                                                                         *)
(* The remote calls of a fan-out are served by each server at its own      *)
(* pace, in the order they were sent; the trainer goes on as soon as one   *)
(* of them raises, so a rollback is sent while other servers still have    *)
(* the forward call in their queue.                                        *)
(***************************************************************************)
EXTENDS GammaLadder, FiniteSets, FiniteSetsExt

CONSTANTS
  Servers,        \* one per rollout replica (server_handles)
  Workers,        \* the tensor-parallel ranks behind each engine
  PersistenceN,   \* VLLM_GAMMA_PERSISTENCE
  AlphaUp,        \* VLLM_GAMMA_AR_THRESHOLD, in percent
  AlphaDown,      \* VLLM_GAMMA_AR_THRESHOLD_LOWER, in percent
  Tallies,        \* what a rollout of one engine may tally: [accepted, drafted]
  MaxRollouts,    \* bound: calls of generate_sequences
  MaxFaults       \* bound: calls that raise

ASSUME PersistenceAssumption == PersistenceN \in Nat \ {0}

ASSUME TalliesAssumption ==
  Tallies \subseteq [accepted : Nat, drafted : Nat]

ASSUME ReplicasAssumption == Servers # {} /\ Workers # {}

VARIABLES
  \* AgentLoopManager
  phase,          \* where generate_sequences is
  validating,     \* meta_info["validate"] of the current batch
  raising,        \* an exception is passing through the finally block
  crossings,      \* _consecutive_crossings
  lowCrossings,   \* _consecutive_low_crossings
  current,        \* current_gamma of the decision being applied
  awaited,        \* the call of the fan-out the trainer is waiting for
  replies,        \* what ray.get has received for it from each server
  rollback,       \* how the rollback ended, as logged
  \* the servers and the engines behind them
  calls,          \* the remote calls a server has not served yet
  gamma,          \* EngineCore._current_gamma
  workerGamma,    \* GPUModelRunner.num_spec_tokens of each worker
  deadLoops,      \* workers whose ZeroMQ loop ended after an exception
  validateMode,   \* EngineCore._validate_mode
  \* the SD statistics of the current rollout, per server
  tally,          \* total_accepted_tokens and total_draft_tokens
  reported,       \* sd_current_gamma, -1 when the engine took no step
  generated,      \* the engine is done with its part of the batch
  \* history and bounds
  evidence,       \* what each training rollout since the last move has shown
  rollouts,
  faults

trainerVars == <<phase, validating, raising, crossings, lowCrossings, current,
                 rollback>>
fanOutVars == <<awaited, replies, calls>>
engineVars == <<gamma, workerGamma, deadLoops, validateMode>>
statVars == <<tally, reported, generated>>
historyVars == <<evidence>>
vars == <<trainerVars, fanOutVars, engineVars, statVars, historyVars, rollouts,
          faults>>

Phases == {"idle", "enabling", "rollout", "broadcast", "rollback", "resetting",
           "clearing", "aborted"}

ForceSetGamma(g) == [op |-> "force_set_gamma", arg |-> g]
SetValidateMode(mode) == [op |-> "set_validate_mode", arg |-> mode]
NoCall == [op |-> "none", arg |-> 0]
Calls == {ForceSetGamma(g) : g \in Gammas} \cup {SetValidateMode(m) : m \in {0, 1}}

Pending == [status |-> "pending", val |-> 0]
Raised == [status |-> "raised", val |-> 0]
Returned(v) == [status |-> "returned", val |-> v]
Replies == {Pending, Raised} \cup {Returned(v) : v \in Gammas \cup {0, 1}}

Crossings == {"up", "down", "between", "none"}

NoTally == [accepted |-> 0, drafted |-> 0]

Init ==
  /\ phase = "idle" /\ validating = FALSE /\ raising = FALSE
  /\ crossings = 0 /\ lowCrossings = 0
  /\ current = Ladder[1]
  /\ rollback = "none"
  /\ awaited = NoCall
  /\ replies = [s \in Servers |-> Pending]
  /\ calls = [s \in Servers |-> <<>>]
  /\ gamma = [s \in Servers |-> Ladder[1]]
  /\ workerGamma = [s \in Servers |-> [w \in Workers |-> Ladder[1]]]
  /\ deadLoops = [s \in Servers |-> {}]
  /\ validateMode = [s \in Servers |-> FALSE]
  /\ tally = [s \in Servers |-> NoTally]
  /\ reported = [s \in Servers |-> -1]
  /\ generated = [s \in Servers |-> FALSE]
  /\ evidence = <<>>
  /\ rollouts = 0 /\ faults = 0

-------------------------------------------------------------------------------
(* Fan-outs: [h.m.remote(x) for h in server_handles] and ray.get.          *)

FanOut(call) ==
  /\ awaited' = call
  /\ replies' = [s \in Servers |-> Pending]
  /\ calls' = [s \in Servers |-> Append(calls[s], call)]

AllReturned == \A s \in Servers : replies[s].status = "returned"
SomeRaised == \E s \in Servers : replies[s].status = "raised"

\* Every reply is in and each is the value asked for.
AllReturnedWhatWasAsked ==
  \A s \in Servers : replies[s] = Returned(awaited.arg)

\* ray.get raised, or it returned and some value is not the one asked for.
FanOutFailed == SomeRaised \/ (AllReturned /\ ~AllReturnedWhatWasAsked)

\* Server s answers the call at the head of its queue.  The answer to a call
\* nobody waits for any more is dropped.
Answer(s, reply) ==
  /\ calls' = [calls EXCEPT ![s] = Tail(@)]
  /\ replies' = IF Head(calls[s]) = awaited
                THEN [replies EXCEPT ![s] = reply] ELSE replies
  /\ UNCHANGED <<awaited, trainerVars, statVars, historyVars, rollouts>>

Serving(s, op) == calls[s] # <<>> /\ Head(calls[s]).op = op

Fault == faults < MaxFaults /\ faults' = faults + 1

-------------------------------------------------------------------------------
(* The servers.                                                            *)

\* EngineCore.force_set_gamma when there is nothing to do: the engine is at
\* this gamma already.
ForceNoOp(s) ==
  LET g == Head(calls[s]).arg IN
  /\ Serving(s, "force_set_gamma") /\ g = gamma[s]
  /\ Answer(s, Returned(g))
  /\ UNCHANGED <<engineVars, faults>>

\* collective_rpc("set_current_gamma") reaches every worker, then the engine
\* follows.  A worker whose loop has ended never answers the RPC, and the
\* engine waits for it for ever.
ForceApplies(s) ==
  LET g == Head(calls[s]).arg IN
  /\ Serving(s, "force_set_gamma") /\ g # gamma[s]
  /\ deadLoops[s] = {}
  /\ workerGamma' = [workerGamma EXCEPT ![s] = [w \in Workers |-> g]]
  /\ gamma' = [gamma EXCEPT ![s] = g]
  /\ Answer(s, Returned(g))
  /\ UNCHANGED <<deadLoops, validateMode, faults>>

\* Mutant: the engine takes the new gamma before the RPC to the workers.
ForceRaisesAfterEngineMoved(s) ==
  LET g == Head(calls[s]).arg IN
  /\ Serving(s, "force_set_gamma") /\ g # gamma[s]
  /\ deadLoops[s] = {}
  /\ Fault
  /\ gamma' = [gamma EXCEPT ![s] = g]
  /\ \E failed \in (SUBSET Workers) \ {{}} :
       deadLoops' = [deadLoops EXCEPT ![s] = failed]
  /\ Answer(s, Raised)
  /\ UNCHANGED <<workerGamma, validateMode>>

\* Some workers raise in set_current_gamma: their loop sends the exception and
\* ends, the other workers have changed, and collective_rpc re-raises before
\* the engine changes anything of its own.
ForceRaisesInWorkers(s) ==
  LET g == Head(calls[s]).arg IN
  /\ Serving(s, "force_set_gamma") /\ g # gamma[s]
  /\ deadLoops[s] = {}
  /\ Fault
  /\ \E failed \in (SUBSET Workers) \ {{}} :
       /\ deadLoops' = [deadLoops EXCEPT ![s] = failed]
       /\ workerGamma' = [workerGamma EXCEPT ![s] =
            [w \in Workers |-> IF w \in failed THEN @[w] ELSE g]]
  /\ Answer(s, Raised)
  /\ UNCHANGED <<gamma, validateMode>>

ServeSetValidateMode(s) ==
  LET mode == Head(calls[s]).arg IN
  /\ Serving(s, "set_validate_mode")
  /\ validateMode' = [validateMode EXCEPT ![s] = (mode = 1)]
  /\ Answer(s, Returned(mode))
  /\ UNCHANGED <<gamma, workerGamma, deadLoops, faults>>

\* A call that raises before it reaches the engine: no engine on the server, or
\* a dead one (EngineDeadError).
CallRaises(s) ==
  /\ calls[s] # <<>>
  /\ Fault
  /\ Answer(s, Raised)
  /\ UNCHANGED engineVars

Serve(s) ==
  \/ ForceNoOp(s) \/ ForceApplies(s) \/ ForceRaisesInWorkers(s)
  \/ ServeSetValidateMode(s) \/ CallRaises(s)

-------------------------------------------------------------------------------
(* generate_sequences.                                                     *)

StartTrainingRollout ==
  /\ phase = "idle" /\ rollouts < MaxRollouts
  /\ phase' = "rollout"
  /\ validating' = FALSE
  /\ rollouts' = rollouts + 1
  /\ UNCHANGED <<raising, crossings, lowCrossings, current, rollback, fanOutVars,
                 engineVars, statVars, historyVars, faults>>

\* set_validate_mode(True) on every replica, inside the try.
StartValidationRollout ==
  /\ phase = "idle" /\ rollouts < MaxRollouts
  /\ phase' = "enabling"
  /\ validating' = TRUE
  /\ rollouts' = rollouts + 1
  /\ FanOut(SetValidateMode(1))
  /\ UNCHANGED <<raising, crossings, lowCrossings, current, rollback, engineVars,
                 statVars, historyVars, faults>>

ValidateModeEnabled ==
  /\ phase = "enabling" /\ AllReturned
  /\ phase' = "rollout"
  /\ UNCHANGED <<validating, raising, crossings, lowCrossings, current, rollback,
                 fanOutVars, engineVars, statVars, historyVars, rollouts, faults>>

\* An exception leaves _generate_sequences_impl or the try: the finally block
\* clears the validate mode of a validation rollout, and training is over.
Raise ==
  IF validating
  THEN /\ phase' = "clearing" /\ raising' = TRUE
       /\ FanOut(SetValidateMode(0))
  ELSE phase' = "aborted" /\ UNCHANGED <<raising, fanOutVars>>

EnablingRaises ==
  /\ phase = "enabling" /\ SomeRaised
  /\ Raise
  /\ UNCHANGED <<validating, crossings, lowCrossings, current, rollback, engineVars,
                 statVars, historyVars, rollouts, faults>>

\* wake_up, the generation itself, get_sd_stats, reset_sd_stats or sleep raises.
RolloutRaises ==
  /\ phase \in {"rollout", "resetting"}
  /\ Fault
  /\ Raise
  /\ UNCHANGED <<validating, crossings, lowCrossings, current, rollback, engineVars,
                 statVars, historyVars, rollouts>>

\* Server s finishes its part of the batch.  With no request for it the engine
\* takes no step and reports no gamma.
GenerateOn(s) ==
  /\ phase = "rollout" /\ ~generated[s]
  /\ generated' = [generated EXCEPT ![s] = TRUE]
  /\ \/ UNCHANGED <<tally, reported>>
     \/ \E t \in Tallies :
          /\ tally' = [tally EXCEPT ![s] = t]
          /\ reported' = [reported EXCEPT ![s] = gamma[s]]
  /\ UNCHANGED <<trainerVars, fanOutVars, engineVars, historyVars, rollouts, faults>>

-------------------------------------------------------------------------------
(* The decision, after get_sd_stats has returned from every server.        *)

TotalAccepted == MapThenSumSet(LAMBDA s : tally[s].accepted, Servers)
TotalDrafted == MapThenSumSet(LAMBDA s : tally[s].drafted, Servers)

GammasSeen == {reported[s] : s \in Servers} \ {-1}

HasEvidence == TotalDrafted > 0 /\ GammasSeen # {}

\* current_gamma = gammas_seen[0]
SeenGamma == CHOOSE g \in GammasSeen : TRUE

\* cluster_ar = TotalAccepted / TotalDrafted against the two thresholds; a
\* crossing counts only when the ladder has a rung on that side.
ReadyToElevate ==
  HasNext(SeenGamma) /\ 100 * TotalAccepted >= AlphaUp * TotalDrafted
ReadyToLower ==
  HasPrev(SeenGamma) /\ 100 * TotalAccepted <= AlphaDown * TotalDrafted

Crossing ==
  IF ~HasEvidence THEN "none"
  ELSE IF ReadyToElevate THEN "up"
  ELSE IF ReadyToLower THEN "down"
  ELSE "between"

\* Every training rollout is remembered, one that drafted nothing as "none".
Remember == evidence' = Append(evidence, Crossing)

Collected == phase = "rollout" /\ \A s \in Servers : generated[s]

\* Servers that report different gammas would make the trainer raise instead of
\* deciding; UniformGamma says this never happens, so the raise has no action.
Deciding == Collected /\ ~validating /\ HasEvidence /\ Cardinality(GammasSeen) = 1

\* A validation rollout decides nothing.
SkipValidation ==
  /\ Collected /\ validating
  /\ phase' = "resetting"
  /\ UNCHANGED <<validating, raising, crossings, lowCrossings, current, rollback,
                 fanOutVars, engineVars, statVars, historyVars, rollouts, faults>>

\* Nothing was drafted: the decision is skipped, the counters stay.
SkipNoEvidence ==
  /\ Collected /\ ~validating /\ ~HasEvidence
  /\ phase' = "resetting"
  /\ Remember
  /\ UNCHANGED <<validating, raising, crossings, lowCrossings, current, rollback,
                 fanOutVars, engineVars, statVars, rollouts, faults>>

\* Mutant: an upward crossing leaves the downward counter alone.
CrossUpKeepsLow ==
  /\ Deciding /\ Crossing = "up"
  /\ crossings' = crossings + 1
  /\ current' = SeenGamma
  /\ IF crossings + 1 >= PersistenceN
     THEN phase' = "broadcast" /\ FanOut(ForceSetGamma(NextGamma(SeenGamma)))
     ELSE phase' = "resetting" /\ UNCHANGED fanOutVars
  /\ Remember
  /\ UNCHANGED <<validating, raising, lowCrossings, rollback, engineVars, statVars,
                 rollouts, faults>>

\* crossings += 1 and, at the persistence, the broadcast of the next rung.
CrossUp ==
  /\ Deciding /\ Crossing = "up"
  /\ crossings' = crossings + 1
  /\ lowCrossings' = 0
  /\ current' = SeenGamma
  /\ IF crossings + 1 >= PersistenceN
     THEN phase' = "broadcast" /\ FanOut(ForceSetGamma(NextGamma(SeenGamma)))
     ELSE phase' = "resetting" /\ UNCHANGED fanOutVars
  /\ Remember
  /\ UNCHANGED <<validating, raising, rollback, engineVars, statVars, rollouts, faults>>

CrossDown ==
  /\ Deciding /\ Crossing = "down"
  /\ lowCrossings' = lowCrossings + 1
  /\ crossings' = 0
  /\ current' = SeenGamma
  /\ IF lowCrossings + 1 >= PersistenceN
     THEN phase' = "broadcast" /\ FanOut(ForceSetGamma(PrevGamma(SeenGamma)))
     ELSE phase' = "resetting" /\ UNCHANGED fanOutVars
  /\ Remember
  /\ UNCHANGED <<validating, raising, rollback, engineVars, statVars, rollouts, faults>>

\* Mutant: a rollout between the thresholds leaves the counters alone.
NoCrossingKeepsCounters ==
  /\ Deciding /\ Crossing = "between"
  /\ current' = SeenGamma
  /\ phase' = "resetting"
  /\ Remember
  /\ UNCHANGED <<validating, raising, crossings, lowCrossings, rollback, fanOutVars,
                 engineVars, statVars, rollouts, faults>>

\* Between the thresholds, or at the end of the ladder: both counters restart.
NoCrossing ==
  /\ Deciding /\ Crossing = "between"
  /\ crossings' = 0 /\ lowCrossings' = 0
  /\ current' = SeenGamma
  /\ phase' = "resetting"
  /\ Remember
  /\ UNCHANGED <<validating, raising, rollback, fanOutVars, engineVars, statVars,
                 rollouts, faults>>

-------------------------------------------------------------------------------
(* _broadcast_set_gamma, and the way out.                                  *)

\* Mutant: a server that raises counts as one that has nothing to say.
BroadcastIgnoresErrors ==
  /\ phase = "broadcast" /\ \A s \in Servers : replies[s] # Pending
  /\ phase' = "resetting"
  /\ crossings' = 0 /\ lowCrossings' = 0
  /\ evidence' = <<>>
  /\ UNCHANGED <<validating, raising, current, rollback, fanOutVars, engineVars,
                 statVars, rollouts, faults>>

\* Every server confirmed: the counter that led here restarts.
BroadcastSucceeds ==
  /\ phase = "broadcast" /\ AllReturned /\ AllReturnedWhatWasAsked
  /\ phase' = "resetting"
  /\ IF awaited.arg > current
     THEN crossings' = 0 /\ UNCHANGED lowCrossings
     ELSE lowCrossings' = 0 /\ UNCHANGED crossings
  /\ evidence' = <<>>
  /\ UNCHANGED <<validating, raising, current, rollback, fanOutVars, engineVars,
                 statVars, rollouts, faults>>

\* The first failure sends current_gamma to all servers.
BroadcastFails ==
  /\ phase = "broadcast" /\ FanOutFailed
  /\ phase' = "rollback"
  /\ FanOut(ForceSetGamma(current))
  /\ UNCHANGED <<validating, raising, crossings, lowCrossings, current, rollback,
                 engineVars, statVars, historyVars, rollouts, faults>>

\* Mutant: the rollback is reported before the servers have confirmed it.
RollbackNotAwaited ==
  /\ phase = "rollback" /\ ~SomeRaised
  /\ rollback' = "completed"
  /\ phase' = "aborted"
  /\ UNCHANGED <<validating, raising, crossings, lowCrossings, current, fanOutVars,
                 engineVars, statVars, historyVars, rollouts, faults>>

\* However the rollback ends, the error of the broadcast is raised again.
RollbackEnds ==
  /\ phase = "rollback"
  /\ \/ AllReturned /\ AllReturnedWhatWasAsked /\ rollback' = "completed"
     \/ FanOutFailed /\ rollback' = "failed"
  /\ phase' = "aborted"
  /\ UNCHANGED <<validating, raising, crossings, lowCrossings, current, fanOutVars,
                 engineVars, statVars, historyVars, rollouts, faults>>

\* Mutant: the validate mode is cleared on the error path only.
ResetWithoutClearing ==
  /\ phase = "resetting"
  /\ tally' = [s \in Servers |-> NoTally]
  /\ reported' = [s \in Servers |-> -1]
  /\ generated' = [s \in Servers |-> FALSE]
  /\ phase' = "idle"
  /\ UNCHANGED <<validating, raising, crossings, lowCrossings, current, rollback,
                 fanOutVars, engineVars, historyVars, rollouts, faults>>

\* reset_sd_stats on every server, then sleep.
ResetAndSleep ==
  /\ phase = "resetting"
  /\ tally' = [s \in Servers |-> NoTally]
  /\ reported' = [s \in Servers |-> -1]
  /\ generated' = [s \in Servers |-> FALSE]
  /\ IF validating
     THEN phase' = "clearing" /\ FanOut(SetValidateMode(0))
     ELSE phase' = "idle" /\ UNCHANGED fanOutVars
  /\ UNCHANGED <<validating, raising, crossings, lowCrossings, current, rollback,
                 engineVars, historyVars, rollouts, faults>>

\* set_validate_mode(False) has returned everywhere.
ValidateModeCleared ==
  /\ phase = "clearing" /\ AllReturned
  /\ phase' = IF raising THEN "aborted" ELSE "idle"
  /\ UNCHANGED <<validating, raising, crossings, lowCrossings, current, rollback,
                 fanOutVars, engineVars, statVars, historyVars, rollouts, faults>>

ClearingRaises ==
  /\ phase = "clearing" /\ SomeRaised
  /\ phase' = "aborted"
  /\ UNCHANGED <<validating, raising, crossings, lowCrossings, current, rollback,
                 fanOutVars, engineVars, statVars, historyVars, rollouts, faults>>

\* Training is over, after its last rollout or aborted, and the servers idle.
Finished ==
  /\ phase = "aborted" \/ (phase = "idle" /\ rollouts = MaxRollouts)
  /\ \A s \in Servers : calls[s] = <<>>
  /\ UNCHANGED vars

-------------------------------------------------------------------------------
Trainer ==
  \/ StartTrainingRollout \/ StartValidationRollout
  \/ ValidateModeEnabled \/ EnablingRaises \/ RolloutRaises
  \/ SkipValidation \/ SkipNoEvidence \/ CrossUp \/ CrossDown \/ NoCrossing
  \/ BroadcastSucceeds \/ BroadcastFails \/ RollbackEnds
  \/ ResetAndSleep \/ ValidateModeCleared \/ ClearingRaises

Next ==
  \/ Trainer
  \/ \E s \in Servers : Serve(s) \/ GenerateOn(s)
  \/ Finished

\* The trainer is one thread that never waits on anything but its calls; each
\* server's event loop and engine loop serve what they are sent.
Fairness ==
  /\ WF_vars(Trainer)
  /\ \A s \in Servers : WF_vars(Serve(s)) /\ WF_vars(GenerateOn(s))

Spec == Init /\ [][Next]_vars

FairSpec == Spec /\ Fairness

-------------------------------------------------------------------------------
(* Properties.                                                             *)

TrainerTypeOK ==
  /\ phase \in Phases /\ validating \in BOOLEAN /\ raising \in BOOLEAN
  /\ crossings \in 0..PersistenceN /\ lowCrossings \in 0..PersistenceN
  /\ current \in Gammas
  /\ rollback \in {"none", "completed", "failed"}

FanOutTypeOK ==
  /\ awaited \in Calls \cup {NoCall}
  /\ replies \in [Servers -> Replies]
  /\ calls \in [Servers -> Seq(Calls)]

EngineTypeOK ==
  /\ gamma \in [Servers -> Gammas]
  /\ workerGamma \in [Servers -> [Workers -> Gammas]]
  /\ deadLoops \in [Servers -> SUBSET Workers]
  /\ validateMode \in [Servers -> BOOLEAN]

StatsTypeOK ==
  /\ tally \in [Servers -> [accepted : Nat, drafted : Nat]]
  /\ reported \in [Servers -> Gammas \cup {-1}]
  /\ generated \in [Servers -> BOOLEAN]

HistoryTypeOK ==
  /\ evidence \in Seq(Crossings)
  /\ rollouts \in Nat /\ faults \in Nat

\* The types of all variables; for the counters, their range.
TypeOK ==
  /\ TrainerTypeOK
  /\ FanOutTypeOK
  /\ EngineTypeOK
  /\ StatsTypeOK
  /\ HistoryTypeOK

Moving == phase \in {"broadcast", "rollback"}

\* Outside a broadcast, and as long as training goes on, every engine and every
\* worker of the cluster is at the same gamma ("a split-gamma cluster silently
\* compounds across subsequent rollouts"): what _broadcast_set_gamma raises for,
\* and why the drift check of the decision never fires.
UniformGamma ==
  ~Moving /\ phase # "aborted" =>
    \A s, t \in Servers, w \in Workers :
      gamma[s] = gamma[t] /\ workerGamma[s][w] = gamma[s]

\* Engines accumulate for training rollouts only, and a validation rollout leaves
\* no engine in validation mode, whichever of the set and clear calls failed.
ValidateModeBracketsRollout ==
  /\ phase \in {"rollout", "broadcast", "rollback", "resetting"} =>
       \A s \in Servers : validateMode[s] = validating
  /\ phase = "idle" => \A s \in Servers : ~validateMode[s]

MovingTo(direction) ==
  phase = "broadcast" /\ IF direction = "up" THEN awaited.arg > current
                                            ELSE awaited.arg < current

\* seq ends with n crossings in the direction d, and no rollout from the first of them
\* on has shown anything else; some may have drafted nothing.
EndsWith(seq, d, n) ==
  \E first \in 1..(Len(seq) + 1) :
    /\ \A i \in first..Len(seq) : seq[i] \in {d, "none"}
    /\ Cardinality({i \in first..Len(seq) : seq[i] = d}) = n

\* A move is backed by PersistenceN crossings of the same threshold at this gamma:
\* none older than the last move, none on the other side of a rollout that was
\* observed between the thresholds or beyond the other one, none from validation.
EvidenceForMove ==
  \A d \in {"up", "down"} : MovingTo(d) => EndsWith(evidence, d, PersistenceN)

\* When the rollback is logged as completed, every engine is back at the gamma of
\* before the broadcast, also one that served the forward call late.
RollbackRestoresEngines ==
  rollback = "completed" => \A s \in Servers : gamma[s] = current

\* What the log line says of it: rollback completed, all servers confirmed, the
\* cluster state consistent.
RollbackRestoresCluster ==
  rollback = "completed" =>
    \A s \in Servers, w \in Workers :
      gamma[s] = current /\ workerGamma[s][w] = current

\* What the comments on the gate say: the threshold is crossed in "N consecutive
\* training rollouts", and no counter is carried "across a rollout we never actually
\* observed".  Violated: a rollout that drafts nothing leaves the counters alone.
ConsecutiveCrossings ==
  \A d \in {"up", "down"} :
    MovingTo(d) =>
      /\ Len(evidence) >= PersistenceN
      /\ \A i \in 1..PersistenceN : evidence[Len(evidence) - PersistenceN + i] = d

\* Every call of generate_sequences returns or raises: no fan-out waits for a
\* server that never answers, not even one that has lost workers.
RolloutEnds == phase # "idle" ~> phase \in {"idle", "aborted"}

\* The cluster as ClusterGamma sees it: while a move is being broadcast it is
\* still at the old gamma, and there it stays when the move is rolled back.
ClusterGammaBar ==
  IF Moving \/ rollback # "none" THEN current
  ELSE gamma[CHOOSE s \in Servers : TRUE]

Cluster == INSTANCE ClusterGamma
  WITH clusterGamma <- ClusterGammaBar, stopped <- (phase = "aborted")

\* The controller and its servers implement one gamma for the whole cluster.
ImplementsClusterGamma == Cluster!Spec

\* The rollout as the engine of server s sees it.  An engine that has moved is done
\* with its rollout, and so is every engine when the statistics are being reset.
EnginePhase(s) ==
  IF raising \/ phase \in {"rollback", "aborted"} THEN "stopped"
  ELSE IF phase = "rollout" THEN IF generated[s] THEN "drained" ELSE "awake"
  ELSE IF phase = "broadcast" THEN IF gamma[s] = current THEN "drained" ELSE "idle"
  ELSE IF ~validateMode[s] THEN "idle"
  ELSE IF phase \in {"idle", "enabling"} THEN "flagged"
  ELSE "clearing"

Engine(s) == INSTANCE EngineCalls
  WITH phase <- EnginePhase(s), gamma <- gamma[s], validateMode <- validateMode[s]

\* Every engine is called as SDToggle assumes it is: flagged only before a rollout
\* and cleared before the next, no move while it generates, one move of one rung
\* after it and none after a validation, whatever the other engines are doing; only
\* after a failure, which ends training, may the order be different.
DrivesEngines ==
  /\ \A s \in Servers : Engine(s)!Init
  /\ [][\A s \in Servers : Engine(s)!Next \/ UNCHANGED Engine(s)!vars]_vars
=============================================================================
