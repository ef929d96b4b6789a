---------------------------- MODULE AgentRollout ----------------------------
(***************************************************************************)
(* A batch of an agent-loop worker with its rewards: every sample runs its *)
(* loop, asks the reward worker of this agent-loop worker for its score,   *)
(* and is done when the score is set; the batch ends with its last sample. *)
(* Both workers are event loops of their own, so their steps interleave.   *)
(***************************************************************************)
EXTENDS AgentLoop, RewardLimiter

vars == <<agentVars, limiterVars>>

ASSUME RolloutAssumption == Requests = Samples

TypeOK == AgentTypeOK /\ LimiterTypeOK

Init == AgentInit /\ LimiterInit

\* _compute_score: the request is a remote call of the reward worker.
AskScore(s) == ScoreAsked(s) /\ Ask(s)

\* The answer arrives: a score, or 0.0 for a timeout or an error.
TakeScore(s) == ScoreSet(s) /\ Collect(s)

Next ==
  \/ AgentNext /\ UNCHANGED limiterVars
  \/ LimiterNext /\ UNCHANGED agentVars
  \/ \E s \in Samples : AskScore(s) \/ TakeScore(s)

\* The rollout of a process goes no further when a task has raised, or when
\* its last batch is done.
Ended == failed \/ (batch = Batches /\ \A s \in Samples : state[s] = "DONE")

Spec == Init /\ [][Next]_vars

\* The event loops never stop while one of them has something to run: the
\* servers, the tools, the users and the score functions all return at last.
FairSpec == Spec /\ WF_vars(Next)

\* Every batch ends, or raises.  A loop without any limit of turns ends with
\* its response; a score is given however the limiters, the semaphore, the
\* threads and the timeouts meet.
RolloutEnds == <>Ended
=============================================================================
