------------------------------ MODULE AgentLoop ------------------------------
(***************************************************************************)
(* A worker of the rollout's agent loops: AsyncLLMServerManager, which     *)
(* sends each sample's turns to one of the servers, and the loops of the   *)
(* samples, ToolAgentLoop and SingleTurnAgentLoop, which build a response  *)
(* out of generated tokens and of what tools and users answer.             *)
(*                                                                         *)
(* The samples of a batch are tasks of one event loop: a step runs from    *)
(* one await to the next.  They share the server manager and, since        *)
(* generate_sequences passes the same dict to all of them, the sampling    *)
(* parameters.  Tokens are modelled by where they come from.               *)
(***************************************************************************)
EXTENDS Integers, Sequences, FiniteSets, SequencesExt, FiniteSetsExt

CONSTANTS
  Samples,            \* the rows of a batch
  ServerOrder,        \* the server handles, as the manager has shuffled them
  CacheSize,          \* max_cache_size of the manager
  PromptLength,       \* rollout.prompt_length
  ResponseLength,     \* rollout.response_length
  MaxModelLen,        \* rollout.max_model_len
  MaxUserTurns,       \* multi_turn.max_user_turns, 0 for null
  MaxAssistantTurns,  \* multi_turn.max_assistant_turns, 0 for null
  MaxParallelCalls,   \* multi_turn.max_parallel_calls
  ToolCalls,          \* numbers of tool calls a turn may contain
  ObsLengths,         \* lengths of what tools and users answer, in tokens
  Batches,            \* bound on the batches of a behaviour
  None

ASSUME AgentAssumption ==
  /\ IsFiniteSet(Samples) /\ Samples # {}
  /\ ServerOrder \in Seq(Range(ServerOrder)) \ {<< >>} /\ IsInjective(ServerOrder)
  /\ None \notin Range(ServerOrder)
  /\ CacheSize \in Nat \ {0} /\ Batches \in Nat \ {0}
  /\ PromptLength \in Nat \ {0} /\ ResponseLength \in Nat \ {0}
  /\ MaxModelLen \in Nat /\ MaxModelLen >= PromptLength + ResponseLength
  /\ MaxUserTurns \in Nat /\ MaxAssistantTurns \in Nat
  /\ MaxParallelCalls \in Nat \ {0} /\ ToolCalls \subseteq Nat
  /\ ObsLengths \subseteq Nat \ {0}

VARIABLES
  batch,      \* calls of generate_sequences so far
  failed,     \* a task has raised, and gather with it: training stops
  kind,       \* the agent loop of each sample
  interacts,  \* there is an interaction_config_path
  state,      \* AgentState of each sample
  flight,     \* its generate call under way: the server, and the max_tokens
  ids,        \* prompt_ids, which grow to hold the whole conversation
  mask,       \* response_mask
  logprobs,   \* response_logprobs
  turns,      \* user_turns and assistant_turns
  calls,      \* its tool calls of this turn
  maxTokens,  \* sampling_params["max_tokens"], 0 when it is not set
  load,       \* weighted_serveres: the count of each server
  homes,      \* request_id_to_server, least recently used first
  recorded,   \* _gpu_response_lengths: the tokens of each server
  served      \* history: the servers each sample's turns were sent to

managerVars == <<load, homes, recorded, served>>
sampleVars == <<state, flight, ids, mask, logprobs, turns, calls>>
agentVars == <<batch, failed, kind, interacts, sampleVars, maxTokens, managerVars>>

Servers == Range(ServerOrder)
States == {"PENDING", "GENERATING", "PROCESSING_TOOLS", "INTERACTING",
           "TERMINATED", "SCORING", "DONE"}
\* A call is waiting to be made, has an instance of its tool, has executed
\* it or raised, or is over and its instance released.
CallStates == {"called", "created", "executed", "over"}

\* Mutant: every turn has a request id of its own.
RidOfTurn(s) == <<batch, s, turns[s]>>

\* The request id of a sample: a new one on every run, for all its turns.
Rid(s) == <<batch, s>>

AgentTypeOK ==
  /\ batch \in 1..Batches /\ failed \in BOOLEAN /\ interacts \in BOOLEAN
  /\ kind \in [Samples -> {"single", "tool"}]
  /\ state \in [Samples -> States]
  /\ \A s \in Samples :
       /\ flight[s] = None <=> state[s] # "GENERATING"
       /\ flight[s] # None => flight[s].server \in Servers
       /\ ids[s] \in Seq({"prompt", "gen", "obs"})
       /\ mask[s] \in Seq({0, 1})
       /\ logprobs[s] \in Seq({"sampled", "zero"})
       /\ calls[s] \in Seq(CallStates) /\ Len(calls[s]) <= MaxParallelCalls
  /\ turns \in [Samples -> [user : Nat, assistant : Nat]]
  /\ maxTokens \in {0, ResponseLength}
  /\ load \in [Servers -> Nat] /\ recorded \in [Servers -> Nat]
  /\ homes \in Seq([rid : (1..Batches) \X Samples, server : Servers])
  /\ Len(homes) <= CacheSize

-----------------------------------------------------------------------------
\* AsyncLLMServerManager.

Homed(rid) == \E i \in DOMAIN homes : homes[i].rid = rid
PlaceOf(rid) == CHOOSE i \in DOMAIN homes : homes[i].rid = rid
HomeOf(rid) == homes[PlaceOf(rid)].server

\* A use of an entry of the LRU cache makes it the most recent.
Touched(rid) == Append(RemoveAt(homes, PlaceOf(rid)), homes[PlaceOf(rid)])

\* A new entry, for which the least recently used one is evicted.
Entered(rid, server) ==
  Append(IF Len(homes) < CacheSize THEN homes ELSE Tail(homes),
         [rid |-> rid, server |-> server])

\* Mutant: the heap is not put in order again, and its root stays.
RootOfHeap == ServerOrder[1]

\* The root of the heap of weighted_serveres: least count, then least index.
LeastLoaded ==
  ServerOrder[CHOOSE i \in DOMAIN ServerOrder :
    \A j \in DOMAIN ServerOrder \ {i} :
      \/ load[ServerOrder[i]] < load[ServerOrder[j]]
      \/ load[ServerOrder[i]] = load[ServerOrder[j]] /\ i < j]

\* _choose_server: the server of the request's earlier turns, or the root of
\* the heap.  No count is ever taken back.
ChooseServer(rid) ==
  IF Homed(rid)
    THEN homes' = Touched(rid) /\ UNCHANGED load
    ELSE /\ load' = [load EXCEPT ![LeastLoaded] = @ + 1]
         /\ homes' = Entered(rid, LeastLoaded)

ChosenServer(rid) == IF Homed(rid) THEN HomeOf(rid) ELSE LeastLoaded

AtMost(a, b) == IF a <= b THEN a ELSE b

\* max_tokens of vLLMHttpServer.generate for a prompt of n tokens; below 1 it
\* raises, for a prompt that is too long or in SamplingParams.
MaxNewTokens(n, given) ==
  AtMost(IF given = 0 THEN ResponseLength + PromptLength - n ELSE given,
         MaxModelLen - n)

\* server_manager.generate, up to its await.  The parameters are copied when
\* the call is made.
Send(s, prompt, given) ==
  /\ ChooseServer(Rid(s))
  /\ flight' = [flight EXCEPT ![s] =
       [server |-> ChosenServer(Rid(s)),
        max |-> MaxNewTokens(Len(prompt), given)]]
  /\ served' = [served EXCEPT ![s] = @ \cup {ChosenServer(Rid(s))}]
  /\ state' = [state EXCEPT ![s] = "GENERATING"]
  /\ UNCHANGED recorded

Repeat(x, n) == [i \in 1..n |-> x]

-----------------------------------------------------------------------------
\* The loops.

AgentInit ==
  /\ batch = 1 /\ failed = FALSE
  /\ kind \in [Samples -> {"single", "tool"}]
  /\ interacts \in BOOLEAN
  /\ state = [s \in Samples |-> "PENDING"]
  /\ flight = [s \in Samples |-> None]
  /\ ids = [s \in Samples |-> << >>]
  /\ mask = [s \in Samples |-> << >>]
  /\ logprobs = [s \in Samples |-> << >>]
  /\ turns = [s \in Samples |-> [user |-> 0, assistant |-> 0]]
  /\ calls = [s \in Samples |-> << >>]
  /\ maxTokens = 0
  /\ load = [v \in Servers |-> 0]
  /\ homes = << >>
  /\ recorded = [v \in Servers |-> 0]
  /\ served = [s \in Samples |-> {}]

\* The first turn: _handle_pending_state, or SingleTurnAgentLoop.run, which
\* sets max_tokens in the parameters of all.
Begin(s) ==
  /\ ~failed /\ state[s] = "PENDING"
  /\ maxTokens' = IF kind[s] = "single" THEN ResponseLength ELSE maxTokens
  /\ \E n \in 1..PromptLength :
       /\ ids' = [ids EXCEPT ![s] = Repeat("prompt", n)]
       /\ Send(s, ids'[s], maxTokens')
  /\ UNCHANGED <<batch, failed, kind, interacts, mask, logprobs, turns,
                 calls>>

\* The server refuses the request, and its exception ends the batch.
GenerateRaises(s) ==
  /\ ~failed /\ state[s] = "GENERATING" /\ flight[s].max < 1
  /\ failed' = TRUE
  /\ UNCHANGED <<batch, kind, interacts, sampleVars, maxTokens, managerVars>>

\* _record_gpu_response, for a request the cache still knows.
Record(s, n) ==
  IF Homed(Rid(s))
    THEN /\ recorded' = [recorded EXCEPT ![HomeOf(Rid(s))] = @ + n]
         /\ homes' = Touched(Rid(s))
    ELSE UNCHANGED <<recorded, homes>>

\* The limits of _handle_generating_state, after its turn is counted.
NoMoreTurns(s) ==
  \/ Len(mask'[s]) >= ResponseLength
  \/ MaxAssistantTurns > 0 /\ turns'[s].assistant >= MaxAssistantTurns
  \/ MaxUserTurns > 0 /\ turns'[s].user >= MaxUserTurns

\* What follows a turn with n tool calls, of which the first
\* max_parallel_calls are made.
NextState(s, n) ==
  CASE kind[s] = "single" \/ NoMoreTurns(s) -> "TERMINATED"
    [] OTHER -> IF n > 0 THEN "PROCESSING_TOOLS"
                ELSE IF interacts THEN "INTERACTING" ELSE "TERMINATED"

Extended(seq, x, n) == seq \o Repeat(x, n)

GenerateReturns(s) ==
  /\ ~failed /\ state[s] = "GENERATING"
  /\ \E n \in 1..flight[s].max, c \in ToolCalls :
       /\ Record(s, n)
       /\ ids' = [ids EXCEPT ![s] = Extended(@, "gen", n)]
       /\ mask' = [mask EXCEPT ![s] = Extended(@, 1, n)]
       /\ logprobs' = [logprobs EXCEPT ![s] = Extended(@, "sampled", n)]
       /\ turns' = [turns EXCEPT ![s].assistant = @ + 1]
       /\ state' = [state EXCEPT ![s] = NextState(s, c)]
       /\ calls' = [calls EXCEPT ![s] =
            IF NextState(s, c) = "PROCESSING_TOOLS"
              THEN Repeat("called", AtMost(c, MaxParallelCalls))
              ELSE << >>]
  /\ flight' = [flight EXCEPT ![s] = None]
  /\ UNCHANGED <<batch, failed, kind, interacts, maxTokens, load,
                 served>>

\* Mutant: the answers get no log-probabilities of their own.
ObserveWithoutLogprobs(s, n) ==
  /\ ids' = [ids EXCEPT ![s] = Extended(@, "obs", n)]
  /\ mask' = [mask EXCEPT ![s] = Extended(@, 0, n)]
  /\ turns' = [turns EXCEPT ![s].user = @ + 1]
  /\ UNCHANGED logprobs

\* An answer of n tokens joins the conversation, out of the policy's mask.
Observe(s, n) ==
  /\ ids' = [ids EXCEPT ![s] = Extended(@, "obs", n)]
  /\ mask' = [mask EXCEPT ![s] = Extended(@, 0, n)]
  /\ logprobs' = [logprobs EXCEPT ![s] =
       IF @ = << >> THEN @ ELSE Extended(@, "zero", n)]
  /\ turns' = [turns EXCEPT ![s].user = @ + 1]

\* A step of the k-th call.
CallMoves(s, k, from, to) ==
  /\ ~failed /\ state[s] = "PROCESSING_TOOLS"
  /\ calls[s][k] = from
  /\ calls' = [calls EXCEPT ![s][k] = to]
  /\ UNCHANGED <<batch, failed, kind, interacts, state, flight, ids, mask,
                 logprobs, turns, maxTokens, managerVars>>

\* _call_tool.  A call that cannot be read, names no tool or gets no instance
\* is over; the error becomes its answer.
CallRefused(s, k) == CallMoves(s, k, "called", "over")

ToolCreated(s, k) == CallMoves(s, k, "called", "created")

\* execute returns or raises; finally the instance is released.
ToolExecuted(s, k) == CallMoves(s, k, "created", "executed")

ToolReleased(s, k) == CallMoves(s, k, "executed", "over")

\* _handle_processing_tools_state, when all its calls are over.  Answers that
\* would fill the response end it, and are not part of it.
ToolsReturn(s) ==
  /\ ~failed /\ state[s] = "PROCESSING_TOOLS"
  /\ \A k \in DOMAIN calls[s] : calls[s][k] = "over"
  /\ calls' = [calls EXCEPT ![s] = << >>]
  /\ \E n \in ObsLengths :
       IF Len(mask[s]) + n >= ResponseLength
         THEN /\ state' = [state EXCEPT ![s] = "TERMINATED"]
              /\ UNCHANGED <<ids, mask, logprobs, turns, flight, managerVars>>
         ELSE /\ Observe(s, n)
              /\ Send(s, ids'[s], maxTokens)
  /\ UNCHANGED <<batch, failed, kind, interacts, maxTokens>>

\* _handle_interacting_state: the answer of the user is appended whatever its
\* length, and ends the conversation or starts another turn.
UserReplies(s) ==
  /\ ~failed /\ state[s] = "INTERACTING"
  /\ \E n \in ObsLengths : Observe(s, n)
  /\ \/ Send(s, ids'[s], maxTokens)
     \/ /\ state' = [state EXCEPT ![s] = "TERMINATED"]
        /\ UNCHANGED <<flight, managerVars>>
  /\ UNCHANGED <<batch, failed, kind, interacts, calls, maxTokens>>

\* The reward of a sample is asked for, and set.
ScoreAsked(s) ==
  /\ ~failed /\ state[s] = "TERMINATED"
  /\ state' = [state EXCEPT ![s] = "SCORING"]
  /\ UNCHANGED <<batch, failed, kind, interacts, flight, ids, mask, logprobs,
                 turns, calls, maxTokens, managerVars>>

ScoreSet(s) ==
  /\ ~failed /\ state[s] = "SCORING"
  /\ state' = [state EXCEPT ![s] = "DONE"]
  /\ UNCHANGED <<batch, failed, kind, interacts, flight, ids, mask, logprobs,
                 turns, calls, maxTokens, managerVars>>

\* Mutant: the statistics are returned and go on.
RecordedSoFar == recorded

\* pop_per_gpu_stats returns the statistics of the batch and resets them.
RecordedAfterPop == [v \in Servers |-> 0]

\* gather returns, the worker answers, and is called for the next batch.
NextBatch ==
  /\ ~failed /\ batch < Batches
  /\ \A s \in Samples : state[s] = "DONE"
  /\ batch' = batch + 1
  /\ recorded' = RecordedAfterPop
  /\ maxTokens' = 0
  /\ kind' \in [Samples -> {"single", "tool"}]
  /\ state' = [s \in Samples |-> "PENDING"]
  /\ ids' = [s \in Samples |-> << >>]
  /\ mask' = [s \in Samples |-> << >>]
  /\ logprobs' = [s \in Samples |-> << >>]
  /\ turns' = [s \in Samples |-> [user |-> 0, assistant |-> 0]]
  /\ served' = [s \in Samples |-> {}]
  /\ UNCHANGED <<failed, interacts, flight, calls, load, homes>>

AgentNext ==
  \/ NextBatch
  \/ \E s \in Samples :
       \/ Begin(s) \/ GenerateRaises(s) \/ GenerateReturns(s)
       \/ ToolsReturn(s) \/ UserReplies(s)
       \/ \E k \in DOMAIN calls[s] :
            \/ CallRefused(s, k) \/ ToolCreated(s, k)
            \/ ToolExecuted(s, k) \/ ToolReleased(s, k)

-----------------------------------------------------------------------------
\* What run returns, once the loop is over: the last len(response_mask)
\* tokens of the conversation, all three cut at response_length.

Truncated(seq) == SubSeq(seq, 1, AtMost(Len(seq), ResponseLength))

ResponseIds(s) ==
  Truncated(SubSeq(ids[s], Len(ids[s]) - Len(mask[s]) + 1, Len(ids[s])))
ResponseMask(s) == Truncated(mask[s])
ResponseLogprobs(s) == Truncated(logprobs[s])

\* The policy is trained on exactly the tokens it has generated: through any
\* sequence of turns, tools and user answers, and for any cut, the response
\* has no token of the prompt, its mask is 1 on the generated tokens only,
\* and the log-probabilities are those of the same positions.
\* (ToolAgentLoop.run and its handlers, SingleTurnAgentLoop.run.)
ResponseIsAligned ==
  \A s \in Samples : state[s] \in {"TERMINATED", "SCORING", "DONE"} =>
    LET r == ResponseIds(s)
        m == ResponseMask(s)
        p == ResponseLogprobs(s)
    IN  /\ Len(r) \in 1..ResponseLength
        /\ Len(m) = Len(r) /\ Len(p) = Len(r)
        /\ \A i \in DOMAIN r :
             /\ r[i] # "prompt"
             /\ m[i] = 1 <=> r[i] = "gen"
             /\ p[i] = "sampled" <=> r[i] = "gen"

\* All turns of a sample go to one server, where their prefix is cached, as
\* long as the cache of request ids holds a batch: entries of earlier batches
\* are evicted and none of the samples under way.
\* ("Sticky session", AsyncLLMServerManager.)
SessionsAreSticky ==
  Cardinality(Samples) <= CacheSize =>
    \A s \in Samples : Cardinality(served[s]) <= 1

\* Whatever the order in which samples start and turns end, the servers'
\* shares of a batch differ by one sample at most, in every batch although
\* the counts are never taken back.  (_choose_server.)
LoadIsSpread ==
  Cardinality(Samples) <= CacheSize =>
    LET share(v) == Cardinality({s \in Samples : v \in served[s]})
    IN  \A v, w \in Servers : share(v) <= share(w) + 1

\* The statistics that pop_per_gpu_stats returns are those of this batch, and
\* each turn is counted at the server that generated it.
\* (_record_gpu_response, pop_per_gpu_stats.)
StatsAreOfThisBatch ==
  Cardinality(Samples) <= CacheSize =>
    LET generated(s) == {s} \X {i \in DOMAIN ids[s] : ids[s][i] = "gen"} IN
    \A v \in Servers :
      recorded[v] =
        Cardinality(UNION {generated(s) : s \in {s \in Samples : v \in served[s]}})

\* The server refuses no turn: the loop ends before a conversation leaves no
\* room for another token.  (_handle_interacting_state, said to be "similar
\* to _handle_processing_tools_state", which has the test.)
NoTurnIsRefused == ~failed
=============================================================================
