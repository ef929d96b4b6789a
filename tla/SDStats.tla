------------------------------- MODULE SDStats -------------------------------
(***************************************************************************)
(* How the statistics of a rollout travel from one engine to the trainer.  *)
(*                                                                         *)
(* The engine loop puts the outputs of each step on a socket, in order     *)
(* with its answers to utility calls.  In the server's event loop one task *)
(* moves the outputs to outputs_queue, another (output_handler) takes them *)
(* from there, answers the requests and lets _SDStatsAccumulator observe   *)
(* the statistics.  When the last request is answered the trainer asks for *)
(* a snapshot, decides on gamma, and has the accumulator reset:            *)
(*                                                                         *)
(*   idle -> waking -> rollout -> polling <-> rechecking -> deciding       *)
(*        -> [moving] -> resetting -> idle                                 *)
(***************************************************************************)
EXTENDS GammaLadder, Integers, FiniteSets

CONSTANTS
  MaxRequests,    \* bound: requests of a rollout
  MaxSteps,       \* bound: steps of a rollout that leave requests unfinished
  ChunkSize,      \* VLLM_V1_OUTPUT_PROC_CHUNK_SIZE
  MaxRollouts,    \* bound: rollouts
  MayTimeOut      \* whether five seconds may pass with outputs in the queue

ASSUME BoundsAssumption ==
  /\ MaxRequests \in Nat /\ MaxSteps \in Nat /\ ChunkSize \in Nat /\ MaxRollouts \in Nat
  /\ MayTimeOut \in BOOLEAN

VARIABLES
  \* EngineCore
  inbox,          \* input_queue: requests and utility calls
  active,         \* unfinished requests in the scheduler
  finishedIds,    \* the scheduler has finished_req_ids to pass on to the workers
  gamma,          \* _current_gamma
  toggled,        \* sd_toggled
  steps,          \* steps of this rollout
  \* AsyncMPClient and AsyncLLM
  wire,           \* the output socket
  queue,          \* outputs_queue
  handling,       \* the output whose slices the output_handler is at
  acc,            \* _SDStatsAccumulator
  \* the trainer
  phase,
  rollout,
  sent,           \* requests of this rollout that agent loops have sent
  answered,       \* and that have been answered
  snap,           \* the snapshot it has received
  \* history
  rolloutGamma,   \* gamma of the engine in this rollout
  verified,       \* the steps of this rollout that verified drafts
  hasToggled      \* SD was on in a step of this rollout

engineVars == <<inbox, active, finishedIds, gamma, toggled, steps>>
clientVars == <<wire, queue, handling, acc>>
trainerVars == <<phase, rollout, sent, answered, snap>>
historyVars == <<rolloutGamma, verified, hasToggled>>
vars == <<engineVars, clientVars, trainerVars, historyVars>>

\* A step that verified drafts.
StepIds == [rollout : 1..MaxRollouts, step : 1..(MaxSteps + MaxRequests)]

\* _SDStatsAccumulator: total_draft_tokens by the steps they come from.
Stats == [drafted : SUBSET StepIds, gamma : Gammas \cup {-1}, toggled : BOOLEAN]
NoStats == [drafted |-> {}, gamma |-> -1, toggled |-> FALSE]

\* EngineCoreOutputs: how many outputs it holds, how many requests finish in it.
Outputs == [outputs : 0..MaxRequests, finished : 0..MaxRequests,
            drafted : SUBSET StepIds, gamma : Gammas, toggled : BOOLEAN]
UtilityReply == [reply |-> TRUE]
NotHandling == [handling |-> FALSE]

IsReply(message) == message = UtilityReply

Init ==
  /\ inbox = <<>> /\ active = 0 /\ finishedIds = FALSE
  /\ gamma = Ladder[1] /\ toggled = FALSE /\ steps = 0
  /\ wire = <<>> /\ queue = <<>> /\ handling = NotHandling /\ acc = NoStats
  /\ phase = "idle" /\ rollout = 0 /\ sent = 0 /\ answered = 0 /\ snap = NoStats
  /\ rolloutGamma = Ladder[1] /\ verified = {} /\ hasToggled = FALSE

-------------------------------------------------------------------------------
(* The engine loop: one message of the input queue, or one step.           *)

Request == [op |-> "add", gamma |-> 0]
WakeUp == [op |-> "wake_up", gamma |-> 0]
ForceSetGamma(g) == [op |-> "force_set_gamma", gamma |-> g]

EngineReceives ==
  /\ inbox # <<>>
  /\ inbox' = Tail(inbox)
  /\ LET message == Head(inbox) IN
     CASE message.op = "add" ->
            active' = active + 1 /\ UNCHANGED <<gamma, toggled, wire>>
       [] message.op = "wake_up" ->
            /\ toggled' = FALSE
            /\ wire' = Append(wire, UtilityReply)
            /\ UNCHANGED <<active, gamma>>
       [] message.op = "force_set_gamma" ->
            /\ gamma' = message.gamma
            /\ wire' = Append(wire, UtilityReply)
            /\ UNCHANGED <<active, toggled>>
  /\ UNCHANGED <<finishedIds, steps, queue, handling, acc, trainerVars, historyVars>>

\* A step runs as long as the scheduler has requests, or has finished ones to tell
\* the workers about: the step after the last request has finished runs no model
\* but puts statistics on the socket all the same.
EngineStep ==
  /\ active > 0 \/ finishedIds
  /\ \E fires, drafts \in BOOLEAN, finished \in 0..active :
       LET id == [rollout |-> rollout, step |-> steps + 1]
           drafted == IF drafts THEN {id} ELSE {}
       IN
       /\ fires => active > 0
       /\ drafts => active > 0 /\ toggled
       /\ steps < MaxSteps \/ finished > 0 \/ active = 0
       /\ toggled' = (toggled \/ fires)
       /\ active' = active - finished
       /\ finishedIds' = (finished > 0)
       /\ steps' = IF active > 0 THEN steps + 1 ELSE steps
       /\ wire' = Append(wire, [outputs |-> active, finished |-> finished,
                                drafted |-> drafted, gamma |-> gamma,
                                toggled |-> toggled'])
       /\ verified' = verified \cup drafted
       /\ hasToggled' = (hasToggled \/ (toggled' /\ active > 0))
  /\ UNCHANGED <<inbox, gamma, queue, handling, acc, trainerVars, rolloutGamma>>

-------------------------------------------------------------------------------
(* The tasks of the server's event loop.                                   *)

\* process_outputs_socket.  The event loop wakes tasks in the order their futures are
\* resolved: output_handler has taken the outputs before a reply by the time the caller
\* of the utility goes on.
ClientReceives ==
  /\ wire # <<>>
  /\ IsReply(Head(wire)) => queue = <<>> /\ handling = NotHandling
  /\ wire' = Tail(wire)
  /\ IF IsReply(Head(wire))
     THEN /\ phase' = CASE phase = "waking" -> "rollout" [] phase = "moving" -> "resetting"
          /\ UNCHANGED queue
     ELSE queue' = Append(queue, Head(wire)) /\ UNCHANGED phase
  /\ UNCHANGED <<engineVars, handling, acc, rollout, sent, answered, snap, historyVars>>

Observe(output) ==
  acc' = [drafted |-> acc.drafted \cup output.drafted,
          gamma |-> output.gamma,
          toggled |-> acc.toggled \/ output.toggled]

\* Mutant: there is an await between the answers and the observation.
HandleOutputAwaits ==
  /\ handling = NotHandling /\ queue # <<>> /\ Head(queue).outputs <= ChunkSize
  /\ queue' = Tail(queue)
  /\ answered' = answered + Head(queue).finished
  /\ handling' = [Head(queue) EXCEPT !.finished = 0]
  /\ UNCHANGED <<engineVars, wire, acc, phase, rollout, sent, snap, historyVars>>

\* One slice: its requests are answered and observe follows without an await.
HandleOutput ==
  /\ handling = NotHandling /\ queue # <<>> /\ Head(queue).outputs <= ChunkSize
  /\ queue' = Tail(queue)
  /\ answered' = answered + Head(queue).finished
  /\ Observe(Head(queue))
  /\ UNCHANGED <<engineVars, wire, handling, phase, rollout, sent, snap, historyVars>>

\* The first of several slices, then sleep(0).
HandleFirstSlice ==
  /\ handling = NotHandling /\ queue # <<>> /\ Head(queue).outputs > ChunkSize
  /\ queue' = Tail(queue)
  /\ \E inSlice \in 0..Head(queue).finished :
       /\ Head(queue).finished - inSlice <= Head(queue).outputs - ChunkSize
       /\ inSlice <= ChunkSize
       /\ answered' = answered + inSlice
       /\ handling' = [Head(queue) EXCEPT !.finished = @ - inSlice,
                                          !.outputs = @ - ChunkSize]
  /\ UNCHANGED <<engineVars, wire, acc, phase, rollout, sent, snap, historyVars>>

HandleLastSlice ==
  /\ handling # NotHandling
  /\ answered' = answered + handling.finished
  /\ Observe(handling)
  /\ handling' = NotHandling
  /\ UNCHANGED <<engineVars, wire, queue, phase, rollout, sent, snap, historyVars>>

\* get_sd_stats, wait_for_output_handler_idle: the queue is empty, sleep(0), ...
CheckQueue ==
  /\ phase = "polling" /\ queue = <<>>
  /\ phase' = "rechecking"
  /\ UNCHANGED <<engineVars, clientVars, rollout, sent, answered, snap, historyVars>>

TakeSnapshot ==
  /\ phase' = "deciding"
  /\ snap' = acc
  /\ UNCHANGED <<engineVars, clientVars, rollout, sent, answered, historyVars>>

\* ... and still is; else sleep(0.01) and again.
RecheckQueue ==
  \/ phase = "rechecking" /\ queue = <<>> /\ TakeSnapshot
  \/ /\ phase = "rechecking" /\ queue # <<>>
     /\ phase' = "polling"
     /\ UNCHANGED <<engineVars, clientVars, rollout, sent, answered, snap, historyVars>>

\* The deadline of five seconds passes.
PollTimesOut == MayTimeOut /\ phase = "polling" /\ queue # <<>> /\ TakeSnapshot

-------------------------------------------------------------------------------
(* The trainer.                                                            *)

StartRollout ==
  /\ phase = "idle" /\ rollout < MaxRollouts
  /\ phase' = "waking"
  /\ rollout' = rollout + 1
  /\ sent' = 0 /\ answered' = 0 /\ steps' = 0
  /\ inbox' = Append(inbox, WakeUp)
  /\ rolloutGamma' = gamma /\ verified' = {} /\ hasToggled' = FALSE
  /\ UNCHANGED <<active, finishedIds, gamma, toggled, clientVars, snap>>

SendRequest ==
  /\ phase = "rollout" /\ sent < MaxRequests
  /\ sent' = sent + 1
  /\ inbox' = Append(inbox, Request)
  /\ UNCHANGED <<active, finishedIds, gamma, toggled, steps, clientVars, phase, rollout,
                 answered, snap, historyVars>>

\* Every agent loop has its answer; a server may have got no request at all.
AskForStats ==
  /\ phase = "rollout" /\ answered = sent
  /\ phase' = "polling"
  /\ UNCHANGED <<engineVars, clientVars, rollout, sent, answered, snap, historyVars>>

\* The consensus moves gamma (GammaConsensus says when), or not.
Move(g) ==
  /\ phase = "deciding" /\ g # gamma
  /\ phase' = "moving"
  /\ inbox' = Append(inbox, ForceSetGamma(g))
  /\ UNCHANGED <<active, finishedIds, gamma, toggled, steps, clientVars, rollout, sent,
                 answered, snap, historyVars>>

Stay ==
  /\ phase = "deciding"
  /\ phase' = "resetting"
  /\ UNCHANGED <<engineVars, clientVars, rollout, sent, answered, snap, historyVars>>

\* Mutant: the reset keeps the last gamma observed.
ResetStatsKeepsGamma ==
  /\ phase = "resetting"
  /\ phase' = "idle"
  /\ acc' = [NoStats EXCEPT !.gamma = acc.gamma]
  /\ UNCHANGED <<engineVars, wire, queue, handling, rollout, sent, answered, snap,
                 historyVars>>

\* reset_sd_stats
ResetStats ==
  /\ phase = "resetting"
  /\ phase' = "idle"
  /\ acc' = NoStats
  /\ UNCHANGED <<engineVars, wire, queue, handling, rollout, sent, answered, snap,
                 historyVars>>

TrainingEnds == phase = "idle" /\ rollout = MaxRollouts /\ UNCHANGED vars

Next ==
  \/ EngineReceives \/ EngineStep
  \/ ClientReceives \/ HandleOutput \/ HandleFirstSlice \/ HandleLastSlice
  \/ CheckQueue \/ RecheckQueue \/ PollTimesOut
  \/ StartRollout \/ SendRequest \/ AskForStats
  \/ \E g \in Gammas : Move(g)
  \/ Stay \/ ResetStats \/ TrainingEnds

Spec == Init /\ [][Next]_vars

-------------------------------------------------------------------------------
(* Properties.                                                             *)

Deciding == phase \in {"deciding", "moving", "resetting"}

\* The types of all variables.
TypeOK ==
  /\ active \in 0..MaxRequests /\ finishedIds \in BOOLEAN
  /\ gamma \in Gammas /\ toggled \in BOOLEAN /\ steps \in 0..(MaxSteps + MaxRequests)
  /\ \A i \in DOMAIN wire : wire[i] \in Outputs \cup {UtilityReply}
  /\ \A i \in DOMAIN queue : queue[i] \in Outputs
  /\ handling \in Outputs \cup {NotHandling}
  /\ acc \in Stats /\ snap \in Stats
  /\ rollout \in 0..MaxRollouts /\ sent \in 0..MaxRequests /\ answered \in 0..sent
  /\ phase \in {"idle", "waking", "rollout", "polling", "rechecking", "deciding",
                "moving", "resetting"}
  /\ rolloutGamma \in Gammas /\ verified \subseteq StepIds /\ hasToggled \in BOOLEAN

\* The acceptance rate the trainer decides with counts every draft of the rollout and
\* none of another, whatever outputs are still on their way when the snapshot is
\* taken or the accumulator reset.
SnapshotIsExact == Deciding => snap.drafted = verified

\* The gamma reported with it is the gamma of this rollout: statistics that come late
\* never carry one from before a move, for which the trainer would take the cluster
\* to be split.
SnapshotGamma ==
  Deciding =>
    /\ snap.gamma \in {-1, rolloutGamma}
    /\ snap.drafted # {} => snap.gamma = rolloutGamma

\* The toggle reported is the one of this rollout.  Violated, against "reset toggle
\* state so each RL step reports fresh toggle timing" (async_llm.py:66): the step after
\* the last request carries statistics that can arrive after the reset.
ToggleIsFresh == Deciding /\ snap.toggled => hasToggled
=============================================================================
