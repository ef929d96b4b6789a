------------------------------- MODULE SDToggle -------------------------------
(***************************************************************************)
(* When one engine speculates: EngineCore's toggle, the scheduler's flag   *)
(* behind it, the draft tokens the requests hold, and L, the acceptance    *)
(* length the toggle decides with.                                         *)
(*                                                                         *)
(* The trainer drives the engine through rollouts; the calls it makes on   *)
(* it (set_validate_mode, wake_up, force_set_gamma) are served between two *)
(* steps of the engine loop, in the order of EngineCalls, which            *)
(* GammaConsensus is shown to keep:                                        *)
(*                                                                         *)
(*   idle -> [flagged] -> awake -> drained -> [clearing] -> idle           *)
(*                                                                         *)
(* L and the counts it is computed from are modelled by where they come    *)
(* from, the rollouts and the gamma they were measured at, and the         *)
(* roofline by either verdict.                                             *)
(***************************************************************************)
EXTENDS GammaLadder, Integers, FiniteSets

CONSTANTS
  Requests,         \* the requests of a rollout
  MaxNumSeqs,       \* scheduler.max_num_running_reqs
  Threshold,        \* sd_toggle_threshold
  RooflineRamp,     \* 32, whatever MaxNumSeqs: see RampThreshold
  ConfiguredModes,  \* the values of sd_toggle_mode considered
  ConfigLoads,      \* whether load_config may succeed, may fail
  MaxRollouts       \* bound: calls of wake_up

ASSUME BatchAssumption ==
  /\ {MaxNumSeqs, Threshold, RooflineRamp} \subseteq Nat \ {0}
  /\ IsFiniteSet(Requests)

Modes == {"off", "threshold", "roofline"}

ASSUME ModesAssumption == ConfiguredModes \subseteq Modes /\ ConfigLoads \subseteq BOOLEAN

VARIABLES
  \* EngineCore
  toggleMode,     \* sd_toggle_mode
  sdToggled,      \* sd_toggled
  toggleBatch,    \* sd_toggle_batch
  seenFull,       \* _seen_full_batch
  gamma,          \* _current_gamma, also the gamma of the speculative config
  validateMode,   \* _validate_mode
  lastL,          \* _last_L_accept: where the value comes from
  lastLGamma,     \* _last_L_accept_gamma
  accumulated,    \* the steps counted in _rollout_num_drafts
  \* Scheduler
  specEnabled,    \* _spec_decode_enabled
  waiting,
  running,
  drafts,         \* the number of spec_token_ids of a request
  \* the trainer's rollouts
  phase,
  validating,     \* the rollout is for validation
  rollout,        \* its number
  arrived,        \* its requests so far
  \* history
  largestBatch,   \* the largest running batch a check of this rollout has seen
  hasDrafted,     \* this rollout has verified drafts
  lastDrafted,    \* the last training rollout that did, 0 when none has
  lastMoved       \* the last rollout after which gamma moved

toggleVars == <<toggleMode, sdToggled, toggleBatch, seenFull, specEnabled>>
lVars == <<gamma, lastL, lastLGamma, accumulated>>
requestVars == <<waiting, running, drafts, arrived>>
rolloutVars == <<phase, validating, rollout>>
historyVars == <<largestBatch, hasDrafted, lastDrafted, lastMoved>>
vars == <<toggleVars, lVars, validateMode, requestVars, rolloutVars, historyVars>>

\* The steps a rollout contributes to the counts behind L.
Measurement == [gamma : Gammas, rollout : Nat]

Seed == [from |-> "seed", steps |-> {}]
Measured(steps) == [from |-> "measured", steps |-> steps]

\* A roofline without a usable configuration becomes "off" in the engine, while
\* the scheduler reads the mode as configured.
Init ==
  /\ \E mode \in ConfiguredModes, loads \in ConfigLoads :
       /\ toggleMode = IF mode = "roofline" /\ ~loads THEN "off" ELSE mode
       /\ specEnabled = (mode = "off")
  /\ sdToggled = (toggleMode = "off")
  /\ toggleBatch = -1 /\ seenFull = FALSE
  /\ gamma = Ladder[1] /\ validateMode = FALSE
  /\ lastL = Seed /\ lastLGamma = Ladder[1] /\ accumulated = {}
  /\ waiting = {} /\ running = {} /\ arrived = {}
  /\ drafts = [r \in Requests |-> 0]
  /\ phase = "idle" /\ validating = FALSE /\ rollout = 0
  /\ largestBatch = 0 /\ hasDrafted = FALSE
  /\ lastDrafted = 0 /\ lastMoved = 0

-------------------------------------------------------------------------------
(* One iteration of the engine loop: _check_sd_toggle, schedule, the model,  *)
(* update_from_output, the counts, post_step.                                *)

Active == Cardinality(running)

\* _ramp_threshold.  Half of the scheduler's max_num_seqs is meant for the roofline,
\* but the scheduler has no attribute of this name: half of the default, 64, applies.
RampThreshold ==
  IF toggleMode = "threshold" THEN Threshold
  ELSE IF toggleMode = "roofline" THEN RooflineRamp
  ELSE 1

Undecided == toggleMode # "off" /\ ~sdToggled

\* _check_sd_toggle returns with should_toggle; verdict is the roofline's.
Fires(verdict) ==
  /\ Undecided /\ seenFull /\ Active > 0
  /\ IF toggleMode = "threshold" THEN Active <= Threshold ELSE verdict

CheckToggle(fires) ==
  /\ seenFull' = (seenFull \/ (Undecided /\ Active > RampThreshold))
  /\ sdToggled' = (sdToggled \/ fires)
  /\ specEnabled' = (specEnabled \/ fires)
  /\ toggleBatch' = IF fires THEN Active ELSE toggleBatch
  /\ UNCHANGED toggleMode

\* The counts grow by the drafts verified in this step, while SD is on and the
\* rollout is not for validation.
Accumulate(verified) ==
  accumulated' = IF sdToggled' /\ ~validateMode /\ verified # {}
                 THEN accumulated \cup {[gamma |-> gamma, rollout |-> rollout]}
                 ELSE accumulated

\* Mutant: post_step hands over drafts whatever the scheduler's flag says.
ProposeUnasked(ran, left, proposed) ==
  drafts' = [r \in Requests |->
               IF r \notin left THEN 0
               ELSE IF r \in ran /\ proposed THEN gamma
               ELSE IF r \in ran \cap running THEN 0
               ELSE drafts[r]]

\* schedule takes the spec tokens of the requests it runs; the proposer gives
\* gamma new ones to every request of the batch that is left, when SD is on and
\* the longest request leaves the drafter room.  A preempted request keeps what it
\* has, and so does one without a turn in this step.
Propose(ran, left, proposed) ==
  drafts' = [r \in Requests |->
               IF r \notin left THEN 0
               ELSE IF r \in ran /\ proposed /\ specEnabled' THEN gamma
               ELSE IF r \in ran \cap running THEN 0
               ELSE drafts[r]]

\* admitted start or resume, preempted go back to the queue; ran are the requests
\* that get tokens in this step, verified those among them with spec tokens left
\* after trimming, finished those that stop.
Step ==
  /\ phase = "awake" /\ running \cup waiting # {}
  /\ \E verdict, proposed \in BOOLEAN,
        admitted \in SUBSET waiting, preempted \in SUBSET running :
       LET batch == (running \ preempted) \cup admitted IN
       /\ preempted # {} => admitted = {}
       /\ Cardinality(batch) <= MaxNumSeqs
       /\ \E ran \in (SUBSET batch) \ {{}} :
            /\ admitted \subseteq ran
            /\ \E finished \in SUBSET ran,
                  verified \in SUBSET {r \in ran \cap running : drafts[r] > 0} :
                 /\ CheckToggle(Fires(verdict))
                 /\ running' = batch \ finished
                 /\ waiting' = (waiting \ admitted) \cup preempted
                 /\ Accumulate(verified)
                 /\ Propose(ran, running' \cup waiting', proposed)
                 /\ hasDrafted' = (hasDrafted \/ verified # {})
  /\ largestBatch' = IF Active > largestBatch THEN Active ELSE largestBatch
  /\ UNCHANGED <<gamma, lastL, lastLGamma, validateMode, arrived, rolloutVars,
                 lastDrafted, lastMoved>>

-------------------------------------------------------------------------------
(* The calls of the trainer.                                               *)

\* An agent loop's request reaches the engine, at any time of the rollout.
AddRequest(r) ==
  /\ phase = "awake" /\ r \notin arrived
  /\ arrived' = arrived \cup {r}
  /\ waiting' = waiting \cup {r}
  /\ UNCHANGED <<toggleVars, lVars, validateMode, running, drafts, rolloutVars,
                 historyVars>>

\* set_validate_mode(True), before a validation rollout.
FlagValidation ==
  /\ phase = "idle" /\ rollout < MaxRollouts
  /\ phase' = "flagged"
  /\ validateMode' = TRUE
  /\ UNCHANGED <<toggleVars, lVars, requestVars, validating, rollout, historyVars>>

\* Mutant: the ramp-up guard survives the rollout.
ResetToggleKeepsRamp ==
  IF toggleMode # "off"
  THEN /\ sdToggled' = FALSE /\ toggleBatch' = -1
       /\ specEnabled' = FALSE
       /\ UNCHANGED <<toggleMode, seenFull>>
  ELSE UNCHANGED toggleVars

\* Mutant: the scheduler's flag survives the rollout.
ResetToggleKeepsScheduler ==
  IF toggleMode # "off"
  THEN /\ sdToggled' = FALSE /\ toggleBatch' = -1 /\ seenFull' = FALSE
       /\ UNCHANGED <<toggleMode, specEnabled>>
  ELSE UNCHANGED toggleVars

\* The toggle of every rollout starts anew, unless the mode is "off".
ResetToggle ==
  IF toggleMode # "off"
  THEN /\ sdToggled' = FALSE /\ toggleBatch' = -1 /\ seenFull' = FALSE
       /\ specEnabled' = FALSE
       /\ UNCHANGED toggleMode
  ELSE UNCHANGED toggleVars

\* Mutant: the counts restart at every wake_up.
FreezeLResetsAlways ==
  /\ IF ~validateMode /\ accumulated # {}
     THEN lastL' = Measured(accumulated) /\ lastLGamma' = gamma
     ELSE UNCHANGED <<lastL, lastLGamma>>
  /\ accumulated' = {}

\* L is taken from the last training rollout, and the counts restart; a validation
\* rollout leaves both alone.
FreezeL ==
  /\ IF ~validateMode /\ accumulated # {}
     THEN lastL' = Measured(accumulated) /\ lastLGamma' = gamma
     ELSE UNCHANGED <<lastL, lastLGamma>>
  /\ accumulated' = IF validateMode THEN accumulated ELSE {}

WakeUp ==
  /\ phase \in {"idle", "flagged"} /\ rollout < MaxRollouts
  /\ phase' = "awake"
  /\ validating' = (phase = "flagged")
  /\ rollout' = rollout + 1
  /\ arrived' = {}
  /\ FreezeL
  /\ ResetToggle
  /\ largestBatch' = 0 /\ hasDrafted' = FALSE
  /\ UNCHANGED <<gamma, validateMode, waiting, running, drafts, lastDrafted,
                 lastMoved>>

\* Every request of the rollout has been answered.
Drain ==
  /\ phase = "awake" /\ running \cup waiting = {}
  /\ phase' = "drained"
  /\ lastDrafted' = IF hasDrafted /\ ~validating THEN rollout ELSE lastDrafted
  /\ UNCHANGED <<toggleVars, lVars, validateMode, requestVars, validating, rollout,
                 largestBatch, hasDrafted, lastMoved>>

\* The consensus of a training rollout moves gamma by a rung; L is seeded with it.
ForceSetGamma(g) ==
  /\ phase = "drained" /\ ~validating
  /\ \/ HasNext(gamma) /\ g = NextGamma(gamma)
     \/ HasPrev(gamma) /\ g = PrevGamma(gamma)
  /\ gamma' = g
  /\ lastL' = Seed /\ lastLGamma' = g
  /\ phase' = "idle"
  /\ lastMoved' = rollout
  /\ UNCHANGED <<toggleVars, accumulated, validateMode, requestVars, validating,
                 rollout, largestBatch, hasDrafted, lastDrafted>>

Sleep ==
  /\ phase = "drained"
  /\ phase' = IF validating THEN "clearing" ELSE "idle"
  /\ UNCHANGED <<toggleVars, lVars, validateMode, requestVars, validating, rollout,
                 historyVars>>

\* set_validate_mode(False), in the finally block.
ClearValidation ==
  /\ phase = "clearing"
  /\ phase' = "idle"
  /\ validateMode' = FALSE
  /\ UNCHANGED <<toggleVars, lVars, requestVars, validating, rollout, historyVars>>

TrainingEnds == phase = "idle" /\ rollout = MaxRollouts /\ UNCHANGED vars

Next ==
  \/ Step
  \/ \E r \in Requests : AddRequest(r)
  \/ FlagValidation \/ WakeUp \/ Drain
  \/ \E g \in Gammas : ForceSetGamma(g)
  \/ Sleep \/ ClearValidation
  \/ TrainingEnds

Spec == Init /\ [][Next]_vars

-------------------------------------------------------------------------------
(* Properties.                                                             *)

\* The types of all variables; the toggle fires on a batch with requests only.
TypeOK ==
  /\ toggleMode \in Modes /\ sdToggled \in BOOLEAN /\ specEnabled \in BOOLEAN
  /\ seenFull \in BOOLEAN /\ toggleBatch \in (1..MaxNumSeqs) \cup {-1}
  /\ gamma \in Gammas /\ lastLGamma \in Gammas /\ validateMode \in BOOLEAN
  /\ accumulated \subseteq Measurement
  /\ lastL \in [from : {"seed", "measured"}, steps : SUBSET Measurement]
  /\ waiting \subseteq Requests /\ running \subseteq Requests
  /\ arrived \subseteq Requests
  /\ drafts \in [Requests -> Gammas \cup {0}]
  /\ phase \in {"idle", "flagged", "awake", "drained", "clearing"}
  /\ validating \in BOOLEAN /\ rollout \in Nat
  /\ largestBatch \in Nat /\ hasDrafted \in BOOLEAN /\ lastDrafted \in 0..rollout
  /\ lastMoved \in 0..rollout

\* What the engine reports as SD being on is what the scheduler does, from
\* enable_spec_decode to the disable_spec_decode of the next wake_up.
ToggleAgrees == sdToggled = specEnabled

\* A request holds draft tokens only in a rollout whose toggle has fired, and
\* always gamma of them, also across preemptions, rollouts and moves of gamma: the
\* first schedule after the toggle finds none ("0 spec_decode_tokens because no
\* draft tokens exist yet").
DraftsFollowToggle ==
  \A r \in Requests : drafts[r] # 0 => sdToggled /\ drafts[r] = gamma

\* The toggle waits in every rollout anew until its batch has been above the ramp
\* threshold ("prevents premature toggle during prefill ramp-up").
ToggleAfterRamp ==
  sdToggled /\ toggleMode # "off" => largestBatch > RampThreshold

\* A training rollout decides with the L of the last training rollout that verified
\* drafts, however many validation rollouts lie between the two ("training rollout
\* N's accumulator survives an interleaved val rollout and is consumed at training
\* rollout N+1's wake_up"), or with a seed when gamma has moved since.
LOfLastTrainingRollout ==
  phase = "awake" /\ ~validating /\ lastDrafted > 0 =>
    IF lastL.from = "measured"
    THEN {a.rollout : a \in lastL.steps} = {lastDrafted}
    ELSE lastMoved >= lastDrafted

\* The calls one engine receives, which GammaConsensus makes to every engine of the
\* cluster (its DrivesEngines): the actions above of the same names, without what
\* they do to the toggle, the requests and L.
Trainer == INSTANCE EngineCalls

-----------------------------------------------------------------------------
\* What comments of the code say and this specification does not satisfy.

\* "roofline toggle uses this for per-batch SD/AR decisions until the new gamma's
\* MAL stabilizes" (core.py:959): the L tagged with a gamma is measured at it, or the
\* seed of force_set_gamma.  Violated: the wake_up after a move replaces the seed by
\* the counts of the rollout before the move.
LMeasuredAtItsGamma ==
  lastL.from = "measured" => \A a \in lastL.steps : a.gamma = lastLGamma

\* "For always-on SD (no toggle), mark as toggled from start" (core.py:331): what
\* is reported as SD is SD.  Violated when the roofline configuration does not load:
\* the core falls back to "off", the scheduler's flag is never set.
ReportedSDIsOn == running # {} /\ sdToggled => specEnabled

\* "Ramp-up threshold: batch-aware for both modes" (core.py:345): a batch that fills
\* every place ends the ramp-up.  Violated for max_num_seqs <= 32: Scheduler has no
\* attribute of that name, and the threshold is 64 // 2.
FullBatchEndsRampUp ==
  toggleMode # "off" /\ largestBatch = MaxNumSeqs => seenFull
=============================================================================
