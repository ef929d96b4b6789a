---------------------------- MODULE SDToggle_proofs ----------------------------
(***************************************************************************)
(* Proofs about SDToggle: for every set of requests, ladder, limit of the  *)
(* batch and threshold, and any number of rollouts.                        *)
(***************************************************************************)
EXTENDS SDToggle, FiniteSetTheorems, TLAPS

-------------------------------------------------------------------------------
(* The ladder and the batch.                                               *)

LEMMA BottomRung == Ladder[1] \in Gammas
  BY LadderAssumption DEF Gammas, Rungs

LEMMA NeighboursAreRungs ==
  ASSUME NEW g \in Gammas
  PROVE  /\ HasNext(g) => NextGamma(g) \in Gammas
         /\ HasPrev(g) => PrevGamma(g) \in Gammas
<1>1. Rung(g) \in Rungs /\ Ladder[Rung(g)] = g
  BY DEF Gammas, Rung
<1>2. HasPrev(g) => Rung(g) - 1 \in Rungs
  BY <1>1, LadderAssumption DEF HasPrev, Rungs
<1>. QED
  BY <1>1, <1>2 DEF HasNext, NextGamma, PrevGamma, Gammas

LEMMA BatchIsFinite ==
  ASSUME running \subseteq Requests
  PROVE  IsFiniteSet(running) /\ Active \in Nat
  BY BatchAssumption, FS_Subset, FS_CardinalityType DEF Active

LEMMA PartOfBatch ==
  ASSUME NEW batch \in SUBSET Requests, NEW finished \in SUBSET batch,
         Cardinality(batch) <= MaxNumSeqs
  PROVE  Cardinality(batch \ finished) <= MaxNumSeqs
<1>1. IsFiniteSet(batch)
  BY BatchAssumption, FS_Subset
<1>2. /\ Cardinality(batch \ finished) <= Cardinality(batch)
      /\ Cardinality(batch \ finished) \in Nat /\ Cardinality(batch) \in Nat
  BY <1>1, FS_Subset, FS_CardinalityType
<1>. QED
  BY <1>2, BatchAssumption

-------------------------------------------------------------------------------
(* The inductive invariant.                                                *)

\* The validate flag is on from set_validate_mode(True) to the finally block.
FlagInv ==
  validateMode = (\/ phase \in {"flagged", "clearing"}
                  \/ validating /\ phase \in {"awake", "drained"})

\* Requests live in one rollout, and only they hold drafts.
RequestsInv ==
  /\ Cardinality(running) <= MaxNumSeqs
  /\ phase # "awake" => running \cup waiting = {}
  /\ \A r \in Requests : drafts[r] # 0 => r \in running \cup waiting

\* The scheduler speculates only when the engine says so, and in mode "off" the
\* engine always says so.
ToggleInv ==
  /\ specEnabled => sdToggled
  /\ toggleMode = "off" => sdToggled

\* The guard of the ramp-up opens and the toggle fires in the rollout at hand.
RampInv ==
  toggleMode # "off" =>
    /\ seenFull => largestBatch > RampThreshold
    /\ sdToggled => seenFull

Rollouts(steps) == {a.rollout : a \in steps}

\* L is what the last training rollout with drafts left, or a seed of later.
LIsOfLast ==
  lastDrafted > 0 =>
    IF lastL.from = "measured" THEN Rollouts(lastL.steps) = {lastDrafted}
    ELSE lastMoved >= lastDrafted

\* In a training rollout the counts are its own and empty until a draft is
\* verified; afterwards they wait for the next wake_up of a training rollout.
CountsInv ==
  IF phase = "awake" /\ ~validating
  THEN /\ LIsOfLast
       /\ accumulated # {} => hasDrafted
       /\ hasDrafted => Rollouts(accumulated) = {rollout}
  ELSE IF accumulated = {} THEN LIsOfLast
  ELSE Rollouts(accumulated) = {lastDrafted}

IInv ==
  /\ TypeOK /\ FlagInv /\ RequestsInv /\ ToggleInv /\ RampInv
  /\ DraftsFollowToggle /\ CountsInv

-------------------------------------------------------------------------------
(* A step of the engine loop.                                              *)

LEMMA CheckedToggleType ==
  ASSUME TypeOK, RequestsInv, NEW verdict \in BOOLEAN, CheckToggle(Fires(verdict))
  PROVE  /\ toggleMode' \in Modes /\ sdToggled' \in BOOLEAN
         /\ specEnabled' \in BOOLEAN /\ seenFull' \in BOOLEAN
         /\ toggleBatch' \in (1..MaxNumSeqs) \cup {-1}
<1>1. Fires(verdict) => Active \in 1..MaxNumSeqs
  BY BatchIsFinite, BatchAssumption DEF Fires, RequestsInv, TypeOK, Active
<1>2. Fires(verdict) \in BOOLEAN
  BY DEF Fires, Undecided
<1>3. toggleBatch' \in (1..MaxNumSeqs) \cup {-1}
  BY <1>1, <1>2 DEF CheckToggle, TypeOK
<1>. QED
  BY <1>2, <1>3 DEF CheckToggle, TypeOK

LEMMA AccumulatedType ==
  ASSUME TypeOK, NEW verified, Accumulate(verified)
  PROVE  accumulated' \subseteq Measurement
  BY DEF Accumulate, TypeOK, Measurement

LEMMA ProposedType ==
  ASSUME TypeOK, NEW ran, NEW left, NEW proposed, Propose(ran, left, proposed)
  PROVE  drafts' \in [Requests -> Gammas \cup {0}]
  BY DEF Propose, TypeOK

LEMMA StepType ==
  ASSUME TypeOK, RequestsInv, Step
  PROVE  TypeOK'
<1>1. PICK verdict \in BOOLEAN, proposed \in BOOLEAN, admitted \in SUBSET waiting,
           preempted \in SUBSET running :
        LET batch == (running \ preempted) \cup admitted IN
        /\ preempted # {} => admitted = {}
        /\ Cardinality(batch) <= MaxNumSeqs
        /\ \E ran \in (SUBSET batch) \ {{}} :
             /\ admitted \subseteq ran
             /\ \E finished \in SUBSET ran,
                   verified \in SUBSET {r \in ran \cap running : drafts[r] > 0} :
                  /\ CheckToggle(Fires(verdict))
                  /\ running' = batch \ finished
                  /\ waiting' = (waiting \ admitted) \cup preempted
                  /\ Accumulate(verified)
                  /\ Propose(ran, running' \cup waiting', proposed)
                  /\ hasDrafted' = (hasDrafted \/ verified # {})
  BY Zenon DEF Step
<1>2. PICK ran \in SUBSET ((running \ preempted) \cup admitted) :
        \E finished \in SUBSET ran,
           verified \in SUBSET {r \in ran \cap running : drafts[r] > 0} :
          /\ CheckToggle(Fires(verdict))
          /\ running' = ((running \ preempted) \cup admitted) \ finished
          /\ waiting' = (waiting \ admitted) \cup preempted
          /\ Accumulate(verified)
          /\ Propose(ran, running' \cup waiting', proposed)
          /\ hasDrafted' = (hasDrafted \/ verified # {})
  BY <1>1
<1>3. /\ running' \subseteq Requests /\ waiting' \subseteq Requests
      /\ hasDrafted' \in BOOLEAN
  BY <1>2 DEF TypeOK
<1>4. /\ toggleMode' \in Modes /\ sdToggled' \in BOOLEAN
      /\ specEnabled' \in BOOLEAN /\ seenFull' \in BOOLEAN
      /\ toggleBatch' \in (1..MaxNumSeqs) \cup {-1}
  BY <1>2, CheckedToggleType
<1>5. accumulated' \subseteq Measurement /\ drafts' \in [Requests -> Gammas \cup {0}]
  BY <1>2, AccumulatedType, ProposedType
<1>6. largestBatch' \in Nat
  BY BatchIsFinite DEF Step, TypeOK
<1>. QED
  BY <1>3, <1>4, <1>5, <1>6 DEF Step, rolloutVars, TypeOK

\* What a step is, seen from the other parts of the invariant.
LEMMA StepFacts ==
  ASSUME IInv, Step
  PROVE  \E verdict \in BOOLEAN, verified \in SUBSET Requests :
           /\ CheckToggle(Fires(verdict))
           /\ Accumulate(verified)
           /\ hasDrafted' = (hasDrafted \/ verified # {})
           /\ verified # {} => sdToggled
           /\ \A r \in Requests : drafts'[r] # 0 =>
                /\ r \in running' \cup waiting'
                /\ \/ drafts'[r] = drafts[r]
                   \/ specEnabled' /\ drafts'[r] = gamma
           /\ Cardinality(running') <= MaxNumSeqs
<1>1. PICK verdict \in BOOLEAN, proposed \in BOOLEAN, admitted \in SUBSET waiting,
           preempted \in SUBSET running :
        LET batch == (running \ preempted) \cup admitted IN
        /\ preempted # {} => admitted = {}
        /\ Cardinality(batch) <= MaxNumSeqs
        /\ \E ran \in (SUBSET batch) \ {{}} :
             /\ admitted \subseteq ran
             /\ \E finished \in SUBSET ran,
                   verified \in SUBSET {r \in ran \cap running : drafts[r] > 0} :
                  /\ CheckToggle(Fires(verdict))
                  /\ running' = batch \ finished
                  /\ waiting' = (waiting \ admitted) \cup preempted
                  /\ Accumulate(verified)
                  /\ Propose(ran, running' \cup waiting', proposed)
                  /\ hasDrafted' = (hasDrafted \/ verified # {})
  BY Zenon DEF Step
<1>. DEFINE batch == (running \ preempted) \cup admitted
<1>2. PICK ran \in SUBSET batch :
        \E finished \in SUBSET ran,
           verified \in SUBSET {r \in ran \cap running : drafts[r] > 0} :
          /\ CheckToggle(Fires(verdict))
          /\ running' = batch \ finished
          /\ waiting' = (waiting \ admitted) \cup preempted
          /\ Accumulate(verified)
          /\ Propose(ran, running' \cup waiting', proposed)
          /\ hasDrafted' = (hasDrafted \/ verified # {})
  BY <1>1
<1>3. PICK finished \in SUBSET ran,
           verified \in SUBSET {r \in ran \cap running : drafts[r] > 0} :
        /\ CheckToggle(Fires(verdict))
        /\ running' = batch \ finished
        /\ Accumulate(verified)
        /\ Propose(ran, running' \cup waiting', proposed)
        /\ hasDrafted' = (hasDrafted \/ verified # {})
  BY <1>2
<1>4. batch \in SUBSET Requests /\ finished \in SUBSET batch
  BY <1>2, <1>3 DEF IInv, TypeOK
<1>5. Cardinality(running') <= MaxNumSeqs
  <2>. HIDE DEF batch
  <2>1. Cardinality(batch) <= MaxNumSeqs
    BY <1>1 DEF batch
  <2>. QED
    BY <1>3, <1>4, <2>1, PartOfBatch
<1>6. verified # {} => sdToggled
  BY <1>3 DEF IInv, TypeOK, DraftsFollowToggle
<1>7. ASSUME NEW r \in Requests, drafts'[r] # 0
      PROVE  /\ r \in running' \cup waiting'
             /\ drafts'[r] = drafts[r] \/ (specEnabled' /\ drafts'[r] = gamma)
  BY <1>3, <1>7 DEF Propose
<1>8. verified \in SUBSET Requests
  BY <1>3 DEF IInv, TypeOK
<1>. QED
  BY <1>3, <1>5, <1>6, <1>7, <1>8

LEMMA StepPreserves ==
  ASSUME IInv, Step
  PROVE  IInv'
<1>1. PICK verdict \in BOOLEAN, verified \in SUBSET Requests :
        /\ CheckToggle(Fires(verdict))
        /\ Accumulate(verified)
        /\ hasDrafted' = (hasDrafted \/ verified # {})
        /\ verified # {} => sdToggled
        /\ \A r \in Requests : drafts'[r] # 0 =>
             /\ r \in running' \cup waiting'
             /\ \/ drafts'[r] = drafts[r]
                \/ specEnabled' /\ drafts'[r] = gamma
        /\ Cardinality(running') <= MaxNumSeqs
  BY StepFacts
<1>2. /\ phase = "awake" /\ phase' = "awake"
      /\ UNCHANGED <<gamma, lastL, validateMode, validating, rollout, lastDrafted,
                     lastMoved>>
      /\ largestBatch' = IF Active > largestBatch THEN Active ELSE largestBatch
  BY DEF Step, rolloutVars
<1>3. TypeOK'
  BY StepType DEF IInv
<1>4. FlagInv'
  BY <1>2 DEF IInv, FlagInv
<1>5. RequestsInv'
  BY <1>1, <1>2 DEF RequestsInv
<1>6. ToggleInv'
  BY <1>1 DEF IInv, ToggleInv, CheckToggle
<1>7. RampInv'
  <2>1. Active \in Nat /\ largestBatch \in Nat /\ RampThreshold \in Nat
    BY BatchIsFinite, BatchAssumption DEF IInv, TypeOK, RampThreshold
  <2>2. toggleMode' = toggleMode /\ RampThreshold' = RampThreshold
    BY <1>1 DEF CheckToggle, RampThreshold
  <2>3. seenFull' => seenFull \/ Active > RampThreshold
    BY <1>1 DEF CheckToggle
  <2>4. sdToggled' => sdToggled \/ seenFull
    BY <1>1 DEF CheckToggle, Fires
  <2>5. seenFull => seenFull'
    BY <1>1 DEF CheckToggle
  <2>. QED
    BY <1>2, <2>1, <2>2, <2>3, <2>4, <2>5 DEF IInv, RampInv
<1>8. DraftsFollowToggle'
  <2>1. sdToggled => sdToggled'
    BY <1>1 DEF CheckToggle
  <2>2. specEnabled' => sdToggled'
    BY <1>6 DEF ToggleInv
  <2>. QED
    BY <1>1, <1>2, <2>1, <2>2 DEF IInv, DraftsFollowToggle
<1>9. CountsInv'
  <2>1. CASE validating
    <3>1. validateMode
      BY <1>2, <2>1 DEF IInv, FlagInv
    <3>2. accumulated' = accumulated
      BY <1>1, <3>1 DEF Accumulate
    <3>. QED
      BY <1>2, <2>1, <3>2 DEF IInv, CountsInv, LIsOfLast
  <2>2. CASE ~validating
    <3>1. ~validateMode
      BY <1>2, <2>2 DEF IInv, FlagInv
    <3>2. LIsOfLast' /\ (accumulated # {} => hasDrafted)
          /\ (hasDrafted => Rollouts(accumulated) = {rollout})
      BY <1>2, <2>2 DEF IInv, CountsInv, LIsOfLast
    <3>3. CASE verified = {}
      BY <1>1, <1>2, <2>2, <3>2, <3>3 DEF Accumulate, CountsInv
    <3>4. CASE verified # {}
      <4>1. sdToggled'
        BY <1>1, <3>4 DEF CheckToggle
      <4>2. accumulated' = accumulated \cup {[gamma |-> gamma, rollout |-> rollout]}
        BY <1>1, <3>1, <3>4, <4>1 DEF Accumulate
      <4>3. Rollouts(accumulated) \subseteq {rollout}
        BY <3>2 DEF Rollouts
      <4>4. Rollouts(accumulated') =
              Rollouts(accumulated) \cup {[gamma |-> gamma, rollout |-> rollout].rollout}
        BY <4>2, Zenon DEF Rollouts
      <4>. QED
        BY <1>1, <1>2, <2>2, <3>2, <3>4, <4>3, <4>4 DEF CountsInv
    <3>. QED
      BY <3>3, <3>4
  <2>. QED
    BY <2>1, <2>2
<1>. QED
  BY <1>3, <1>4, <1>5, <1>6, <1>7, <1>8, <1>9 DEF IInv
-------------------------------------------------------------------------------
(* The calls of the trainer.                                               *)

LEMMA AddRequestPreserves ==
  ASSUME IInv, NEW r \in Requests, AddRequest(r)
  PROVE  IInv'
<1>. USE DEF AddRequest, toggleVars, lVars, rolloutVars, historyVars
<1>1. TypeOK'
  BY DEF IInv, TypeOK
<1>2. FlagInv' /\ RequestsInv' /\ ToggleInv' /\ DraftsFollowToggle'
  BY DEF IInv, FlagInv, RequestsInv, ToggleInv, DraftsFollowToggle
<1>3. RampInv'
  BY DEF IInv, RampInv, RampThreshold
<1>4. CountsInv'
  BY DEF IInv, CountsInv, LIsOfLast
<1>. QED
  BY <1>1, <1>2, <1>3, <1>4 DEF IInv

\* Between two rollouts only the phase and the flag change.
LEMMA BracketPreserves ==
  ASSUME IInv,
         \/ FlagValidation \/ ClearValidation
         \/ Sleep
  PROVE  IInv'
<1>. USE DEF FlagValidation, ClearValidation, Sleep, toggleVars, lVars, requestVars,
         historyVars
<1>1. TypeOK'
  BY DEF IInv, TypeOK
<1>2. FlagInv'
  <2>1. CASE FlagValidation
    BY <2>1 DEF FlagInv
  <2>2. CASE ClearValidation
    BY <2>2 DEF FlagInv
  <2>3. CASE Sleep
    <3>1. phase = "drained" /\ validateMode = validating /\ validating \in BOOLEAN
      BY <2>3 DEF IInv, TypeOK, FlagInv
    <3>2. /\ phase' = IF validating THEN "clearing" ELSE "idle"
          /\ validateMode' = validateMode
      BY <2>3
    <3>. QED
      BY <3>1, <3>2 DEF FlagInv
  <2>. QED
    BY <2>1, <2>2, <2>3
<1>5. RequestsInv'
  BY DEF IInv, RequestsInv
<1>6. ToggleInv' /\ DraftsFollowToggle'
  BY DEF IInv, ToggleInv, DraftsFollowToggle
<1>3. RampInv'
  BY DEF IInv, RampInv, RampThreshold
<1>4. CountsInv'
  BY DEF IInv, CountsInv, LIsOfLast
<1>. QED
  BY <1>1, <1>2, <1>3, <1>4, <1>5, <1>6 DEF IInv

LEMMA DrainPreserves ==
  ASSUME IInv, Drain
  PROVE  IInv'
<1>. USE DEF Drain, toggleVars, lVars, requestVars
<1>1. TypeOK'
  BY DEF IInv, TypeOK
<1>2. FlagInv'
  BY DEF IInv, FlagInv
<1>5. RequestsInv'
  BY DEF IInv, RequestsInv
<1>6. ToggleInv' /\ DraftsFollowToggle'
  BY DEF IInv, ToggleInv, DraftsFollowToggle
<1>3. RampInv'
  BY DEF IInv, RampInv, RampThreshold
<1>4. CountsInv'
  <2>1. CASE validating
    BY <2>1 DEF IInv, CountsInv, LIsOfLast
  <2>2. CASE ~validating /\ hasDrafted
    <3>1. Rollouts(accumulated) = {rollout} /\ accumulated # {}
      BY <2>2 DEF IInv, CountsInv, Rollouts
    <3>. QED
      BY <2>2, <3>1 DEF CountsInv
  <2>3. CASE ~validating /\ ~hasDrafted
    <3>1. accumulated = {} /\ LIsOfLast
      BY <2>3 DEF IInv, CountsInv
    <3>. QED
      BY <2>3, <3>1 DEF CountsInv, LIsOfLast
  <2>. QED
    BY <2>1, <2>2, <2>3 DEF IInv, TypeOK
<1>. QED
  BY <1>1, <1>2, <1>3, <1>4, <1>5, <1>6 DEF IInv

\* No request is left, so none holds drafts of the gamma before.
LEMMA ForceSetGammaPreserves ==
  ASSUME IInv, NEW g \in Gammas, ForceSetGamma(g)
  PROVE  IInv'
<1>. USE DEF ForceSetGamma, toggleVars, requestVars
<1>1. TypeOK'
  BY DEF IInv, TypeOK, Seed
<1>2. FlagInv' /\ RequestsInv' /\ ToggleInv'
  BY DEF IInv, FlagInv, RequestsInv, ToggleInv
<1>3. DraftsFollowToggle'
  BY DEF IInv, RequestsInv, DraftsFollowToggle
<1>4. RampInv'
  BY DEF IInv, RampInv, RampThreshold
<1>5. CountsInv'
  <2>1. LIsOfLast'
    BY DEF LIsOfLast, Seed, IInv, TypeOK
  <2>. QED
    BY <2>1 DEF IInv, CountsInv
<1>. QED
  BY <1>1, <1>2, <1>3, <1>4, <1>5 DEF IInv

LEMMA WakeUpPreserves ==
  ASSUME IInv, WakeUp
  PROVE  IInv'
<1>1. /\ phase' = "awake" /\ validating' = (phase = "flagged")
      /\ phase \in {"idle", "flagged"}
      /\ rollout' = rollout + 1 /\ arrived' = {} /\ largestBatch' = 0
      /\ hasDrafted' = FALSE
      /\ UNCHANGED <<gamma, validateMode, waiting, running, drafts, lastDrafted,
                     lastMoved>>
  BY DEF WakeUp
<1>2. running \cup waiting = {}
  BY <1>1 DEF IInv, RequestsInv
<1>3. TypeOK'
  <2>1. /\ toggleMode' \in Modes /\ sdToggled' \in BOOLEAN
        /\ specEnabled' \in BOOLEAN /\ seenFull' \in BOOLEAN
        /\ toggleBatch' \in (1..MaxNumSeqs) \cup {-1}
    BY DEF WakeUp, ResetToggle, toggleVars, IInv, TypeOK
  <2>2. /\ accumulated' \subseteq Measurement /\ lastLGamma' \in Gammas
        /\ lastL' \in [from : {"seed", "measured"}, steps : SUBSET Measurement]
    BY DEF WakeUp, FreezeL, Measured, IInv, TypeOK
  <2>3. validating' \in BOOLEAN /\ rollout' \in Nat /\ lastDrafted' \in 0..rollout'
        /\ lastMoved' \in 0..rollout'
    BY <1>1 DEF IInv, TypeOK
  <2>. QED
    BY <1>1, <2>1, <2>2, <2>3 DEF IInv, TypeOK
<1>4. FlagInv'
  BY <1>1 DEF IInv, FlagInv
<1>5. RequestsInv' /\ DraftsFollowToggle'
  BY <1>1, <1>2 DEF IInv, RequestsInv, DraftsFollowToggle
<1>6. ToggleInv'
  BY DEF WakeUp, ResetToggle, toggleVars, IInv, ToggleInv
<1>7. RampInv'
  BY DEF WakeUp, ResetToggle, toggleVars, RampInv
<1>8. CountsInv'
  <2>1. CASE phase = "flagged"
    <3>1. accumulated' = accumulated /\ lastL' = lastL /\ validating'
      BY <1>1, <2>1 DEF WakeUp, FreezeL, IInv, FlagInv
    <3>. QED
      BY <1>1, <2>1, <3>1 DEF IInv, CountsInv, LIsOfLast
  <2>2. CASE phase = "idle"
    <3>1. ~validateMode /\ ~validating'
      BY <1>1, <2>2 DEF IInv, FlagInv
    <3>2. accumulated' = {}
      BY <3>1 DEF WakeUp, FreezeL
    <3>3. LIsOfLast'
      <4>1. CASE accumulated = {}
        BY <1>1, <2>2, <3>1, <4>1 DEF WakeUp, FreezeL, IInv, CountsInv, LIsOfLast
      <4>2. CASE accumulated # {}
        <5>1. lastL' = Measured(accumulated)
          BY <3>1, <4>2 DEF WakeUp, FreezeL
        <5>2. Rollouts(accumulated) = {lastDrafted}
          BY <2>2, <4>2 DEF IInv, CountsInv
        <5>. QED
          BY <1>1, <5>1, <5>2 DEF Measured, LIsOfLast
      <4>. QED
        BY <4>1, <4>2
    <3>. QED
      BY <1>1, <3>1, <3>2, <3>3 DEF CountsInv
  <2>. QED
    BY <1>1, <2>1, <2>2
<1>. QED
  BY <1>3, <1>4, <1>5, <1>6, <1>7, <1>8 DEF IInv

-------------------------------------------------------------------------------
(* The theorems.                                                           *)

LEMMA InitIsInv == Init => IInv
<1>. SUFFICES ASSUME Init PROVE IInv
  OBVIOUS
<1>1. toggleMode \in Modes
  BY ModesAssumption DEF Init, Modes
<1>2. specEnabled \in BOOLEAN /\ (specEnabled => toggleMode = "off")
  BY DEF Init
<1>3. Cardinality(running) = 0
  BY FS_EmptySet DEF Init
<1>4. TypeOK
  <2>1. drafts \in [Requests -> Gammas \cup {0}]
    BY DEF Init
  <2>2. /\ sdToggled \in BOOLEAN /\ gamma \in Gammas /\ lastLGamma \in Gammas
        /\ lastL \in [from : {"seed", "measured"}, steps : SUBSET Measurement]
    BY BottomRung DEF Init, Seed
  <2>3. /\ toggleBatch \in (1..MaxNumSeqs) \cup {-1}
        /\ lastDrafted \in 0..rollout /\ lastMoved \in 0..rollout
        /\ largestBatch \in Nat /\ rollout \in Nat
    BY DEF Init
  <2>4. /\ accumulated \subseteq Measurement /\ waiting \subseteq Requests
        /\ running \subseteq Requests /\ arrived \subseteq Requests
    BY DEF Init
  <2>5. /\ phase \in {"idle", "flagged", "awake", "drained", "clearing"}
        /\ seenFull \in BOOLEAN /\ validateMode \in BOOLEAN
        /\ validating \in BOOLEAN /\ hasDrafted \in BOOLEAN
    BY DEF Init
  <2>. QED
    BY <1>1, <1>2, <2>1, <2>2, <2>3, <2>4, <2>5 DEF TypeOK
<1>5. FlagInv /\ ToggleInv /\ RampInv /\ DraftsFollowToggle
  BY <1>2 DEF Init, FlagInv, ToggleInv, RampInv, DraftsFollowToggle
<1>6. RequestsInv
  BY <1>3, BatchAssumption DEF Init, RequestsInv
<1>7. CountsInv
  BY DEF Init, CountsInv, LIsOfLast
<1>. QED
  BY <1>4, <1>5, <1>6, <1>7 DEF IInv

LEMMA NextPreserves == IInv /\ [Next]_vars => IInv'
<1>. SUFFICES ASSUME IInv, [Next]_vars PROVE IInv'
  OBVIOUS
<1>1. CASE Step
  BY <1>1, StepPreserves
<1>2. CASE \E r \in Requests : AddRequest(r)
  BY <1>2, AddRequestPreserves
<1>3. CASE FlagValidation \/ ClearValidation \/ Sleep
  BY <1>3, BracketPreserves
<1>4. CASE WakeUp
  BY <1>4, WakeUpPreserves
<1>5. CASE Drain
  BY <1>5, DrainPreserves
<1>6. CASE \E g \in Gammas : ForceSetGamma(g)
  BY <1>6, ForceSetGammaPreserves
<1>7. CASE UNCHANGED vars
  <2>. USE <1>7 DEF vars, toggleVars, lVars, requestVars, rolloutVars, historyVars
  <2>1. TypeOK'
    BY DEF IInv, TypeOK
  <2>2. FlagInv' /\ RequestsInv' /\ ToggleInv' /\ DraftsFollowToggle'
    BY DEF IInv, FlagInv, RequestsInv, ToggleInv, DraftsFollowToggle
  <2>3. RampInv' /\ CountsInv'
    BY DEF IInv, RampInv, RampThreshold, CountsInv, LIsOfLast
  <2>. QED
    BY <2>1, <2>2, <2>3 DEF IInv
<1>. QED
  BY <1>1, <1>2, <1>3, <1>4, <1>5, <1>6, <1>7 DEF Next, TrainingEnds

\* IInv holds in every reachable state of the toggle, the ramp and the drafts.
THEOREM Inductive == Spec => []IInv
  BY InitIsInv, NextPreserves, PTL DEF Spec

\* All variables keep their types; in particular a toggle fires on a batch that is
\* not empty and within max_num_seqs.
THEOREM TypeCorrect == Spec => []TypeOK
<1>1. IInv => TypeOK
  BY DEF IInv
<1>. QED
  BY <1>1, Inductive, PTL

\* A request holds drafts only under a toggle that has fired, and gamma of them:
\* none survives a reset, a preemption into the next rollout, or a move of gamma.
THEOREM DraftsAreFresh == Spec => []DraftsFollowToggle
<1>1. IInv => DraftsFollowToggle
  BY DEF IInv
<1>. QED
  BY <1>1, Inductive, PTL

\* No rollout speculates before its batch has been above the ramp threshold.
THEOREM ToggleWaits == Spec => []ToggleAfterRamp
<1>1. IInv => ToggleAfterRamp
  BY DEF IInv, RampInv, ToggleAfterRamp
<1>. QED
  BY <1>1, Inductive, PTL

\* The acceptance length a training rollout decides with is the one of the last
\* training rollout that drafted, whatever validation rollouts lie between them.
THEOREM LIsOfLastTraining == Spec => []LOfLastTrainingRollout
<1>1. IInv => LOfLastTrainingRollout
  BY DEF IInv, CountsInv, LIsOfLast, Rollouts, LOfLastTrainingRollout
<1>. QED
  BY <1>1, Inductive, PTL

\* Where the roofline configuration can be loaded, the engine's toggle and the
\* scheduler's flag agree.
THEOREM TogglesAgree ==
  ASSUME FALSE \notin ConfigLoads
  PROVE  Spec => []ToggleAgrees
<1>1. Init => ToggleAgrees
  BY ModesAssumption DEF Init, ToggleAgrees
<1>2. ToggleAgrees /\ [Next]_vars => ToggleAgrees'
  <2>. SUFFICES ASSUME ToggleAgrees, [Next]_vars PROVE ToggleAgrees'
    OBVIOUS
  <2>1. CASE Step
    <3>1. \E verdict \in BOOLEAN : CheckToggle(Fires(verdict))
      BY <2>1, Zenon DEF Step
    <3>. QED
      BY <3>1 DEF CheckToggle, ToggleAgrees
  <2>2. CASE WakeUp
    BY <2>2 DEF WakeUp, ResetToggle, toggleVars, ToggleAgrees
  <2>3. CASE UNCHANGED toggleVars
    BY <2>3 DEF toggleVars, ToggleAgrees
  <2>4. CASE \E r \in Requests : AddRequest(r)
    BY <2>3, <2>4 DEF AddRequest
  <2>5. CASE \E g \in Gammas : ForceSetGamma(g)
    BY <2>3, <2>5 DEF ForceSetGamma
  <2>6. CASE FlagValidation \/ ClearValidation \/ Sleep \/ Drain
    BY <2>3, <2>6 DEF FlagValidation, ClearValidation, Sleep, Drain
  <2>. QED
    BY <2>1, <2>2, <2>3, <2>4, <2>5, <2>6 DEF Next, TrainingEnds, vars
<1>. QED
  BY <1>1, <1>2, PTL DEF Spec

-------------------------------------------------------------------------------
(* The engine is called as EngineCalls says.                               *)

LEMMA EngineStepCalls ==
  ASSUME Step \/ (\E r \in Requests : AddRequest(r)) \/ TrainingEnds \/ UNCHANGED vars
  PROVE  UNCHANGED Trainer!vars
<1>1. CASE Step
  <2>1. UNCHANGED <<gamma, validateMode, rolloutVars>>
    BY <1>1, Zenon DEF Step
  <2>. QED
    BY <2>1 DEF rolloutVars, Trainer!vars
<1>2. CASE (\E r \in Requests : AddRequest(r)) \/ TrainingEnds \/ UNCHANGED vars
  BY <1>2 DEF AddRequest, TrainingEnds, vars, lVars, rolloutVars, Trainer!vars
<1>. QED
  BY <1>1, <1>2

LEMMA CallsRefine == IInv /\ [Next]_vars => [Trainer!Next]_Trainer!vars
<1>. SUFFICES ASSUME IInv, [Next]_vars PROVE [Trainer!Next]_Trainer!vars
  OBVIOUS
<1>. USE DEF lVars, Trainer!Next
<1>1. CASE Step \/ (\E r \in Requests : AddRequest(r)) \/ TrainingEnds \/ UNCHANGED vars
  BY <1>1, EngineStepCalls
<1>2. CASE FlagValidation
  BY <1>2 DEF FlagValidation, Trainer!FlagValidation
<1>3. CASE WakeUp
  BY <1>3 DEF WakeUp, Trainer!WakeUp
<1>4. CASE Drain
  BY <1>4 DEF Drain, Trainer!Drain
<1>5. ASSUME NEW g \in Gammas, ForceSetGamma(g)
      PROVE  Trainer!Next
  <2>1. ~validateMode
    BY <1>5 DEF ForceSetGamma, IInv, FlagInv
  <2>2. Trainer!ForceSetGamma(g)
    BY <1>5, <2>1
    DEF ForceSetGamma, Trainer!ForceSetGamma, HasNext, Trainer!HasNext, NextGamma,
        Trainer!NextGamma, HasPrev, Trainer!HasPrev, PrevGamma, Trainer!PrevGamma,
        Rung, Trainer!Rung, Rungs, Trainer!Rungs
  <2>3. g \in Trainer!Gammas
    BY <1>5 DEF Gammas, Rungs, Trainer!Gammas, Trainer!Rungs
  <2>. QED
    BY <2>2, <2>3
<1>6. CASE Sleep
  <2>1. validateMode = validating
    BY <1>6 DEF Sleep, IInv, FlagInv, TypeOK
  <2>. QED
    BY <1>6, <2>1 DEF Sleep, Trainer!Sleep
<1>7. CASE ClearValidation
  BY <1>7 DEF ClearValidation, Trainer!ClearValidation
<1>. QED
  BY <1>1, <1>2, <1>3, <1>4, <1>5, <1>6, <1>7 DEF Next

\* The rollouts of this specification are no others than the ones EngineCalls
\* describes, as seen by one engine while training goes on.
THEOREM CalledAsExpected == Spec => Trainer!Spec
<1>1. Init => Trainer!Init
  BY DEF Init, Trainer!Init
<1>. QED
  BY <1>1, CallsRefine, Inductive, PTL DEF Spec, Trainer!Spec
=============================================================================
