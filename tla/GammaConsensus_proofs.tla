------------------------ MODULE GammaConsensus_proofs ------------------------
(***************************************************************************)
(* Proofs about GammaConsensus for every set of servers and workers, every *)
(* ladder, persistence, pair of thresholds and bound.                      *)
(***************************************************************************)
EXTENDS GammaConsensus, SequenceTheorems, FiniteSetTheorems, TLAPS

-------------------------------------------------------------------------------
(* The ladder.                                                             *)

LEMMA RungOf ==
  ASSUME NEW g \in Gammas
  PROVE  Rung(g) \in Rungs /\ Ladder[Rung(g)] = g
  BY DEF Gammas, Rung

LEMMA GammasAreNats == Gammas \subseteq Nat
  BY LadderAssumption DEF Gammas, Rungs

LEMMA BottomRung == Ladder[1] \in Gammas
  BY LadderAssumption DEF Gammas, Rungs

LEMMA NextIsHigher ==
  ASSUME NEW g \in Gammas, HasNext(g)
  PROVE  NextGamma(g) \in Gammas /\ NextGamma(g) > g
<1>1. Rung(g) \in Rungs /\ Ladder[Rung(g)] = g
  BY RungOf
<1>2. Rung(g) + 1 \in Rungs
  BY DEF HasNext
<1>. QED
  BY <1>1, <1>2, LadderAssumption DEF NextGamma, Gammas, Rungs

LEMMA PrevIsLower ==
  ASSUME NEW g \in Gammas, HasPrev(g)
  PROVE  PrevGamma(g) \in Gammas /\ PrevGamma(g) < g
<1>1. Rung(g) \in Rungs /\ Ladder[Rung(g)] = g
  BY RungOf
<1>2. Rung(g) - 1 \in Rungs
  BY <1>1, LadderAssumption DEF HasPrev, Rungs
<1>. QED
  BY <1>1, <1>2, LadderAssumption DEF PrevGamma, Gammas, Rungs

-------------------------------------------------------------------------------
(* Type correctness.                                                       *)

USE DEF TypeOK

LEMMA FanOutType ==
  ASSUME TypeOK, NEW c \in Calls, FanOut(c)
  PROVE  /\ awaited' \in Calls \cup {NoCall}
         /\ replies' \in [Servers -> Replies]
         /\ calls' \in [Servers -> Seq(Calls)]
  BY DEF FanOutTypeOK, FanOut, Replies

LEMMA AnswerType ==
  ASSUME TypeOK, NEW s \in Servers, NEW r \in Replies, calls[s] # <<>>, Answer(s, r)
  PROVE  /\ awaited' \in Calls \cup {NoCall}
         /\ replies' \in [Servers -> Replies]
         /\ calls' \in [Servers -> Seq(Calls)]
  BY DEF FanOutTypeOK, Answer

LEMMA CallsOfLadder ==
  /\ \A g \in Gammas : ForceSetGamma(g) \in Calls
  /\ SetValidateMode(0) \in Calls /\ SetValidateMode(1) \in Calls
  /\ Raised \in Replies /\ Pending \in Replies
  /\ \A v \in Gammas \cup {0, 1} : Returned(v) \in Replies
  BY DEF Calls, Replies

LEMMA SeenIsGamma ==
  ASSUME TypeOK, HasEvidence
  PROVE  SeenGamma \in GammasSeen /\ SeenGamma \in Gammas
<1>1. PICK g \in GammasSeen : TRUE
  BY DEF HasEvidence
<1>2. SeenGamma \in GammasSeen
  BY <1>1 DEF SeenGamma
<1>3. GammasSeen \subseteq Gammas
  BY DEF StatsTypeOK, GammasSeen
<1>. QED
  BY <1>2, <1>3

LEMMA CrossingType == Crossing \in Crossings
  BY DEF Crossing, Crossings

LEMMA RememberType ==
  ASSUME TypeOK, Remember
  PROVE  evidence' \in Seq(Crossings)
  BY CrossingType DEF HistoryTypeOK, Remember

LEMMA InitType == Init => TypeOK
<1>. SUFFICES ASSUME Init PROVE TypeOK
  OBVIOUS
<1>1. NoTally \in [accepted : Nat, drafted : Nat]
  BY DEF NoTally
<1>2. /\ tally \in [Servers -> [accepted : Nat, drafted : Nat]]
      /\ replies \in [Servers -> Replies]
      /\ calls \in [Servers -> Seq(Calls)]
      /\ deadLoops \in [Servers -> SUBSET Workers]
  BY <1>1, CallsOfLadder DEF Init
<1>3. /\ gamma \in [Servers -> Gammas]
      /\ workerGamma \in [Servers -> [Workers -> Gammas]]
      /\ reported \in [Servers -> Gammas \cup {-1}]
      /\ validateMode \in [Servers -> BOOLEAN]
      /\ generated \in [Servers -> BOOLEAN]
  BY BottomRung DEF Init
<1>4. /\ phase \in Phases /\ current \in Gammas
      /\ crossings \in 0..PersistenceN /\ lowCrossings \in 0..PersistenceN
      /\ evidence \in Seq(Crossings)
  BY BottomRung, PersistenceAssumption DEF Init, Phases
<1>. QED
  BY <1>2, <1>3, <1>4 DEF Init, TrainerTypeOK, FanOutTypeOK, EngineTypeOK, StatsTypeOK, HistoryTypeOK

LEMMA RepliesDiffer ==
  /\ Raised # Pending /\ Raised.status = "raised" /\ Pending.status = "pending"
  /\ \A v : Returned(v) # Pending /\ Returned(v) # Raised
             /\ Returned(v).status = "returned" /\ Returned(v).val = v
  BY DEF Raised, Pending, Returned

\* Whatever a server serves, it answers with something.
LEMMA ServeAnswers ==
  ASSUME TypeOK, NEW s \in Servers, Serve(s)
  PROVE  calls[s] # <<>> /\ \E r : r # Pending /\ Answer(s, r)
  BY RepliesDiffer
  DEF Serve, ForceNoOp, ForceApplies, ForceRaisesInWorkers, ServeSetValidateMode,
      CallRaises, Serving

\* A server's answer leaves everything typed but its engine and the fault count.
LEMMA ServedType ==
  ASSUME TypeOK, NEW s \in Servers, NEW r \in Replies, calls[s] # <<>>, Answer(s, r),
         EngineTypeOK', faults' \in Nat
  PROVE  TypeOK'
<1>1. FanOutTypeOK'
  BY AnswerType DEF FanOutTypeOK
<1>2. TrainerTypeOK' /\ StatsTypeOK'
  BY DEF Answer, trainerVars, statVars, TrainerTypeOK, StatsTypeOK
<1>3. HistoryTypeOK'
  BY DEF Answer, historyVars, HistoryTypeOK
<1>. QED
  BY <1>1, <1>2, <1>3

LEMMA ServeType ==
  ASSUME TypeOK, NEW s \in Servers, Serve(s)
  PROVE  TypeOK'
<1>. DEFINE g == Head(calls[s]).arg
<1>. USE DEF EngineTypeOK, HistoryTypeOK
<1>1. calls[s] # <<>> /\ Head(calls[s]) \in Calls
  BY ServeAnswers DEF FanOutTypeOK
<1>2. Serving(s, "force_set_gamma") => g \in Gammas
  BY <1>1 DEF Serving, Calls, SetValidateMode, ForceSetGamma
<1>3. Serving(s, "set_validate_mode") => g \in {0, 1}
  BY <1>1 DEF Serving, Calls, SetValidateMode, ForceSetGamma
<1>4. CASE ForceNoOp(s)
  <2>1. Returned(g) \in Replies /\ Answer(s, Returned(g))
    BY <1>2, <1>4, CallsOfLadder DEF ForceNoOp
  <2>2. EngineTypeOK' /\ faults' \in Nat
    BY <1>4 DEF ForceNoOp, engineVars
  <2>. QED
    BY <1>1, <2>1, <2>2, ServedType
<1>5. CASE ForceApplies(s)
  <2>1. Returned(g) \in Replies /\ Answer(s, Returned(g))
    BY <1>2, <1>5, CallsOfLadder DEF ForceApplies
  <2>2. EngineTypeOK' /\ faults' \in Nat
    BY <1>2, <1>5 DEF ForceApplies
  <2>. QED
    BY <1>1, <2>1, <2>2, ServedType
<1>6. CASE ForceRaisesInWorkers(s)
  <2>1. Raised \in Replies /\ Answer(s, Raised) /\ faults' \in Nat
    BY <1>6, CallsOfLadder DEF ForceRaisesInWorkers, Fault
  <2>2. EngineTypeOK'
    BY <1>2, <1>6 DEF ForceRaisesInWorkers
  <2>. QED
    BY <1>1, <2>1, <2>2, ServedType
<1>7. CASE ServeSetValidateMode(s)
  <2>1. Returned(g) \in Replies /\ Answer(s, Returned(g))
    BY <1>3, <1>7, CallsOfLadder DEF ServeSetValidateMode
  <2>2. EngineTypeOK' /\ faults' \in Nat
    BY <1>7 DEF ServeSetValidateMode
  <2>. QED
    BY <1>1, <2>1, <2>2, ServedType
<1>8. CASE CallRaises(s)
  <2>1. Raised \in Replies /\ Answer(s, Raised) /\ faults' \in Nat
    BY <1>8, CallsOfLadder DEF CallRaises, Fault
  <2>2. EngineTypeOK'
    BY <1>8 DEF CallRaises, engineVars
  <2>. QED
    BY <1>1, <2>1, <2>2, ServedType
<1>. QED
  BY <1>4, <1>5, <1>6, <1>7, <1>8 DEF Serve

LEMMA GenerateType ==
  ASSUME TypeOK, NEW s \in Servers, GenerateOn(s)
  PROVE  TypeOK'
<1>1. generated' \in [Servers -> BOOLEAN]
  BY DEF TrainerTypeOK, FanOutTypeOK, EngineTypeOK, StatsTypeOK,
        HistoryTypeOK, GenerateOn
<1>2. /\ tally' \in [Servers -> [accepted : Nat, drafted : Nat]]
      /\ reported' \in [Servers -> Gammas \cup {-1}]
  <2>1. CASE UNCHANGED <<tally, reported>>
    BY <2>1 DEF TrainerTypeOK, FanOutTypeOK, EngineTypeOK, StatsTypeOK, HistoryTypeOK
  <2>2. ASSUME NEW u \in Tallies,
               tally' = [tally EXCEPT ![s] = u],
               reported' = [reported EXCEPT ![s] = gamma[s]]
        PROVE  <1>2!1 /\ <1>2!2
    BY <2>2, TalliesAssumption DEF TrainerTypeOK, FanOutTypeOK, EngineTypeOK, StatsTypeOK, HistoryTypeOK
  <2>. QED
    BY <2>1, <2>2 DEF GenerateOn
<1>. QED
  BY <1>1, <1>2
  DEF TrainerTypeOK, FanOutTypeOK, EngineTypeOK, StatsTypeOK,
        HistoryTypeOK, GenerateOn, trainerVars, fanOutVars, engineVars, historyVars

LEMMA RaiseType ==
  ASSUME TypeOK, Raise
  PROVE  /\ phase' \in Phases /\ raising' \in BOOLEAN
         /\ awaited' \in Calls \cup {NoCall}
         /\ replies' \in [Servers -> Replies]
         /\ calls' \in [Servers -> Seq(Calls)]
<1>1. CASE validating
  BY <1>1, FanOutType, CallsOfLadder DEF TrainerTypeOK, FanOutTypeOK, Raise, Phases
<1>2. CASE ~validating
  BY <1>2 DEF TrainerTypeOK, FanOutTypeOK, Raise, Phases, fanOutVars
<1>. QED
  BY <1>1, <1>2

-------------------------------------------------------------------------------
(* The inductive invariant.  UniformGamma is about the phases in which no  *)
(* force_set_gamma is under way; it survives a broadcast only because of   *)
(* what the queues may hold, what an answer says of the engine that gave   *)
(* it, and what the engines have reported before the decision.             *)

EmptyQueues == \A s \in Servers : calls[s] = <<>>

ValidateCalls == {SetValidateMode(m) : m \in {0, 1}}

\* Which calls are under way in which phase.  A server that has answered the
\* awaited call has nothing left to serve; one that has not may still have the
\* call of the fan-out before in front of it.
QueuesInv ==
  /\ phase \in {"idle", "rollout", "resetting"} => EmptyQueues
  /\ phase = "enabling" =>
       /\ validating
       /\ awaited = SetValidateMode(1)
       /\ \A s \in Servers :
            calls[s] = IF replies[s] = Pending THEN <<awaited>> ELSE <<>>
  /\ phase = "broadcast" =>
       /\ \E g \in Gammas : g # current /\ awaited = ForceSetGamma(g)
       /\ \A s \in Servers :
            calls[s] = IF replies[s] = Pending THEN <<awaited>> ELSE <<>>
  /\ phase = "rollback" =>
       /\ awaited = ForceSetGamma(current)
       /\ \A s \in Servers :
            IF replies[s] = Pending
            THEN \/ calls[s] = <<awaited>>
                 \/ \E g \in Gammas : g # current /\ calls[s] = <<ForceSetGamma(g), awaited>>
            ELSE calls[s] = <<>>
  /\ phase = "clearing" =>
       /\ awaited = SetValidateMode(0)
       /\ \A s \in Servers :
            IF replies[s] = Pending
            THEN calls[s] \in {<<awaited>>, <<SetValidateMode(1), awaited>>}
            ELSE calls[s] = <<>>
  /\ phase = "aborted" /\ rollback = "none" =>
       \A s \in Servers : calls[s] \in Seq(ValidateCalls)

AtGamma(s, g) == gamma[s] = g /\ \A w \in Workers : workerGamma[s][w] = g

\* What an answer to force_set_gamma says of the engine that gave it.
AnswersInv ==
  /\ phase = "broadcast" =>
       \A s \in Servers :
         /\ replies[s] = Pending => gamma[s] = current
         /\ replies[s].status = "returned" => AtGamma(s, awaited.arg)
  /\ phase = "rollback" =>
       \A s \in Servers : replies[s].status = "returned" => gamma[s] = current
  /\ rollback # "none" => phase = "aborted"
  /\ rollback = "completed" =>
       EmptyQueues /\ \A s \in Servers : gamma[s] = current

\* What the servers have reported when the decision is taken.
ReportsInv ==
  /\ phase \in {"idle", "enabling"} \/ (phase = "clearing" /\ ~raising) =>
       \A s \in Servers : reported[s] = -1
  /\ phase = "rollout" => \A s \in Servers : reported[s] \in {-1, gamma[s]}

\* The counters reach PersistenceN only by the step that starts a broadcast.
CountersInv ==
  /\ phase \notin {"broadcast", "rollback", "aborted"} =>
       crossings < PersistenceN /\ lowCrossings < PersistenceN
  /\ crossings = 0 \/ lowCrossings = 0
  /\ phase = "broadcast" =>
       \/ /\ crossings = PersistenceN /\ HasNext(current)
          /\ awaited.arg = NextGamma(current)
       \/ /\ lowCrossings = PersistenceN /\ HasPrev(current)
          /\ awaited.arg = PrevGamma(current)

\* The counters count the crossings the evidence ends with.
EvidenceInv ==
  /\ EndsWith(evidence, "up", crossings)
  /\ EndsWith(evidence, "down", lowCrossings)

ValidateInv ==
  /\ phase = "idle" => \A s \in Servers : ~validateMode[s]
  /\ phase = "enabling" =>
       \A s \in Servers : replies[s].status = "returned" => validateMode[s]
  /\ phase \in {"rollout", "resetting"} =>
       \A s \in Servers : validateMode[s] = validating
  /\ Moving => ~validating /\ \A s \in Servers : ~validateMode[s]
  /\ phase = "clearing" =>
       \A s \in Servers : replies[s].status = "returned" => ~validateMode[s]

IInv ==
  /\ TypeOK
  /\ QueuesInv
  /\ AnswersInv
  /\ UniformGamma
  /\ ReportsInv
  /\ CountersInv
  /\ EvidenceInv
  /\ ValidateInv

-------------------------------------------------------------------------------
(* What the evidence ends with.                                            *)

\* Any evidence ends with no crossings at all.
LEMMA EndsWithNone ==
  ASSUME NEW seq \in Seq(Crossings), NEW d
  PROVE  EndsWith(seq, d, 0)
<1>. DEFINE after == Len(seq) + 1
<1>1. after \in 1..(Len(seq) + 1) /\ after..Len(seq) = {}
  OBVIOUS
<1>2. {i \in after..Len(seq) : seq[i] = d} = {}
  BY <1>1
<1>3. Cardinality({i \in after..Len(seq) : seq[i] = d}) = 0
  BY <1>2, FS_EmptySet
<1>. QED
  BY <1>1, <1>3 DEF EndsWith

\* A rollout that drafts nothing interrupts neither direction.
LEMMA NothingDrafted ==
  ASSUME NEW seq \in Seq(Crossings), NEW d, d # "none", NEW n \in Nat,
         EndsWith(seq, d, n)
  PROVE  EndsWith(Append(seq, "none"), d, n)
<1>. DEFINE longer == Append(seq, "none")
<1>1. PICK first \in 1..(Len(seq) + 1) :
        /\ \A i \in first..Len(seq) : seq[i] \in {d, "none"}
        /\ Cardinality({i \in first..Len(seq) : seq[i] = d}) = n
  BY DEF EndsWith
<1>2. /\ Len(longer) = Len(seq) + 1 /\ Len(seq) \in Nat
      /\ \A i \in 1..Len(seq) : longer[i] = seq[i]
      /\ longer[Len(seq) + 1] = "none"
  BY AppendProperties
<1>. HIDE DEF longer
<1>3. {i \in first..Len(longer) : longer[i] = d} = {i \in first..Len(seq) : seq[i] = d}
  BY <1>1, <1>2
<1>4. \A i \in first..Len(longer) : longer[i] \in {d, "none"}
  BY <1>1, <1>2
<1>5. first \in 1..(Len(longer) + 1)
  BY <1>1, <1>2
<1>. QED
  BY <1>1, <1>3, <1>4, <1>5 DEF EndsWith, longer

\* A crossing in the same direction makes it one more.
LEMMA OneMoreCrossing ==
  ASSUME NEW seq \in Seq(Crossings), NEW d, NEW n \in Nat, EndsWith(seq, d, n)
  PROVE  EndsWith(Append(seq, d), d, n + 1)
<1>. DEFINE longer == Append(seq, d)
<1>1. PICK first \in 1..(Len(seq) + 1) :
        /\ \A i \in first..Len(seq) : seq[i] \in {d, "none"}
        /\ Cardinality({i \in first..Len(seq) : seq[i] = d}) = n
  BY DEF EndsWith
<1>2. /\ Len(longer) = Len(seq) + 1 /\ Len(seq) \in Nat
      /\ \A i \in 1..Len(seq) : longer[i] = seq[i]
      /\ longer[Len(seq) + 1] = d
  BY AppendProperties
<1>. HIDE DEF longer
<1>. DEFINE counted == {i \in first..Len(seq) : seq[i] = d}
<1>3. {i \in first..Len(longer) : longer[i] = d} = counted \cup {Len(seq) + 1}
  BY <1>1, <1>2
<1>4. IsFiniteSet(counted) /\ Len(seq) + 1 \notin counted
  <2>1. IsFiniteSet(first..Len(seq)) /\ counted \subseteq first..Len(seq)
    BY <1>1, <1>2, FS_Interval
  <2>. QED
    BY <1>2, <2>1, FS_Subset
<1>5. Cardinality(counted \cup {Len(seq) + 1}) = n + 1
  BY <1>1, <1>4, FS_AddElement
<1>6. \A i \in first..Len(longer) : longer[i] \in {d, "none"}
  BY <1>1, <1>2
<1>7. first \in 1..(Len(longer) + 1)
  BY <1>1, <1>2
<1>. QED
  BY <1>3, <1>5, <1>6, <1>7 DEF EndsWith, longer

-------------------------------------------------------------------------------
(* Serving a call.                                                         *)

LEMMA CallsDiffer ==
  /\ \A g, h \in Gammas : g # h => ForceSetGamma(g) # ForceSetGamma(h)
  /\ SetValidateMode(0) # SetValidateMode(1)
  /\ \A g : ForceSetGamma(g).op = "force_set_gamma" /\ ForceSetGamma(g).arg = g
  /\ \A m : SetValidateMode(m).op = "set_validate_mode" /\ SetValidateMode(m).arg = m
  BY DEF ForceSetGamma, SetValidateMode

\* The effect of an answer on the queue and the reply of each server.
LEMMA AnswerEffect ==
  ASSUME TypeOK, NEW s \in Servers, NEW r, r # Pending, Answer(s, r)
  PROVE  /\ phase' = phase /\ awaited' = awaited /\ current' = current
         /\ validating' = validating /\ raising' = raising
         /\ rollback' = rollback
         /\ calls'[s] = Tail(calls[s])
         /\ Head(calls[s]) = awaited => replies'[s] = r
         /\ Head(calls[s]) # awaited => replies'[s] = replies[s]
         /\ \A t \in Servers \ {s} : calls'[t] = calls[t] /\ replies'[t] = replies[t]
  BY DEF Answer, FanOutTypeOK, trainerVars

LEMMA ServeQueues ==
  ASSUME TypeOK, QueuesInv, NEW s \in Servers, Serve(s)
  PROVE  QueuesInv'
<1>1. PICK r : r # Pending /\ Answer(s, r)
  BY ServeAnswers
<1>2. calls[s] # <<>>
  BY ServeAnswers
<1>. USE AnswerEffect
<1>3. CASE phase \in {"idle", "rollout", "resetting"}
  BY <1>2, <1>3 DEF QueuesInv, EmptyQueues
<1>4. CASE phase \in {"enabling", "broadcast"}
  <2>1. calls[s] = <<awaited>>
    BY <1>2, <1>4 DEF QueuesInv
  <2>2. Head(calls[s]) = awaited /\ Tail(calls[s]) = <<>>
    BY <2>1
  <2>3. calls'[s] = <<>> /\ replies'[s] # Pending
    BY <1>1, <2>2
  <2>4. \A t \in Servers :
          calls'[t] = IF replies'[t] = Pending THEN <<awaited>> ELSE <<>>
    BY <1>1, <1>4, <2>3 DEF QueuesInv
  <2>. QED
    BY <1>1, <1>4, <2>4 DEF QueuesInv, Pending
<1>5. CASE phase = "rollback"
  <2>1. replies[s] = Pending
    BY <1>2, <1>5 DEF QueuesInv
  <2>2. CASE calls[s] = <<awaited>>
    <3>0. Head(calls[s]) = awaited /\ Tail(calls[s]) = <<>>
      BY <2>2
    <3>1. calls'[s] = <<>> /\ replies'[s] # Pending
      BY <1>1, <3>0
    <3>. QED
      BY <1>1, <1>5, <3>1 DEF QueuesInv, Pending
  <2>3. ASSUME NEW g \in Gammas, g # current, calls[s] = <<ForceSetGamma(g), awaited>>
        PROVE  QueuesInv'
    <3>1. Head(calls[s]) = ForceSetGamma(g) /\ Tail(calls[s]) = <<awaited>>
      BY <2>3
    <3>2. Head(calls[s]) # awaited
      BY <1>5, <2>3, <3>1, CallsDiffer DEF QueuesInv
    <3>3. calls'[s] = <<awaited>> /\ replies'[s] = Pending
      BY <1>1, <2>1, <3>1, <3>2
    <3>. QED
      BY <1>1, <1>5, <3>3 DEF QueuesInv, Pending
  <2>. QED
    BY <1>5, <2>1, <2>2, <2>3 DEF QueuesInv
<1>6. CASE phase = "clearing"
  <2>1. replies[s] = Pending
    BY <1>2, <1>6 DEF QueuesInv
  <2>2. CASE calls[s] = <<awaited>>
    <3>0. Head(calls[s]) = awaited /\ Tail(calls[s]) = <<>>
      BY <2>2
    <3>1. calls'[s] = <<>> /\ replies'[s] # Pending
      BY <1>1, <3>0
    <3>. QED
      BY <1>1, <1>6, <3>1 DEF QueuesInv, Pending
  <2>3. CASE calls[s] = <<SetValidateMode(1), awaited>>
    <3>1. Head(calls[s]) = SetValidateMode(1) /\ Tail(calls[s]) = <<awaited>>
      BY <2>3
    <3>2. Head(calls[s]) # awaited
      BY <1>6, <2>3, <3>1, CallsDiffer DEF QueuesInv
    <3>3. calls'[s] = <<awaited>> /\ replies'[s] = Pending
      BY <1>1, <2>1, <3>1, <3>2
    <3>. QED
      BY <1>1, <1>6, <3>3 DEF QueuesInv, Pending
  <2>. QED
    BY <1>6, <2>1, <2>2, <2>3 DEF QueuesInv
<1>7. CASE phase = "aborted"
  <2>1. ASSUME rollback = "none"
        PROVE  \A t \in Servers : calls'[t] \in Seq(ValidateCalls)
    <3>1. calls[s] \in Seq(ValidateCalls)
      BY <1>7, <2>1 DEF QueuesInv
    <3>2. Tail(calls[s]) \in Seq(ValidateCalls)
      BY <1>2, <3>1, HeadTailProperties
    <3>. QED
      BY <1>1, <1>7, <2>1, <3>2 DEF QueuesInv
  <2>. QED
    BY <1>1, <1>7, <2>1 DEF QueuesInv
<1>. QED
  BY <1>3, <1>4, <1>5, <1>6, <1>7 DEF TrainerTypeOK, Phases

\* An answer to force_set_gamma says where the engine is.
LEMMA ServeAnswersInv ==
  ASSUME TypeOK, QueuesInv, AnswersInv, UniformGamma, NEW s \in Servers, Serve(s)
  PROVE  AnswersInv' /\ UniformGamma'
<1>1. PICK r : r # Pending /\ Answer(s, r)
  BY ServeAnswers
<1>2. calls[s] # <<>>
  BY ServeAnswers
<1>. USE AnswerEffect
<1>3. \A t \in Servers \ {s} :
        gamma'[t] = gamma[t] /\ workerGamma'[t] = workerGamma[t]
  BY DEF Serve, ForceNoOp, ForceApplies, ForceRaisesInWorkers, ServeSetValidateMode,
         CallRaises, engineVars, TrainerTypeOK, EngineTypeOK
<1>4. CASE phase \in {"idle", "rollout", "resetting"}
  BY <1>2, <1>4 DEF QueuesInv, EmptyQueues
<1>5. CASE phase \in {"enabling", "clearing"}
  <2>1. Head(calls[s]).op = "set_validate_mode"
    BY <1>2, <1>5, CallsDiffer DEF QueuesInv
  <2>2. gamma' = gamma /\ workerGamma' = workerGamma
    BY <2>1 DEF Serve, ForceNoOp, ForceApplies, ForceRaisesInWorkers,
         ServeSetValidateMode, CallRaises, engineVars, Serving
  <2>. QED
    BY <1>1, <1>5, <2>2 DEF AnswersInv, UniformGamma, Moving
<1>6. CASE phase = "broadcast"
  <2>1. PICK g \in Gammas : g # current /\ awaited = ForceSetGamma(g)
    BY <1>6 DEF QueuesInv
  <2>2. Head(calls[s]) = awaited /\ replies[s] = Pending
    BY <1>2, <1>6 DEF QueuesInv
  <2>3. gamma[s] = current /\ Head(calls[s]).op = "force_set_gamma"
        /\ Head(calls[s]).arg = g
    BY <1>6, <2>1, <2>2, CallsDiffer DEF AnswersInv
  <2>4. replies'[s] # Pending
    BY <1>1, <2>2
  <2>5. replies'[s].status = "returned" => gamma'[s] = g /\ \A w \in Workers : workerGamma'[s][w] = g
    <3>1. CASE ForceApplies(s)
      BY <2>3, <3>1 DEF ForceApplies, TrainerTypeOK, EngineTypeOK
    <3>2. CASE ForceRaisesInWorkers(s) \/ CallRaises(s)
      <4>1. Answer(s, Raised)
        BY <3>2 DEF ForceRaisesInWorkers, CallRaises
      <4>2. replies'[s] = Raised
        BY <2>2, <4>1, RepliesDiffer
      <4>. QED
        BY <4>2, RepliesDiffer
    <3>. QED
      BY <2>1, <2>3, <3>1, <3>2 DEF Serve, ForceNoOp, ServeSetValidateMode, Serving
  <2>. QED
    BY <1>1, <1>3, <1>6, <2>1, <2>4, <2>5, CallsDiffer
    DEF AnswersInv, AtGamma, UniformGamma, Moving, Pending
<1>7. CASE phase = "rollback"
  <2>1. replies[s] = Pending /\ awaited = ForceSetGamma(current)
    BY <1>2, <1>7 DEF QueuesInv
  <2>2. replies'[s].status = "returned" => gamma'[s] = current
    <3>1. CASE Head(calls[s]) # awaited
      BY <1>1, <2>1, <3>1, RepliesDiffer
    <3>2. CASE Head(calls[s]) = awaited
      <4>1. Head(calls[s]).op = "force_set_gamma" /\ Head(calls[s]).arg = current
        BY <2>1, <3>2, CallsDiffer
      <4>2. CASE ForceNoOp(s) \/ ForceApplies(s)
        BY <4>1, <4>2 DEF ForceNoOp, ForceApplies, TrainerTypeOK, EngineTypeOK, engineVars
      <4>3. CASE ForceRaisesInWorkers(s) \/ CallRaises(s)
        <5>1. Answer(s, Raised)
          BY <4>3 DEF ForceRaisesInWorkers, CallRaises
        <5>2. replies'[s] = Raised
          BY <3>2, <5>1, RepliesDiffer
        <5>. QED
          BY <5>2, RepliesDiffer
      <4>. QED
        BY <4>1, <4>2, <4>3 DEF Serve, ServeSetValidateMode, Serving
    <3>. QED
      BY <3>1, <3>2
  <2>3. \A t \in Servers \ {s} :
          replies'[t].status = "returned" => gamma'[t] = current
    BY <1>1, <1>3, <1>7 DEF AnswersInv
  <2>. QED
    BY <1>1, <1>7, <2>2, <2>3 DEF AnswersInv, UniformGamma, Moving
<1>8. CASE phase = "aborted"
  <2>1. rollback # "completed"
    BY <1>2, <1>8 DEF AnswersInv, EmptyQueues
  <2>. QED
    BY <1>1, <1>8, <2>1 DEF AnswersInv, UniformGamma
<1>. QED
  BY <1>4, <1>5, <1>6, <1>7, <1>8 DEF TrainerTypeOK, EngineTypeOK, Phases

LEMMA ServeValidate ==
  ASSUME TypeOK, QueuesInv, ValidateInv, NEW s \in Servers, Serve(s)
  PROVE  ValidateInv'
<1>1. PICK r : r # Pending /\ Answer(s, r)
  BY ServeAnswers
<1>2. calls[s] # <<>>
  BY ServeAnswers
<1>. USE AnswerEffect
<1>3. \A t \in Servers \ {s} : validateMode'[t] = validateMode[t]
  BY DEF Serve, ForceNoOp, ForceApplies, ForceRaisesInWorkers, ServeSetValidateMode,
         CallRaises, engineVars, TrainerTypeOK, EngineTypeOK
<1>4. CASE phase \in {"idle", "rollout", "resetting"}
  BY <1>2, <1>4 DEF QueuesInv, EmptyQueues
<1>5. CASE Moving
  <2>1. Head(calls[s]).op = "force_set_gamma"
    BY <1>2, <1>5, CallsDiffer DEF QueuesInv, Moving
  <2>2. validateMode' = validateMode
    BY <2>1 DEF Serve, ForceNoOp, ForceApplies, ForceRaisesInWorkers,
         ServeSetValidateMode, CallRaises, engineVars, Serving
  <2>. QED
    BY <1>1, <1>5, <2>2 DEF ValidateInv, Moving
<1>6. CASE phase \in {"enabling", "clearing"}
  <2>. DEFINE m == IF phase = "enabling" THEN 1 ELSE 0
  <2>1. replies[s] = Pending /\ awaited = SetValidateMode(m)
    BY <1>2, <1>6 DEF QueuesInv
  <2>2. replies'[s].status = "returned" => validateMode'[s] = (m = 1)
    <3>1. CASE Head(calls[s]) # awaited
      BY <1>1, <2>1, <3>1, RepliesDiffer
    <3>2. CASE Head(calls[s]) = awaited
      <4>1. Head(calls[s]).op = "set_validate_mode" /\ Head(calls[s]).arg = m
        BY <2>1, <3>2, CallsDiffer
      <4>2. CASE ServeSetValidateMode(s)
        BY <4>1, <4>2 DEF ServeSetValidateMode, TrainerTypeOK, EngineTypeOK
      <4>3. CASE CallRaises(s)
        <5>1. Answer(s, Raised)
          BY <4>3 DEF CallRaises
        <5>2. replies'[s] = Raised
          BY <3>2, <5>1, RepliesDiffer
        <5>. QED
          BY <5>2, RepliesDiffer
      <4>. QED
        BY <4>1, <4>2, <4>3
        DEF Serve, ForceNoOp, ForceApplies, ForceRaisesInWorkers, Serving
    <3>. QED
      BY <3>1, <3>2
  <2>3. \A t \in Servers \ {s} :
          /\ phase = "enabling" /\ replies'[t].status = "returned" => validateMode'[t]
          /\ phase = "clearing" /\ replies'[t].status = "returned" => ~validateMode'[t]
    BY <1>1, <1>3 DEF ValidateInv
  <2>4. CASE phase = "enabling"
    <3>0. m = 1
      BY <2>4
    <3>1. replies'[s].status = "returned" => validateMode'[s]
      BY <2>2, <3>0
    <3>. QED
      BY <1>1, <2>3, <2>4, <3>1 DEF ValidateInv, Moving
  <2>5. CASE phase = "clearing"
    <3>0. (m = 1) = FALSE
      BY <2>5
    <3>1. replies'[s].status = "returned" => ~validateMode'[s]
      BY <2>2, <3>0
    <3>. QED
      BY <1>1, <2>3, <2>5, <3>1 DEF ValidateInv, Moving
  <2>. QED
    BY <1>6, <2>4, <2>5
<1>7. CASE phase = "aborted"
  BY <1>1, <1>7 DEF ValidateInv, Moving
<1>. QED
  BY <1>4, <1>5, <1>6, <1>7 DEF TrainerTypeOK, EngineTypeOK, Phases, Moving

LEMMA ServeIInv ==
  ASSUME IInv, NEW s \in Servers, Serve(s)
  PROVE  IInv'
<1>1. TypeOK'
  BY ServeType DEF IInv
<1>2. QueuesInv'
  BY ServeQueues DEF IInv
<1>3. AnswersInv' /\ UniformGamma'
  BY ServeAnswersInv DEF IInv
<1>4. ValidateInv'
  BY ServeValidate DEF IInv
<1>5. PICK r : r # Pending /\ Answer(s, r)
  BY ServeAnswers DEF IInv
<1>6. CountersInv' /\ EvidenceInv'
  BY <1>5 DEF IInv, CountersInv, EvidenceInv, Answer, trainerVars, historyVars
<1>7. ReportsInv'
  <2>1. CASE phase = "rollout"
    BY <2>1, ServeAnswers DEF IInv, QueuesInv, EmptyQueues
  <2>2. CASE phase # "rollout"
    BY <1>5, <2>2 DEF IInv, ReportsInv, Answer, trainerVars, statVars
  <2>. QED
    BY <2>1, <2>2
<1>. QED
  BY <1>1, <1>2, <1>3, <1>4, <1>6, <1>7 DEF IInv

LEMMA GenerateIInv ==
  ASSUME IInv, NEW s \in Servers, GenerateOn(s)
  PROVE  IInv'
<1>1. TypeOK'
  BY GenerateType DEF IInv
<1>2. QueuesInv' /\ AnswersInv' /\ UniformGamma' /\ ValidateInv'
  BY DEF IInv, GenerateOn, trainerVars, fanOutVars, engineVars, QueuesInv, EmptyQueues,
         AnswersInv, AtGamma, UniformGamma, ValidateInv, Moving
<1>3. CountersInv' /\ EvidenceInv'
  BY DEF IInv, GenerateOn, trainerVars, fanOutVars, historyVars, CountersInv, EvidenceInv
<1>4. ReportsInv'
  BY DEF IInv, StatsTypeOK, GenerateOn, trainerVars, engineVars, ReportsInv
<1>. QED
  BY <1>1, <1>2, <1>3, <1>4 DEF IInv

-------------------------------------------------------------------------------
(* The steps of the trainer.                                               *)

LEMMA StartTraining ==
  ASSUME IInv, StartTrainingRollout
  PROVE  IInv'
<1>. USE DEF IInv, StartTrainingRollout, fanOutVars, engineVars, statVars, historyVars
<1>1. TrainerTypeOK' /\ FanOutTypeOK' /\ EngineTypeOK'
  BY DEF TrainerTypeOK, FanOutTypeOK, EngineTypeOK, Phases
<1>2. StatsTypeOK' /\ HistoryTypeOK'
  BY DEF StatsTypeOK, HistoryTypeOK
<1>3. QueuesInv' /\ AnswersInv'
  BY DEF QueuesInv, EmptyQueues, AnswersInv
<1>4. UniformGamma'
  BY DEF UniformGamma, Moving
<1>5. ValidateInv'
  <2>1. phase' = "rollout" /\ validating' = FALSE /\ validateMode' = validateMode
    OBVIOUS
  <2>2. \A s \in Servers : validateMode[s] = FALSE
    BY DEF ValidateInv, EngineTypeOK
  <2>. QED
    BY <2>1, <2>2 DEF ValidateInv, Moving
<1>6. CountersInv' /\ EvidenceInv' /\ ReportsInv'
  BY DEF CountersInv, EvidenceInv, ReportsInv
<1>. QED
  BY <1>1, <1>2, <1>3, <1>4, <1>5, <1>6

LEMMA StartValidation ==
  ASSUME IInv, StartValidationRollout
  PROVE  IInv'
<1>. USE DEF IInv, StartValidationRollout, engineVars, statVars, historyVars
<1>1. FanOut(SetValidateMode(1)) /\ SetValidateMode(1) \in Calls
  BY CallsOfLadder
<1>2. TrainerTypeOK' /\ FanOutTypeOK' /\ EngineTypeOK'
  BY <1>1, FanOutType DEF TrainerTypeOK, FanOutTypeOK, EngineTypeOK, Phases
<1>3. StatsTypeOK' /\ HistoryTypeOK'
  BY DEF StatsTypeOK, HistoryTypeOK
<1>4. \A s \in Servers : calls'[s] = <<SetValidateMode(1)>> /\ replies'[s] = Pending
  <2>1. \A s \in Servers : calls'[s] = Append(calls[s], SetValidateMode(1))
    BY DEF FanOut
  <2>2. \A s \in Servers : calls[s] = <<>>
    BY DEF QueuesInv, EmptyQueues
  <2>3. \A c : Append(<<>>, c) = <<c>>
    OBVIOUS
  <2>. QED
    BY <2>1, <2>2, <2>3 DEF FanOut
<1>5. awaited' = SetValidateMode(1)
  BY DEF FanOut
<1>6. QueuesInv' /\ AnswersInv'
  BY <1>4, <1>5 DEF QueuesInv, AnswersInv, Pending
<1>7. UniformGamma' /\ ValidateInv'
  BY <1>4, RepliesDiffer DEF UniformGamma, ValidateInv, Moving
<1>8. CountersInv' /\ EvidenceInv' /\ ReportsInv'
  BY DEF CountersInv, EvidenceInv, ReportsInv
<1>. QED
  BY <1>2, <1>3, <1>6, <1>7, <1>8

LEMMA AppendToFew ==
  ASSUME NEW S, NEW b \in S, NEW c \in S
  PROVE  Append(<<>>, c) = <<c>> /\ Append(<<b>>, c) = <<b, c>>
<1>. DEFINE longer == Append(<<b>>, c)
<1>1. <<b>> \in Seq(S) /\ Len(<<b>>) = 1 /\ <<b>>[1] = b
  OBVIOUS
<1>2. <<b, c>> \in Seq(S) /\ Len(<<b, c>>) = 2 /\ <<b, c>>[1] = b /\ <<b, c>>[2] = c
  OBVIOUS
<1>3. longer \in Seq(S) /\ Len(longer) = 2 /\ longer[1] = b /\ longer[2] = c
  BY <1>1, AppendProperties
<1>. HIDE DEF longer
<1>4. longer = <<b, c>>
  BY <1>2, <1>3, SeqEqual
<1>5. Append(<<>>, c) = <<c>>
  OBVIOUS
<1>. QED
  BY <1>4, <1>5 DEF longer

LEMMA FanOutOntoEmpty ==
  ASSUME TypeOK, EmptyQueues, NEW c \in Calls, FanOut(c)
  PROVE  /\ awaited' = c
         /\ \A s \in Servers : calls'[s] = <<c>> /\ replies'[s] = Pending
<1>1. \A s \in Servers : calls'[s] = Append(calls[s], c)
  BY DEF FanOut
<1>2. Append(<<>>, c) = <<c>>
  OBVIOUS
<1>. QED
  BY <1>1, <1>2 DEF FanOut, EmptyQueues

LEMMA ValidateQueues ==
  /\ <<>> \in Seq(ValidateCalls)
  /\ \A c \in ValidateCalls : <<c>> \in Seq(ValidateCalls)
  /\ \A c, d \in ValidateCalls : <<c, d>> \in Seq(ValidateCalls)
  /\ \A m \in {0, 1} : SetValidateMode(m) \in ValidateCalls
<1>1. <<>> \in Seq(ValidateCalls)
  OBVIOUS
<1>2. \A c \in ValidateCalls : <<c>> \in Seq(ValidateCalls)
  OBVIOUS
<1>3. \A c, d \in ValidateCalls : <<c, d>> \in Seq(ValidateCalls)
  OBVIOUS
<1>4. \A m \in {0, 1} : SetValidateMode(m) \in ValidateCalls
  BY DEF ValidateCalls
<1>. QED
  BY <1>1, <1>2, <1>3, <1>4

\* A step that ends in "aborted" and moves no engine keeps the invariant.
LEMMA Aborting ==
  ASSUME IInv, TypeOK', phase # "aborted", phase' = "aborted",
         \A s \in Servers : calls'[s] \in Seq(ValidateCalls),
         UNCHANGED <<rollback, crossings, lowCrossings, historyVars>>
  PROVE  IInv'
<1>1. QueuesInv' /\ UniformGamma' /\ ReportsInv'
  BY DEF QueuesInv, UniformGamma, ReportsInv
<1>2. AnswersInv'
  BY DEF IInv, AnswersInv
<1>3. CountersInv'
  BY DEF IInv, CountersInv
<1>4. EvidenceInv'
  BY DEF IInv, EvidenceInv, historyVars
<1>5. ValidateInv'
  BY DEF ValidateInv, Moving
<1>. QED
  BY <1>1, <1>2, <1>3, <1>4, <1>5 DEF IInv

LEMMA Enabled ==
  ASSUME IInv, ValidateModeEnabled
  PROVE  IInv'
<1>. USE DEF IInv, ValidateModeEnabled, fanOutVars, engineVars, statVars, historyVars
<1>1. TrainerTypeOK' /\ FanOutTypeOK' /\ EngineTypeOK'
  BY DEF TrainerTypeOK, FanOutTypeOK, EngineTypeOK, Phases
<1>2. StatsTypeOK' /\ HistoryTypeOK'
  BY DEF StatsTypeOK, HistoryTypeOK
<1>3. \A s \in Servers : replies[s] # Pending /\ replies[s].status = "returned"
  BY RepliesDiffer DEF AllReturned
<1>4. QueuesInv'
  BY <1>3 DEF QueuesInv, EmptyQueues
<1>5. AnswersInv' /\ UniformGamma'
  BY DEF AnswersInv, UniformGamma, Moving
<1>6. ValidateInv'
  <2>1. validating /\ \A s \in Servers : validateMode[s]
    BY <1>3 DEF QueuesInv, ValidateInv
  <2>2. \A s \in Servers : validateMode'[s] = validating'
    BY <2>1 DEF TrainerTypeOK, EngineTypeOK
  <2>. QED
    BY <2>2 DEF ValidateInv, Moving
<1>7. CountersInv' /\ EvidenceInv'
  BY DEF CountersInv, EvidenceInv
<1>8. ReportsInv'
  BY DEF ReportsInv
<1>. QED
  BY <1>1, <1>2, <1>4, <1>5, <1>6, <1>7, <1>8

\* The exception leaves through the finally block of a validation rollout.
LEMMA RaisingIInv ==
  ASSUME IInv, phase \in {"enabling", "rollout", "resetting"}, Raise,
         UNCHANGED <<validating, crossings, lowCrossings, current, rollback, engineVars,
                     statVars, historyVars, rollouts>>,
         faults' \in Nat
  PROVE  IInv'
<1>. USE DEF engineVars, statVars, historyVars
<1>1. TypeOK'
  BY RaiseType DEF IInv, TrainerTypeOK, FanOutTypeOK, EngineTypeOK, StatsTypeOK,
     HistoryTypeOK
<1>2. CASE ~validating
  <2>1. phase' = "aborted" /\ calls' = calls
    BY <1>2 DEF Raise, fanOutVars
  <2>2. \A s \in Servers : calls[s] = <<>>
    BY <1>2 DEF IInv, QueuesInv, EmptyQueues
  <2>3. \A s \in Servers : calls'[s] \in Seq(ValidateCalls)
    BY <2>1, <2>2, ValidateQueues
  <2>. QED
    BY <1>1, <2>1, <2>3, Aborting
<1>3. CASE validating
  <2>1. phase' = "clearing" /\ raising' = TRUE /\ FanOut(SetValidateMode(0))
    BY <1>3 DEF Raise
  <2>2. awaited' = SetValidateMode(0) /\ \A s \in Servers : replies'[s] = Pending
    BY <2>1 DEF FanOut
  <2>3. \A s \in Servers : calls[s] = <<>> \/ calls[s] = <<SetValidateMode(1)>>
    BY DEF IInv, QueuesInv, EmptyQueues
  <2>4. \A s \in Servers : calls'[s] \in {<<awaited'>>, <<SetValidateMode(1), awaited'>>}
    <3>1. \A s \in Servers : calls'[s] = Append(calls[s], SetValidateMode(0))
      BY <2>1 DEF FanOut
    <3>. QED
      BY <2>2, <2>3, <3>1, AppendToFew, CallsOfLadder
  <2>5. QueuesInv'
    BY <2>1, <2>2, <2>4 DEF QueuesInv, Pending
  <2>6. AnswersInv' /\ UniformGamma'
    BY <2>1 DEF IInv, AnswersInv, UniformGamma, Moving
  <2>7. CountersInv' /\ EvidenceInv'
    BY <2>1 DEF IInv, CountersInv, EvidenceInv
  <2>8. ReportsInv'
    BY <2>1 DEF ReportsInv
  <2>9. ValidateInv'
    BY <2>1, <2>2, RepliesDiffer DEF ValidateInv, Moving
  <2>. QED
    BY <1>1, <2>5, <2>6, <2>7, <2>8, <2>9 DEF IInv
<1>. QED
  BY <1>2, <1>3

LEMMA Raising ==
  ASSUME IInv, EnablingRaises \/ RolloutRaises
  PROVE  IInv'
<1>1. faults' \in Nat
  BY DEF IInv, HistoryTypeOK, EnablingRaises, RolloutRaises, Fault
<1>. QED
  BY <1>1, RaisingIInv DEF EnablingRaises, RolloutRaises

\* What a step to "resetting" that moves nothing has to show of the counters.
LEMMA ToResetting ==
  ASSUME IInv, phase = "rollout", phase' = "resetting", TypeOK', CountersInv', EvidenceInv',
         UNCHANGED <<validating, raising, rollback, fanOutVars, engineVars, statVars>>
  PROVE  IInv'
<1>. USE DEF fanOutVars, engineVars, statVars
<1>1. QueuesInv'
  BY DEF IInv, QueuesInv, EmptyQueues
<1>2. AnswersInv' /\ UniformGamma'
  BY DEF IInv, AnswersInv, UniformGamma, Moving
<1>3. ReportsInv'
  BY DEF ReportsInv
<1>4. ValidateInv'
  BY DEF IInv, ValidateInv, Moving
<1>. QED
  BY <1>1, <1>2, <1>3, <1>4 DEF IInv

LEMMA Skipping ==
  ASSUME IInv, SkipValidation
  PROVE  IInv'
<1>. USE DEF SkipValidation, fanOutVars, engineVars, statVars, historyVars
<1>1. TypeOK'
  BY DEF IInv, TrainerTypeOK, FanOutTypeOK, EngineTypeOK, StatsTypeOK, HistoryTypeOK, Phases
<1>2. CountersInv' /\ EvidenceInv'
  BY DEF IInv, Collected, CountersInv, EvidenceInv
<1>. QED
  BY <1>1, <1>2, ToResetting DEF Collected

LEMMA SkippingNoEvidence ==
  ASSUME IInv, SkipNoEvidence
  PROVE  IInv'
<1>. USE DEF SkipNoEvidence, fanOutVars, engineVars, statVars
<1>1. TypeOK'
  BY RememberType
  DEF IInv, TrainerTypeOK, FanOutTypeOK, EngineTypeOK, StatsTypeOK, HistoryTypeOK, Phases
<1>2. CountersInv'
  BY DEF IInv, Collected, CountersInv
<1>3. EvidenceInv'
  <2>1. evidence' = Append(evidence, "none") /\ evidence \in Seq(Crossings)
    BY DEF Remember, Crossing, IInv, HistoryTypeOK
  <2>2. crossings \in Nat /\ lowCrossings \in Nat
    BY PersistenceAssumption DEF IInv, TrainerTypeOK
  <2>3. EndsWith(evidence', "up", crossings)
    BY <2>1, <2>2, NothingDrafted DEF IInv, EvidenceInv
  <2>4. EndsWith(evidence', "down", lowCrossings)
    BY <2>1, <2>2, NothingDrafted DEF IInv, EvidenceInv
  <2>. QED
    BY <2>3, <2>4 DEF EvidenceInv
<1>. QED
  BY <1>1, <1>2, <1>3, ToResetting DEF Collected

-------------------------------------------------------------------------------
(* The decision.                                                           *)

\* The gamma the trainer sees is that of every engine.
LEMMA SeenIsCluster ==
  ASSUME IInv, Collected, HasEvidence
  PROVE  SeenGamma \in Gammas /\ \A s \in Servers : gamma[s] = SeenGamma
<1>1. SeenGamma \in GammasSeen /\ SeenGamma \in Gammas
  BY SeenIsGamma DEF IInv
<1>2. PICK t \in Servers : SeenGamma = reported[t] /\ reported[t] # -1
  BY <1>1 DEF GammasSeen
<1>3. phase = "rollout"
  BY DEF Collected
<1>4. reported[t] = gamma[t]
  BY <1>2, <1>3 DEF IInv, ReportsInv
<1>5. PICK w \in Workers : TRUE
  BY ReplicasAssumption
<1>6. \A s \in Servers : gamma[s] = gamma[t]
  BY <1>3, <1>5 DEF IInv, UniformGamma, Moving
<1>. QED
  BY <1>1, <1>2, <1>4, <1>6

\* The broadcast of a target other than the gamma of the cluster.
LEMMA Broadcasting ==
  ASSUME IInv, Deciding, phase' = "broadcast", current' = SeenGamma,
         NEW target \in Gammas, target # SeenGamma, FanOut(ForceSetGamma(target)),
         TypeOK', CountersInv', EvidenceInv',
         UNCHANGED <<validating, raising, rollback, engineVars, statVars>>
  PROVE  IInv'
<1>. USE DEF engineVars, statVars
<1>1. SeenGamma \in Gammas /\ \A s \in Servers : gamma[s] = SeenGamma
  BY SeenIsCluster DEF Deciding
<1>2. phase = "rollout" /\ EmptyQueues /\ ~validating
  BY DEF IInv, QueuesInv, Deciding, Collected
<1>3. /\ awaited' = ForceSetGamma(target)
      /\ \A s \in Servers : calls'[s] = <<awaited'>> /\ replies'[s] = Pending
  BY <1>2, FanOutOntoEmpty, CallsOfLadder DEF IInv
<1>4. QueuesInv'
  BY <1>3 DEF QueuesInv
<1>5. AnswersInv'
  BY <1>1, <1>2, <1>3, RepliesDiffer DEF IInv, AnswersInv
<1>6. UniformGamma' /\ ReportsInv'
  BY DEF UniformGamma, ReportsInv, Moving
<1>7. ValidateInv'
  BY <1>2 DEF IInv, ValidateInv, Moving, EngineTypeOK
<1>. QED
  BY <1>4, <1>5, <1>6, <1>7 DEF IInv

LEMMA CrossingUp ==
  ASSUME IInv, CrossUp
  PROVE  IInv'
<1>. USE DEF CrossUp, fanOutVars, engineVars, statVars
<1>. DEFINE target == NextGamma(SeenGamma)
<1>1. SeenGamma \in Gammas /\ HasEvidence /\ phase = "rollout" /\ HasNext(SeenGamma)
  BY SeenIsCluster DEF Deciding, Collected, Crossing, ReadyToElevate
<1>2. target \in Gammas /\ target # SeenGamma
  <2>1. SeenGamma \in Nat /\ NextGamma(SeenGamma) \in Nat
    BY <1>1, NextIsHigher, GammasAreNats
  <2>. QED
    BY <1>1, <2>1, NextIsHigher
<1>3. /\ crossings < PersistenceN /\ lowCrossings < PersistenceN
      /\ crossings \in Nat /\ lowCrossings \in Nat /\ PersistenceN \in Nat \ {0}
  BY <1>1, PersistenceAssumption DEF IInv, TrainerTypeOK, CountersInv
<1>4. crossings' = crossings + 1 /\ lowCrossings' = 0 /\ current' = SeenGamma
  OBVIOUS
<1>5. evidence' = Append(evidence, "up") /\ evidence \in Seq(Crossings)
  BY DEF Deciding, Remember, IInv, HistoryTypeOK
<1>6. EvidenceInv'
  <2>1. EndsWith(evidence', "up", crossings + 1)
    BY <1>3, <1>5, OneMoreCrossing DEF IInv, EvidenceInv
  <2>2. evidence' \in Seq(Crossings)
    BY RememberType DEF IInv
  <2>3. EndsWith(evidence', "down", 0)
    BY <2>2, EndsWithNone
  <2>. QED
    BY <1>4, <2>1, <2>3 DEF EvidenceInv
<1>7. evidence' \in Seq(Crossings)
  BY RememberType DEF IInv
<1>8. CASE crossings + 1 >= PersistenceN
  <2>1. phase' = "broadcast" /\ FanOut(ForceSetGamma(target))
    BY <1>8
  <2>2. crossings' = PersistenceN
    BY <1>3, <1>4, <1>8
  <2>3. awaited'.arg = target
    BY <2>1, CallsDiffer DEF FanOut
  <2>4. CountersInv'
    BY <1>1, <1>3, <1>4, <2>1, <2>2, <2>3 DEF CountersInv
  <2>5. FanOutTypeOK'
    BY <1>2, <2>1, FanOutType, CallsOfLadder DEF IInv, FanOutTypeOK
  <2>6. TypeOK'
    BY <1>1, <1>3, <1>4, <1>7, <2>1, <2>2, <2>5
    DEF IInv, TrainerTypeOK, EngineTypeOK, StatsTypeOK, HistoryTypeOK, Phases
  <2>. HIDE DEF target
  <2>. QED
    BY <1>2, <1>6, <2>1, <2>4, <2>6, Broadcasting
<1>9. CASE ~(crossings + 1 >= PersistenceN)
  <2>1. phase' = "resetting" /\ UNCHANGED fanOutVars
    BY <1>9
  <2>2. crossings' < PersistenceN /\ crossings' \in 0..PersistenceN
    BY <1>3, <1>4, <1>9
  <2>3. CountersInv'
    BY <1>3, <1>4, <2>1, <2>2 DEF CountersInv
  <2>4. TypeOK'
    BY <1>1, <1>3, <1>4, <1>7, <2>1, <2>2
    DEF IInv, TrainerTypeOK, FanOutTypeOK, EngineTypeOK, StatsTypeOK, HistoryTypeOK, Phases
  <2>. QED
    BY <1>1, <1>6, <2>1, <2>3, <2>4, ToResetting
<1>. QED
  BY <1>8, <1>9

LEMMA CrossingDown ==
  ASSUME IInv, CrossDown
  PROVE  IInv'
<1>. USE DEF CrossDown, fanOutVars, engineVars, statVars
<1>. DEFINE target == PrevGamma(SeenGamma)
<1>1. SeenGamma \in Gammas /\ HasEvidence /\ phase = "rollout" /\ HasPrev(SeenGamma)
  BY SeenIsCluster DEF Deciding, Collected, Crossing, ReadyToLower
<1>2. target \in Gammas /\ target # SeenGamma
  <2>1. SeenGamma \in Nat /\ PrevGamma(SeenGamma) \in Nat
    BY <1>1, PrevIsLower, GammasAreNats
  <2>. QED
    BY <1>1, <2>1, PrevIsLower
<1>3. /\ crossings < PersistenceN /\ lowCrossings < PersistenceN
      /\ crossings \in Nat /\ lowCrossings \in Nat /\ PersistenceN \in Nat \ {0}
  BY <1>1, PersistenceAssumption DEF IInv, TrainerTypeOK, CountersInv
<1>4. lowCrossings' = lowCrossings + 1 /\ crossings' = 0 /\ current' = SeenGamma
  OBVIOUS
<1>5. evidence' = Append(evidence, "down") /\ evidence \in Seq(Crossings)
  BY DEF Deciding, Remember, IInv, HistoryTypeOK
<1>6. EvidenceInv'
  <2>1. EndsWith(evidence', "down", lowCrossings + 1)
    BY <1>3, <1>5, OneMoreCrossing DEF IInv, EvidenceInv
  <2>2. evidence' \in Seq(Crossings)
    BY RememberType DEF IInv
  <2>3. EndsWith(evidence', "up", 0)
    BY <2>2, EndsWithNone
  <2>. QED
    BY <1>4, <2>1, <2>3 DEF EvidenceInv
<1>7. evidence' \in Seq(Crossings)
  BY RememberType DEF IInv
<1>8. CASE lowCrossings + 1 >= PersistenceN
  <2>1. phase' = "broadcast" /\ FanOut(ForceSetGamma(target))
    BY <1>8
  <2>2. lowCrossings' = PersistenceN
    BY <1>3, <1>4, <1>8
  <2>3. awaited'.arg = target
    BY <2>1, CallsDiffer DEF FanOut
  <2>4. CountersInv'
    BY <1>1, <1>3, <1>4, <2>1, <2>2, <2>3 DEF CountersInv
  <2>5. FanOutTypeOK'
    BY <1>2, <2>1, FanOutType, CallsOfLadder DEF IInv, FanOutTypeOK
  <2>6. TypeOK'
    BY <1>1, <1>3, <1>4, <1>7, <2>1, <2>2, <2>5
    DEF IInv, TrainerTypeOK, EngineTypeOK, StatsTypeOK, HistoryTypeOK, Phases
  <2>. HIDE DEF target
  <2>. QED
    BY <1>2, <1>6, <2>1, <2>4, <2>6, Broadcasting
<1>9. CASE ~(lowCrossings + 1 >= PersistenceN)
  <2>1. phase' = "resetting" /\ UNCHANGED fanOutVars
    BY <1>9
  <2>2. lowCrossings' < PersistenceN /\ lowCrossings' \in 0..PersistenceN
    BY <1>3, <1>4, <1>9
  <2>3. CountersInv'
    BY <1>3, <1>4, <2>1, <2>2 DEF CountersInv
  <2>4. TypeOK'
    BY <1>1, <1>3, <1>4, <1>7, <2>1, <2>2
    DEF IInv, TrainerTypeOK, FanOutTypeOK, EngineTypeOK, StatsTypeOK, HistoryTypeOK, Phases
  <2>. QED
    BY <1>1, <1>6, <2>1, <2>3, <2>4, ToResetting
<1>. QED
  BY <1>8, <1>9

LEMMA Between ==
  ASSUME IInv, NoCrossing
  PROVE  IInv'
<1>. USE DEF NoCrossing, fanOutVars, engineVars, statVars
<1>1. phase = "rollout" /\ SeenGamma \in Gammas /\ PersistenceN \in Nat \ {0}
  BY SeenIsCluster, PersistenceAssumption DEF Deciding, Collected
<1>2. evidence' \in Seq(Crossings)
  BY RememberType DEF IInv
<1>3. TypeOK'
  BY <1>1, <1>2
  DEF IInv, TrainerTypeOK, FanOutTypeOK, EngineTypeOK, StatsTypeOK, HistoryTypeOK, Phases
<1>4. CountersInv'
  BY <1>1 DEF CountersInv
<1>5. EvidenceInv'
  BY <1>2, EndsWithNone DEF EvidenceInv
<1>. QED
  BY <1>1, <1>3, <1>4, <1>5, ToResetting

-------------------------------------------------------------------------------
(* The broadcast and what follows it.                                      *)

LEMMA Confirmed ==
  ASSUME IInv, BroadcastSucceeds
  PROVE  IInv'
<1>. USE DEF BroadcastSucceeds, fanOutVars, engineVars, statVars
<1>1. \A s \in Servers : replies[s].status = "returned" /\ replies[s] # Pending
  BY RepliesDiffer DEF AllReturned
<1>2. PICK g \in Gammas : awaited = ForceSetGamma(g) /\ g # current
  BY DEF IInv, QueuesInv
<1>3. \A s \in Servers : calls[s] = <<>> /\ AtGamma(s, g)
  BY <1>1, <1>2, CallsDiffer DEF IInv, QueuesInv, AnswersInv
<1>4. /\ crossings = 0 \/ lowCrossings = 0
      /\ PersistenceN \in Nat \ {0} /\ crossings \in Nat /\ lowCrossings \in Nat
      /\ current \in Nat
  BY PersistenceAssumption, GammasAreNats DEF IInv, CountersInv, TrainerTypeOK
<1>5. crossings' = 0 /\ lowCrossings' = 0
  <2>1. CASE crossings = PersistenceN /\ HasNext(current) /\ awaited.arg = NextGamma(current)
    <3>1. awaited.arg > current
      BY <2>1, NextIsHigher DEF IInv, TrainerTypeOK
    <3>. QED
      BY <1>4, <2>1, <3>1
  <2>2. CASE lowCrossings = PersistenceN /\ HasPrev(current) /\ awaited.arg = PrevGamma(current)
    <3>1. awaited.arg < current /\ awaited.arg \in Nat
      BY <2>2, PrevIsLower, GammasAreNats DEF IInv, TrainerTypeOK
    <3>2. ~(awaited.arg > current)
      BY <1>4, <3>1
    <3>. QED
      BY <1>4, <2>2, <3>2
  <2>. QED
    BY <2>1, <2>2 DEF IInv, CountersInv
<1>6. evidence' = <<>> /\ evidence' \in Seq(Crossings)
  OBVIOUS
<1>7. TypeOK'
  BY <1>4, <1>5, <1>6
  DEF IInv, TrainerTypeOK, FanOutTypeOK, EngineTypeOK, StatsTypeOK, HistoryTypeOK, Phases
<1>8. QueuesInv'
  BY <1>3 DEF QueuesInv, EmptyQueues
<1>9. AnswersInv'
  BY DEF IInv, AnswersInv
<1>10. UniformGamma'
  BY <1>3 DEF AtGamma, UniformGamma
<1>11. CountersInv' /\ EvidenceInv'
  <2>1. EndsWith(evidence', "up", 0) /\ EndsWith(evidence', "down", 0)
    BY <1>6, EndsWithNone
  <2>2. CountersInv'
    BY <1>4, <1>5 DEF CountersInv
  <2>. QED
    BY <1>5, <2>1, <2>2 DEF EvidenceInv
<1>12. ReportsInv'
  BY DEF ReportsInv
<1>13. ValidateInv'
  <2>1. validating = FALSE /\ \A s \in Servers : validateMode[s] = FALSE
    BY DEF IInv, ValidateInv, Moving, TrainerTypeOK, EngineTypeOK
  <2>. QED
    BY <2>1 DEF ValidateInv, Moving
<1>. QED
  BY <1>7, <1>8, <1>9, <1>10, <1>11, <1>12, <1>13 DEF IInv

LEMMA RollingBack ==
  ASSUME IInv, BroadcastFails
  PROVE  IInv'
<1>. USE DEF BroadcastFails, engineVars, statVars, historyVars
<1>1. current \in Gammas /\ ForceSetGamma(current) \in Calls
  BY CallsOfLadder DEF IInv, TrainerTypeOK
<1>2. awaited' = ForceSetGamma(current) /\ \A s \in Servers : replies'[s] = Pending
  BY DEF FanOut
<1>3. PICK g \in Gammas : awaited = ForceSetGamma(g) /\ g # current
  BY DEF IInv, QueuesInv
<1>4. \A s \in Servers : calls'[s] \in {<<awaited'>>, <<ForceSetGamma(g), awaited'>>}
  <2>1. \A s \in Servers : calls[s] = <<>> \/ calls[s] = <<ForceSetGamma(g)>>
    BY <1>3 DEF IInv, QueuesInv
  <2>2. \A s \in Servers : calls'[s] = Append(calls[s], ForceSetGamma(current))
    BY DEF FanOut
  <2>. QED
    BY <1>1, <1>2, <2>1, <2>2, AppendToFew, CallsOfLadder
<1>5. TypeOK'
  <2>1. FanOutTypeOK'
    BY <1>1, FanOutType DEF IInv, FanOutTypeOK
  <2>. QED
    BY <2>1 DEF IInv, TrainerTypeOK, EngineTypeOK, StatsTypeOK, HistoryTypeOK, Phases
<1>6. QueuesInv'
  BY <1>2, <1>3, <1>4 DEF QueuesInv
<1>7. AnswersInv'
  BY <1>2, RepliesDiffer DEF IInv, AnswersInv
<1>8. UniformGamma' /\ ReportsInv'
  BY DEF UniformGamma, ReportsInv, Moving
<1>9. CountersInv' /\ EvidenceInv'
  BY DEF IInv, CountersInv, EvidenceInv
<1>10. ValidateInv'
  BY DEF IInv, ValidateInv, Moving
<1>. QED
  BY <1>5, <1>6, <1>7, <1>8, <1>9, <1>10 DEF IInv

LEMMA RolledBack ==
  ASSUME IInv, RollbackEnds
  PROVE  IInv'
<1>. USE DEF RollbackEnds, fanOutVars, engineVars, statVars, historyVars
<1>1. TypeOK'
  BY DEF IInv, TrainerTypeOK, FanOutTypeOK, EngineTypeOK, StatsTypeOK, HistoryTypeOK, Phases
<1>2. QueuesInv' /\ UniformGamma' /\ ReportsInv'
  BY DEF QueuesInv, UniformGamma, ReportsInv
<1>3. ASSUME rollback' = "completed"
      PROVE  EmptyQueues /\ \A s \in Servers : gamma[s] = current
  <2>1. \A s \in Servers : replies[s].status = "returned" /\ replies[s] # Pending
    BY <1>3, RepliesDiffer DEF AllReturned
  <2>. QED
    BY <2>1 DEF IInv, QueuesInv, AnswersInv, EmptyQueues
<1>4. AnswersInv'
  BY <1>3 DEF AnswersInv, EmptyQueues
<1>5. CountersInv' /\ EvidenceInv'
  BY DEF IInv, CountersInv, EvidenceInv
<1>6. ValidateInv'
  BY DEF ValidateInv, Moving
<1>. QED
  BY <1>1, <1>2, <1>4, <1>5, <1>6 DEF IInv

LEMMA Resetting ==
  ASSUME IInv, ResetAndSleep
  PROVE  IInv'
<1>. USE DEF ResetAndSleep, engineVars, historyVars
<1>1. EmptyQueues
  BY DEF IInv, QueuesInv
<1>2. StatsTypeOK' /\ EngineTypeOK' /\ HistoryTypeOK'
  <2>1. NoTally \in [accepted : Nat, drafted : Nat]
    BY DEF NoTally
  <2>. QED
    BY <2>1 DEF IInv, EngineTypeOK, StatsTypeOK, HistoryTypeOK
<1>3. ReportsInv'
  BY DEF ReportsInv
<1>4. AnswersInv' /\ UniformGamma'
  BY DEF IInv, AnswersInv, UniformGamma, Moving
<1>5. CountersInv' /\ EvidenceInv'
  BY DEF IInv, CountersInv, EvidenceInv
<1>6. CASE validating
  <2>1. phase' = "clearing" /\ FanOut(SetValidateMode(0))
    BY <1>6
  <2>2. /\ awaited' = SetValidateMode(0)
        /\ \A s \in Servers : calls'[s] = <<awaited'>> /\ replies'[s] = Pending
    BY <1>1, <2>1, FanOutOntoEmpty, CallsOfLadder DEF IInv
  <2>3. TrainerTypeOK' /\ FanOutTypeOK'
    BY <2>1, FanOutType, CallsOfLadder DEF IInv, TrainerTypeOK, FanOutTypeOK, Phases
  <2>4. QueuesInv'
    BY <2>1, <2>2 DEF QueuesInv
  <2>5. ValidateInv'
    BY <2>1, <2>2, RepliesDiffer DEF ValidateInv, Moving
  <2>. QED
    BY <1>2, <1>3, <1>4, <1>5, <2>3, <2>4, <2>5 DEF IInv
<1>7. CASE ~validating
  <2>1. phase' = "idle" /\ UNCHANGED fanOutVars
    BY <1>7
  <2>2. TrainerTypeOK' /\ FanOutTypeOK'
    BY <2>1 DEF IInv, TrainerTypeOK, FanOutTypeOK, fanOutVars, Phases
  <2>3. QueuesInv'
    BY <1>1, <2>1 DEF QueuesInv, EmptyQueues, fanOutVars
  <2>4. ValidateInv'
    BY <1>7, <2>1 DEF IInv, ValidateInv, Moving
  <2>. QED
    BY <1>2, <1>3, <1>4, <1>5, <2>2, <2>3, <2>4 DEF IInv
<1>. QED
  BY <1>6, <1>7

LEMMA Cleared ==
  ASSUME IInv, ValidateModeCleared
  PROVE  IInv'
<1>. USE DEF ValidateModeCleared, fanOutVars, engineVars, statVars, historyVars
<1>1. TypeOK'
  BY DEF IInv, TrainerTypeOK, FanOutTypeOK, EngineTypeOK, StatsTypeOK, HistoryTypeOK, Phases
<1>2. \A s \in Servers : replies[s].status = "returned" /\ replies[s] # Pending
  BY RepliesDiffer DEF AllReturned
<1>3. \A s \in Servers : calls[s] = <<>> /\ ~validateMode[s]
  BY <1>2 DEF IInv, QueuesInv, ValidateInv
<1>4. CASE raising
  <2>1. phase' = "aborted" /\ phase = "clearing"
    BY <1>4
  <2>2. \A s \in Servers : calls'[s] \in Seq(ValidateCalls)
    BY <1>3, ValidateQueues
  <2>. QED
    BY <1>1, <2>1, <2>2, Aborting
<1>5. CASE ~raising
  <2>1. phase' = "idle"
    BY <1>5
  <2>2. QueuesInv' /\ ValidateInv'
    BY <1>3, <2>1 DEF QueuesInv, EmptyQueues, ValidateInv, Moving
  <2>3. AnswersInv' /\ UniformGamma'
    BY <2>1 DEF IInv, AnswersInv, UniformGamma, Moving
  <2>4. ReportsInv'
    BY <1>5, <2>1 DEF IInv, ReportsInv
  <2>5. CountersInv' /\ EvidenceInv'
    BY <2>1 DEF IInv, CountersInv, EvidenceInv
  <2>. QED
    BY <1>1, <2>2, <2>3, <2>4, <2>5 DEF IInv
<1>. QED
  BY <1>4, <1>5

LEMMA ClearingFailed ==
  ASSUME IInv, ClearingRaises
  PROVE  IInv'
<1>. USE DEF ClearingRaises, fanOutVars, engineVars, statVars, historyVars
<1>1. TypeOK'
  BY DEF IInv, TrainerTypeOK, FanOutTypeOK, EngineTypeOK, StatsTypeOK, HistoryTypeOK, Phases
<1>2. \A s \in Servers : \/ calls[s] = <<>>
                         \/ calls[s] = <<SetValidateMode(0)>>
                         \/ calls[s] = <<SetValidateMode(1), SetValidateMode(0)>>
  BY DEF IInv, QueuesInv
<1>3. \A s \in Servers : calls'[s] \in Seq(ValidateCalls)
  BY <1>2, ValidateQueues
<1>. QED
  BY <1>1, <1>3, Aborting

-------------------------------------------------------------------------------
(* The invariant, and what follows from it.                                *)

LEMMA InitIInv == Init => IInv
<1>. SUFFICES ASSUME Init PROVE IInv
  OBVIOUS
<1>1. TypeOK
  BY InitType
<1>2. QueuesInv /\ UniformGamma /\ ReportsInv
  BY DEF Init, QueuesInv, EmptyQueues, UniformGamma, ReportsInv
<1>3. AnswersInv /\ ValidateInv
  BY DEF Init, AnswersInv, ValidateInv, Moving
<1>4. CountersInv /\ EvidenceInv
  <2>1. evidence \in Seq(Crossings) /\ crossings = 0 /\ lowCrossings = 0
    BY <1>1 DEF Init, HistoryTypeOK
  <2>2. EndsWith(evidence, "up", 0) /\ EndsWith(evidence, "down", 0)
    BY <2>1, EndsWithNone
  <2>3. CountersInv
    BY PersistenceAssumption DEF Init, CountersInv
  <2>. QED
    BY <2>1, <2>2, <2>3 DEF EvidenceInv
<1>. QED
  BY <1>1, <1>2, <1>3, <1>4 DEF IInv

LEMMA StutterIInv == IInv /\ UNCHANGED vars => IInv'
<1>. SUFFICES ASSUME IInv, UNCHANGED vars PROVE IInv'
  OBVIOUS
<1>. USE DEF IInv, vars, trainerVars, fanOutVars, engineVars, statVars, historyVars
<1>1. TypeOK'
  BY DEF TrainerTypeOK, FanOutTypeOK, EngineTypeOK, StatsTypeOK, HistoryTypeOK
<1>2. QueuesInv' /\ AnswersInv'
  BY DEF QueuesInv, EmptyQueues, AnswersInv, AtGamma
<1>3. UniformGamma' /\ ReportsInv' /\ ValidateInv'
  BY DEF UniformGamma, ReportsInv, ValidateInv, Moving
<1>4. CountersInv' /\ EvidenceInv'
  BY DEF CountersInv, EvidenceInv
<1>. QED
  BY <1>1, <1>2, <1>3, <1>4

LEMMA NextIInv == IInv /\ [Next]_vars => IInv'
<1>. SUFFICES ASSUME IInv, [Next]_vars PROVE IInv'
  OBVIOUS
<1>1. CASE StartTrainingRollout \/ StartValidationRollout \/ ValidateModeEnabled
  BY <1>1, StartTraining, StartValidation, Enabled
<1>2. CASE EnablingRaises \/ RolloutRaises
  BY <1>2, Raising
<1>3. CASE SkipValidation \/ SkipNoEvidence
  BY <1>3, Skipping, SkippingNoEvidence
<1>4. CASE CrossUp \/ CrossDown \/ NoCrossing
  BY <1>4, CrossingUp, CrossingDown, Between
<1>5. CASE BroadcastSucceeds \/ BroadcastFails \/ RollbackEnds
  BY <1>5, Confirmed, RollingBack, RolledBack
<1>6. CASE ResetAndSleep \/ ValidateModeCleared \/ ClearingRaises
  BY <1>6, Resetting, Cleared, ClearingFailed
<1>7. CASE \E s \in Servers : Serve(s) \/ GenerateOn(s)
  BY <1>7, ServeIInv, GenerateIInv
<1>8. CASE Finished \/ UNCHANGED vars
  BY <1>8, StutterIInv DEF Finished
<1>. QED
  BY <1>1, <1>2, <1>3, <1>4, <1>5, <1>6, <1>7, <1>8 DEF Next, Trainer

\* The conjunction of named parts above holds of every reachable state.
THEOREM Inductive == Spec => []IInv
  BY InitIInv, NextIInv, PTL DEF Spec

\* Every variable keeps its type and the two counters of the persistence gate
\* stay within 0..PersistenceN, whatever the servers answer.
THEOREM TypeCorrect == Spec => []TypeOK
<1>1. IInv => TypeOK
  BY DEF IInv
<1>. QED
  BY <1>1, Inductive, PTL

\* The cluster is never split: outside a broadcast, and until training is
\* aborted, all engines and all their workers have the same gamma.
THEOREM NeverSplit == Spec => []UniformGamma
<1>1. IInv => UniformGamma
  BY DEF IInv
<1>. QED
  BY <1>1, Inductive, PTL

\* Validation mode is on in every engine while a validation rollout runs, off in
\* every engine otherwise.
THEOREM ValidateModeBracketed == Spec => []ValidateModeBracketsRollout
<1>1. IInv => ValidateModeBracketsRollout
  <2>. SUFFICES ASSUME IInv PROVE ValidateModeBracketsRollout
    OBVIOUS
  <2>1. phase \in {"rollout", "resetting"} =>
          \A s \in Servers : validateMode[s] = validating
    BY DEF IInv, ValidateInv
  <2>2. phase \in {"broadcast", "rollback"} =>
          \A s \in Servers : validateMode[s] = FALSE /\ validating = FALSE
    BY DEF IInv, ValidateInv, Moving, EngineTypeOK, TrainerTypeOK
  <2>3. phase = "idle" => \A s \in Servers : ~validateMode[s]
    BY DEF IInv, ValidateInv
  <2>. QED
    BY <2>1, <2>2, <2>3 DEF ValidateModeBracketsRollout
<1>. QED
  BY <1>1, Inductive, PTL

\* A rollback that is logged as completed has brought every engine back.
THEOREM RollbackIsSound == Spec => []RollbackRestoresEngines
<1>1. IInv => RollbackRestoresEngines
  BY DEF IInv, AnswersInv, RollbackRestoresEngines
<1>. QED
  BY <1>1, Inductive, PTL

\* No move without PersistenceN observed crossings at the gamma it leaves, all on the
\* same side and with none on the other side, or on neither, among them.
THEOREM MovesAreBacked == Spec => []EvidenceForMove
<1>1. IInv => EvidenceForMove
  <2>. SUFFICES ASSUME IInv, NEW d \in {"up", "down"}, MovingTo(d)
                PROVE  EndsWith(evidence, d, PersistenceN)
    BY DEF EvidenceForMove
  <2>1. current \in Gammas /\ current \in Nat
    BY GammasAreNats DEF IInv, TrainerTypeOK
  <2>2. phase = "broadcast"
    BY DEF MovingTo
  <2>3. CASE crossings = PersistenceN /\ HasNext(current) /\ awaited.arg = NextGamma(current)
    <3>1. awaited.arg > current /\ awaited.arg \in Nat
      BY <2>1, <2>3, NextIsHigher, GammasAreNats
    <3>2. d = "up"
      BY <2>1, <3>1 DEF MovingTo
    <3>. QED
      BY <2>3, <3>2 DEF IInv, EvidenceInv
  <2>4. CASE lowCrossings = PersistenceN /\ HasPrev(current) /\ awaited.arg = PrevGamma(current)
    <3>1. awaited.arg < current /\ awaited.arg \in Nat
      BY <2>1, <2>4, PrevIsLower, GammasAreNats
    <3>2. d = "down"
      BY <2>1, <3>1 DEF MovingTo
    <3>. QED
      BY <2>4, <3>2 DEF IInv, EvidenceInv
  <2>. QED
    BY <2>2, <2>3, <2>4 DEF IInv, CountersInv
<1>. QED
  BY <1>1, Inductive, PTL

-------------------------------------------------------------------------------
(* The controller and its servers implement ClusterGamma.                  *)

\* The engine whose gamma stands for the cluster in the refinement mapping.
Probe == CHOOSE s \in Servers : TRUE

LEMMA ProbeIsServer == Probe \in Servers
  BY ReplicasAssumption DEF Probe

LEMMA InitRefines == Init => Cluster!Init
  BY ProbeIsServer DEF Init, Cluster!Init, ClusterGammaBar, Moving, Probe

\* Serving a call moves an engine only when the mapping does not look at it.
LEMMA ServeStutters ==
  ASSUME IInv, NEW s \in Servers, Serve(s)
  PROVE  UNCHANGED Cluster!vars
<1>1. UNCHANGED trainerVars
  BY DEF Serve, ForceNoOp, ForceApplies, ForceRaisesInWorkers, ServeSetValidateMode,
         CallRaises, Answer
<1>2. CASE Moving \/ rollback # "none"
  BY <1>1, <1>2 DEF Cluster!vars, ClusterGammaBar, Moving, trainerVars
<1>3. CASE ~Moving /\ rollback = "none"
  <2>1. calls[s] # <<>>
    BY ServeAnswers DEF IInv
  <2>2. Head(calls[s]).op = "set_validate_mode"
    <3>1. CASE phase = "aborted"
      <4>1. calls[s] \in Seq(ValidateCalls)
        BY <1>3, <3>1 DEF IInv, QueuesInv
      <4>2. Head(calls[s]) \in ValidateCalls
        BY <2>1, <4>1
      <4>. QED
        BY <4>2, CallsDiffer DEF ValidateCalls
    <3>2. CASE phase \in {"enabling", "clearing"}
      BY <2>1, <3>2, CallsDiffer DEF IInv, QueuesInv
    <3>3. CASE phase \in {"idle", "rollout", "resetting"}
      BY <2>1, <3>3 DEF IInv, QueuesInv, EmptyQueues
    <3>. QED
      BY <1>3, <3>1, <3>2, <3>3 DEF IInv, TrainerTypeOK, Phases, Moving
  <2>3. gamma' = gamma
    BY <2>2 DEF Serve, ForceNoOp, ForceApplies, ForceRaisesInWorkers,
         ServeSetValidateMode, CallRaises, engineVars, Serving
  <2>. QED
    BY <1>1, <2>3 DEF Cluster!vars, ClusterGammaBar, Moving, trainerVars
<1>. QED
  BY <1>2, <1>3

\* The steps of the trainer between two phases that leave gamma and the counters
\* alone: a stutter, or the end of training.
LEMMA QuietRefines ==
  ASSUME IInv, phase # "aborted", ~Moving, ~Moving',
         UNCHANGED <<crossings, lowCrossings, rollback, gamma>>
  PROVE  [Cluster!Next]_Cluster!vars
<1>1. ClusterGammaBar' = ClusterGammaBar
  BY DEF IInv, AnswersInv, ClusterGammaBar
<1>2. CASE phase' = "aborted"
  BY <1>1, <1>2 DEF Cluster!Next, Cluster!Stop
<1>3. CASE phase' # "aborted"
  BY <1>1, <1>3 DEF Cluster!vars
<1>. QED
  BY <1>2, <1>3

\* The decision counts a crossing at the gamma of the whole cluster.
LEMMA DecisionRefines ==
  ASSUME IInv, CrossUp \/ CrossDown \/ NoCrossing
  PROVE  Cluster!Next
<1>1. /\ phase = "rollout" /\ rollback = "none" /\ rollback' = rollback
      /\ HasEvidence /\ gamma' = gamma /\ current' = SeenGamma
      /\ phase' \in {"broadcast", "resetting"}
  BY DEF IInv, AnswersInv, CrossUp, CrossDown, NoCrossing, Deciding, Collected, engineVars
<1>2. gamma[Probe] = SeenGamma
  BY <1>1, SeenIsCluster, ProbeIsServer DEF CrossUp, CrossDown, NoCrossing, Deciding
<1>3. ClusterGammaBar = SeenGamma /\ ClusterGammaBar' = SeenGamma
  BY <1>1, <1>2 DEF ClusterGammaBar, Moving, Probe
<1>4. crossings < PersistenceN /\ lowCrossings < PersistenceN
  BY <1>1 DEF IInv, CountersInv
<1>5. phase # "aborted" /\ phase' # "aborted"
  BY <1>1
<1>6. CASE CrossUp
  <2>1. HasNext(SeenGamma)
    BY <1>6 DEF CrossUp, Crossing, ReadyToElevate, Deciding
  <2>2. Cluster!CrossUp
    BY <1>3, <1>4, <1>5, <1>6, <2>1
    DEF CrossUp, Cluster!CrossUp, Cluster!Undecided, HasNext, Cluster!HasNext,
        Rung, Cluster!Rung, Rungs, Cluster!Rungs
  <2>. QED
    BY <2>2 DEF Cluster!Next
<1>7. CASE CrossDown
  <2>1. HasPrev(SeenGamma)
    BY <1>7 DEF CrossDown, Crossing, ReadyToLower, Deciding
  <2>2. Cluster!CrossDown
    BY <1>3, <1>4, <1>5, <1>7, <2>1
    DEF CrossDown, Cluster!CrossDown, Cluster!Undecided, HasPrev, Cluster!HasPrev,
        Rung, Cluster!Rung, Rungs, Cluster!Rungs
  <2>. QED
    BY <2>2 DEF Cluster!Next
<1>8. CASE NoCrossing
  BY <1>3, <1>4, <1>5, <1>8
  DEF NoCrossing, Cluster!NoCrossing, Cluster!Undecided, Cluster!Next
<1>. QED
  BY <1>6, <1>7, <1>8

\* The confirmation by every server is the one moment at which the cluster moves.
LEMMA BroadcastRefines ==
  ASSUME IInv, BroadcastSucceeds
  PROVE  Cluster!Next
<1>1. /\ phase = "broadcast" /\ phase' = "resetting" /\ rollback' = rollback
      /\ rollback = "none" /\ gamma' = gamma
  BY DEF IInv, AnswersInv, BroadcastSucceeds, engineVars
<1>2. gamma[Probe] = awaited.arg
  BY <1>1, ProbeIsServer
  DEF IInv, AnswersInv, AtGamma, BroadcastSucceeds, AllReturned
<1>3. ClusterGammaBar = current /\ ClusterGammaBar' = awaited.arg
  BY <1>1, <1>2 DEF ClusterGammaBar, Moving, Probe
<1>4. current \in Gammas /\ current \in Nat
  BY GammasAreNats DEF IInv, TrainerTypeOK
<1>5. CASE crossings = PersistenceN /\ HasNext(current) /\ awaited.arg = NextGamma(current)
  <2>1. awaited.arg > current
    BY <1>4, <1>5, NextIsHigher
  <2>2. Cluster!Elevate
    BY <1>1, <1>3, <1>5, <2>1
    DEF BroadcastSucceeds, Cluster!Elevate, HasNext, Cluster!HasNext, NextGamma,
        Cluster!NextGamma, Rung, Cluster!Rung, Rungs, Cluster!Rungs
  <2>. QED
    BY <2>2 DEF Cluster!Next
<1>6. CASE lowCrossings = PersistenceN /\ HasPrev(current) /\ awaited.arg = PrevGamma(current)
  <2>1. awaited.arg < current /\ awaited.arg \in Nat
    BY <1>4, <1>6, PrevIsLower, GammasAreNats
  <2>2. ~(awaited.arg > current)
    BY <1>4, <2>1
  <2>3. Cluster!Lower
    BY <1>1, <1>3, <1>6, <2>2
    DEF BroadcastSucceeds, Cluster!Lower, HasPrev, Cluster!HasPrev, PrevGamma,
        Cluster!PrevGamma, Rung, Cluster!Rung, Rungs, Cluster!Rungs
  <2>. QED
    BY <2>3 DEF Cluster!Next
<1>. QED
  BY <1>1, <1>5, <1>6 DEF IInv, CountersInv

LEMMA RollbackRefines ==
  ASSUME IInv, BroadcastFails \/ RollbackEnds
  PROVE  [Cluster!Next]_Cluster!vars
<1>1. CASE BroadcastFails
  BY <1>1 DEF BroadcastFails, Cluster!vars, ClusterGammaBar, Moving
<1>2. CASE RollbackEnds
  <2>1. rollback' # "none" /\ phase = "rollback" /\ phase' = "aborted"
    BY <1>2 DEF RollbackEnds
  <2>2. ClusterGammaBar = current /\ ClusterGammaBar' = current
    BY <1>2, <2>1 DEF RollbackEnds, ClusterGammaBar, Moving
  <2>. QED
    BY <1>2, <2>1, <2>2 DEF RollbackEnds, Cluster!Next, Cluster!Stop
<1>. QED
  BY <1>1, <1>2

LEMMA NextRefines == IInv /\ [Next]_vars => [Cluster!Next]_Cluster!vars
<1>. SUFFICES ASSUME IInv, [Next]_vars PROVE [Cluster!Next]_Cluster!vars
  OBVIOUS
<1>. USE DEF engineVars, Moving
<1>1. CASE StartTrainingRollout \/ StartValidationRollout \/ ValidateModeEnabled
  BY <1>1, QuietRefines DEF StartTrainingRollout, StartValidationRollout, ValidateModeEnabled
<1>2. CASE EnablingRaises \/ RolloutRaises
  <2>1. /\ phase \in {"enabling", "rollout", "resetting"}
        /\ phase' \in {"clearing", "aborted"}
        /\ UNCHANGED <<crossings, lowCrossings, rollback, gamma>>
    BY <1>2 DEF EnablingRaises, RolloutRaises, Raise
  <2>. QED
    BY <2>1, QuietRefines
<1>3. CASE SkipValidation \/ SkipNoEvidence
  BY <1>3, QuietRefines DEF SkipValidation, SkipNoEvidence, Collected
<1>4. CASE CrossUp \/ CrossDown \/ NoCrossing
  BY <1>4, DecisionRefines
<1>5. CASE BroadcastSucceeds \/ BroadcastFails \/ RollbackEnds
  BY <1>5, BroadcastRefines, RollbackRefines
<1>6. CASE ResetAndSleep \/ ValidateModeCleared \/ ClearingRaises
  <2>1. /\ phase \in {"resetting", "clearing"}
        /\ phase' \in {"clearing", "idle", "aborted"}
        /\ UNCHANGED <<crossings, lowCrossings, rollback, gamma>>
    BY <1>6 DEF ResetAndSleep, ValidateModeCleared, ClearingRaises
  <2>. QED
    BY <2>1, QuietRefines
<1>7. CASE \E s \in Servers : Serve(s) \/ GenerateOn(s)
  <2>1. ASSUME NEW s \in Servers, GenerateOn(s)
        PROVE  UNCHANGED Cluster!vars
    BY <2>1 DEF GenerateOn, trainerVars, Cluster!vars, ClusterGammaBar
  <2>. QED
    BY <1>7, <2>1, ServeStutters
<1>8. CASE Finished \/ UNCHANGED vars
  BY <1>8 DEF Finished, vars, trainerVars, Cluster!vars, ClusterGammaBar
<1>. QED
  BY <1>1, <1>2, <1>3, <1>4, <1>5, <1>6, <1>7, <1>8 DEF Next, Trainer

\* One trainer, its servers, their queues and every way a call can fail implement
\* the abstract cluster with one gamma that moves rung by rung.
THEOREM Refinement == Spec => ImplementsClusterGamma
  BY InitRefines, NextRefines, Inductive, PTL
  DEF Spec, ImplementsClusterGamma, Cluster!Spec

-------------------------------------------------------------------------------
(* Every engine is called in the order of EngineCalls.                     *)

\* What the walk of the trainer leaves behind between two rollouts: an exception
\* ends training, no engine counts as done, and on the way out of a rollout that
\* has ended well nothing is under way but the clearing call.
BetweenRollouts ==
  /\ raising => phase \in {"clearing", "aborted"}
  /\ phase \in {"idle", "enabling"} \/ (phase = "clearing" /\ ~raising) =>
       \A s \in Servers : ~generated[s]
  /\ phase = "clearing" /\ ~raising =>
       \A s \in Servers : calls[s] = <<>> \/ calls[s] = <<SetValidateMode(0)>>

LEMMA ServeBetween ==
  ASSUME IInv, BetweenRollouts, NEW s \in Servers, Serve(s)
  PROVE  BetweenRollouts'
<1>1. PICK r : r # Pending /\ Answer(s, r)
  BY ServeAnswers DEF IInv
<1>2. calls[s] # <<>>
  BY ServeAnswers DEF IInv
<1>3. UNCHANGED <<phase, raising, generated>>
  BY <1>1 DEF Answer, trainerVars, statVars
<1>4. calls'[s] = Tail(calls[s]) /\ \A t \in Servers \ {s} : calls'[t] = calls[t]
  BY <1>1, AnswerEffect DEF IInv
<1>5. ASSUME phase = "clearing", ~raising, NEW t \in Servers
      PROVE  calls'[t] = <<>> \/ calls'[t] = <<SetValidateMode(0)>>
  <2>1. calls[t] = <<>> \/ calls[t] = <<SetValidateMode(0)>>
    BY <1>5 DEF BetweenRollouts
  <2>2. CASE t = s
    <3>1. calls[s] = <<SetValidateMode(0)>>
      BY <1>2, <2>1, <2>2
    <3>2. Tail(calls[s]) = <<>>
      BY <3>1
    <3>. QED
      BY <1>4, <2>2, <3>2
  <2>3. CASE t # s
    BY <1>4, <2>1, <2>3
  <2>. QED
    BY <2>2, <2>3
<1>. QED
  BY <1>3, <1>5 DEF BetweenRollouts

LEMMA NextBetween == IInv /\ BetweenRollouts /\ [Next]_vars => BetweenRollouts'
<1>. SUFFICES ASSUME IInv, BetweenRollouts, [Next]_vars PROVE BetweenRollouts'
  OBVIOUS
<1>. USE DEF BetweenRollouts, statVars
<1>1. CASE StartTrainingRollout \/ StartValidationRollout \/ ValidateModeEnabled
  BY <1>1 DEF StartTrainingRollout, StartValidationRollout, ValidateModeEnabled
<1>2. CASE EnablingRaises \/ RolloutRaises
  BY <1>2 DEF EnablingRaises, RolloutRaises, Raise
<1>3. CASE SkipValidation \/ SkipNoEvidence
  BY <1>3 DEF SkipValidation, SkipNoEvidence, Collected
<1>4. CASE CrossUp \/ CrossDown \/ NoCrossing
  BY <1>4 DEF CrossUp, CrossDown, NoCrossing, Deciding, Collected
<1>5. CASE BroadcastSucceeds \/ BroadcastFails \/ RollbackEnds
  BY <1>5 DEF BroadcastSucceeds, BroadcastFails, RollbackEnds
<1>6. CASE ResetAndSleep
  <2>1. /\ phase = "resetting" /\ ~raising /\ raising' = raising
        /\ phase' \in {"clearing", "idle"}
        /\ \A s \in Servers : ~generated'[s]
    BY <1>6 DEF ResetAndSleep
  <2>2. phase' = "clearing" => \A s \in Servers : calls'[s] = <<SetValidateMode(0)>>
    <3>1. \A s \in Servers : calls[s] = <<>>
      BY <2>1 DEF IInv, QueuesInv, EmptyQueues
    <3>. QED
      BY <1>6, <3>1 DEF ResetAndSleep, FanOut
  <2>. QED
    BY <2>1, <2>2
<1>7. CASE ValidateModeCleared \/ ClearingRaises
  BY <1>7 DEF ValidateModeCleared, ClearingRaises
<1>8. CASE \E s \in Servers : Serve(s)
  BY <1>8, ServeBetween
<1>9. CASE \E s \in Servers : GenerateOn(s)
  BY <1>9 DEF GenerateOn, trainerVars, fanOutVars
<1>10. CASE Finished \/ UNCHANGED vars
  BY <1>10 DEF Finished, vars, trainerVars, fanOutVars
<1>. QED
  BY <1>1, <1>2, <1>3, <1>4, <1>5, <1>6, <1>7, <1>8, <1>9, <1>10 DEF Next, Trainer

\* The two steps an engine does not notice as a call: none, and the last one.
LEMMA EngineStutters ==
  ASSUME NEW s \in Servers, UNCHANGED <<EnginePhase(s), gamma[s], validateMode[s]>>
  PROVE  UNCHANGED Engine(s)!vars
  BY DEF Engine!vars

LEMMA EngineStops ==
  ASSUME NEW s \in Servers, EnginePhase(s)' = "stopped",
         UNCHANGED <<gamma[s], validateMode[s]>>
  PROVE  Engine(s)!Next
  BY DEF Engine!Next, Engine!Stop

LEMMA InitDrives == Init => \A s \in Servers : Engine(s)!Init
  BY DEF Init, Engine!Init, EnginePhase

\* The trainer's own steps.
LEMMA StartDrives ==
  ASSUME IInv, BetweenRollouts, NEW s \in Servers,
         StartTrainingRollout \/ StartValidationRollout \/ ValidateModeEnabled
  PROVE  Engine(s)!Next \/ UNCHANGED Engine(s)!vars
<1>1. ~raising /\ ~raising' /\ UNCHANGED <<gamma[s], validateMode[s], generated[s]>>
  BY DEF BetweenRollouts, StartTrainingRollout, StartValidationRollout,
         ValidateModeEnabled, engineVars, statVars
<1>2. CASE StartTrainingRollout \/ ValidateModeEnabled
  <2>1. phase \in {"idle", "enabling"} /\ phase' = "rollout" /\ ~generated[s]
    BY <1>2 DEF BetweenRollouts, StartTrainingRollout, ValidateModeEnabled
  <2>2. EnginePhase(s) \in {"idle", "flagged"} /\ EnginePhase(s)' = "awake"
    BY <1>1, <2>1 DEF EnginePhase
  <2>. QED
    BY <1>1, <2>2 DEF Engine!Next, Engine!WakeUp
<1>3. CASE StartValidationRollout
  <2>1. phase = "idle" /\ phase' = "enabling"
    BY <1>3 DEF StartValidationRollout
  <2>2. UNCHANGED EnginePhase(s)
    BY <1>1, <2>1 DEF EnginePhase
  <2>. QED
    BY <1>1, <2>2, EngineStutters
<1>. QED
  BY <1>2, <1>3

LEMMA RaiseDrives ==
  ASSUME NEW s \in Servers, EnablingRaises \/ RolloutRaises
  PROVE  Engine(s)!Next
<1>1. raising' \/ phase' = "aborted"
  BY DEF EnablingRaises, RolloutRaises, Raise
<1>2. EnginePhase(s)' = "stopped" /\ UNCHANGED <<gamma[s], validateMode[s]>>
  BY <1>1 DEF EnginePhase, EnablingRaises, RolloutRaises, engineVars
<1>. QED
  BY <1>2, EngineStops

\* The decision, made or skipped: without a move the engine's rollout is over.
LEMMA DecisionDrives ==
  ASSUME IInv, BetweenRollouts, NEW s \in Servers,
         SkipValidation \/ SkipNoEvidence \/ CrossUp \/ CrossDown \/ NoCrossing
  PROVE  Engine(s)!Next \/ UNCHANGED Engine(s)!vars
<1>1. /\ phase = "rollout" /\ generated[s] /\ phase' \in {"resetting", "broadcast"}
      /\ raising' = raising /\ UNCHANGED <<gamma[s], validateMode[s]>>
  BY DEF SkipValidation, SkipNoEvidence, CrossUp, CrossDown, NoCrossing, Deciding,
         Collected, engineVars
<1>2. ~raising /\ EnginePhase(s) = "drained"
  BY <1>1 DEF BetweenRollouts, EnginePhase
<1>3. CASE phase' = "resetting"
  <2>1. EnginePhase(s)' = IF validateMode[s] THEN "clearing" ELSE "idle"
    BY <1>1, <1>2, <1>3 DEF EnginePhase
  <2>. QED
    BY <1>1, <1>2, <2>1 DEF Engine!Next, Engine!Sleep
<1>4. CASE phase' = "broadcast"
  <2>1. CrossUp \/ CrossDown
    BY <1>4 DEF SkipValidation, SkipNoEvidence, NoCrossing
  <2>2. HasEvidence /\ Collected /\ current' = SeenGamma
    BY <2>1 DEF CrossUp, CrossDown, Deciding
  <2>3. gamma[s] = current'
    BY <1>1, <2>2, SeenIsCluster
  <2>4. EnginePhase(s)' = "drained"
    BY <1>1, <1>2, <1>4, <2>3 DEF EnginePhase
  <2>. QED
    BY <1>1, <1>2, <2>4, EngineStutters
<1>. QED
  BY <1>1, <1>3, <1>4

\* Every engine has moved when the broadcast succeeds; when it fails, training ends.
LEMMA BroadcastDrives ==
  ASSUME IInv, BetweenRollouts, NEW s \in Servers,
         BroadcastSucceeds \/ BroadcastFails \/ RollbackEnds
  PROVE  Engine(s)!Next \/ UNCHANGED Engine(s)!vars
<1>1. UNCHANGED <<gamma[s], validateMode[s], raising, current>>
  BY DEF BroadcastSucceeds, BroadcastFails, RollbackEnds, engineVars
<1>2. CASE BroadcastSucceeds
  <2>1. phase = "broadcast" /\ phase' = "resetting" /\ ~raising
    BY <1>2 DEF BroadcastSucceeds, BetweenRollouts
  <2>2. gamma[s] # current /\ ~validateMode[s]
    <3>1. gamma[s] = awaited.arg
      BY <1>2, <2>1 DEF BroadcastSucceeds, AllReturned, IInv, AnswersInv, AtGamma
    <3>2. awaited.arg # current
      BY <2>1, CallsDiffer DEF IInv, QueuesInv
    <3>. QED
      BY <2>1, <3>1, <3>2 DEF IInv, ValidateInv, Moving
  <2>3. EnginePhase(s) = "idle" /\ EnginePhase(s)' = "idle"
    BY <1>1, <2>1, <2>2 DEF EnginePhase
  <2>. QED
    BY <1>1, <2>3, EngineStutters
<1>3. CASE BroadcastFails \/ RollbackEnds
  <2>1. EnginePhase(s)' = "stopped"
    BY <1>3 DEF BroadcastFails, RollbackEnds, EnginePhase
  <2>. QED
    BY <1>1, <2>1, EngineStops
<1>. QED
  BY <1>2, <1>3

\* On the way out nothing changes for an engine unless clearing fails.
LEMMA WayOutDrives ==
  ASSUME IInv, BetweenRollouts, NEW s \in Servers,
         ResetAndSleep \/ ValidateModeCleared \/ ClearingRaises
  PROVE  Engine(s)!Next \/ UNCHANGED Engine(s)!vars
<1>1. UNCHANGED <<gamma[s], validateMode[s], raising>>
  BY DEF ResetAndSleep, ValidateModeCleared, ClearingRaises, engineVars
<1>2. CASE ResetAndSleep
  <2>1. /\ phase = "resetting" /\ ~raising
        /\ phase' = IF validating THEN "clearing" ELSE "idle"
    BY <1>2 DEF ResetAndSleep, BetweenRollouts
  <2>2. validateMode[s] = validating
    BY <2>1 DEF IInv, ValidateInv
  <2>3. UNCHANGED EnginePhase(s)
    BY <1>1, <2>1, <2>2 DEF EnginePhase
  <2>. QED
    BY <1>1, <2>3, EngineStutters
<1>3. CASE ValidateModeCleared /\ ~raising
  <2>1. phase = "clearing" /\ phase' = "idle"
    BY <1>3 DEF ValidateModeCleared
  <2>2. ~validateMode[s]
    BY <1>3, <2>1 DEF ValidateModeCleared, AllReturned, IInv, ValidateInv
  <2>3. UNCHANGED EnginePhase(s)
    BY <1>1, <1>3, <2>1, <2>2 DEF EnginePhase
  <2>. QED
    BY <1>1, <2>3, EngineStutters
<1>4. CASE ClearingRaises \/ (ValidateModeCleared /\ raising)
  <2>1. EnginePhase(s)' = "stopped"
    BY <1>4 DEF ClearingRaises, ValidateModeCleared, EnginePhase
  <2>. QED
    BY <1>1, <2>1, EngineStops
<1>. QED
  BY <1>2, <1>3, <1>4

-------------------------------------------------------------------------------
(* What a server serves, seen by its engine and by the others.             *)

LEMMA ServeKeepsOthers ==
  ASSUME TypeOK, NEW t \in Servers, Serve(t), NEW s \in Servers, s # t
  PROVE  UNCHANGED <<gamma[s], validateMode[s]>>
  BY DEF Serve, ForceNoOp, ForceApplies, ForceRaisesInWorkers, ServeSetValidateMode,
         CallRaises, engineVars, EngineTypeOK

\* A call that raises, or finds the engine at the gamma it asks for, is no call.
LEMMA ServeCases ==
  ASSUME TypeOK, NEW s \in Servers, Serve(s)
  PROVE  \/ UNCHANGED <<gamma[s], validateMode[s]>>
         \/ /\ Serving(s, "force_set_gamma")
            /\ gamma'[s] = Head(calls[s]).arg /\ gamma'[s] # gamma[s]
            /\ UNCHANGED validateMode[s]
         \/ /\ Serving(s, "set_validate_mode")
            /\ validateMode'[s] = (Head(calls[s]).arg = 1)
            /\ UNCHANGED gamma[s]
<1>1. CASE ForceNoOp(s) \/ CallRaises(s) \/ ForceRaisesInWorkers(s)
  BY <1>1 DEF ForceNoOp, CallRaises, ForceRaisesInWorkers, engineVars
<1>2. CASE ForceApplies(s)
  BY <1>2 DEF ForceApplies, EngineTypeOK
<1>3. CASE ServeSetValidateMode(s)
  BY <1>3 DEF ServeSetValidateMode, EngineTypeOK
<1>. QED
  BY <1>1, <1>2, <1>3 DEF Serve

LEMMA ServeDrives ==
  ASSUME IInv, BetweenRollouts, NEW t \in Servers, Serve(t), NEW s \in Servers
  PROVE  Engine(s)!Next \/ UNCHANGED Engine(s)!vars
<1>1. UNCHANGED <<phase, raising, current, generated>>
  BY DEF Serve, ForceNoOp, ForceApplies, ForceRaisesInWorkers, ServeSetValidateMode,
         CallRaises, Answer, trainerVars, statVars
<1>2. gamma'[s] \in Gammas /\ validateMode'[s] \in BOOLEAN
  BY ServeType DEF IInv, EngineTypeOK
<1>3. CASE raising \/ phase \in {"rollback", "aborted"}
  <2>1. EnginePhase(s) = "stopped" /\ EnginePhase(s)' = "stopped"
    BY <1>1, <1>3 DEF EnginePhase
  <2>2. gamma'[s] \in Engine(s)!Gammas
    BY <1>2 DEF Gammas, Rungs, Engine!Gammas, Engine!Rungs
  <2>. QED
    BY <1>2, <2>1, <2>2 DEF Engine!Next, Engine!CleanUp
<1>4. CASE UNCHANGED <<gamma[s], validateMode[s]>>
  <2>1. UNCHANGED EnginePhase(s)
    BY <1>1, <1>4 DEF EnginePhase
  <2>. QED
    BY <1>4, <2>1, EngineStutters
<1>5. ASSUME ~raising, phase \notin {"rollback", "aborted"}, s = t
      PROVE  Engine(s)!Next \/ UNCHANGED Engine(s)!vars
  <2>1. calls[s] # <<>>
    BY <1>5, ServeAnswers DEF IInv
  <2>2. phase \in {"enabling", "broadcast", "clearing"}
    BY <1>5, <2>1 DEF IInv, TrainerTypeOK, Phases, QueuesInv, EmptyQueues
  <2>3. CASE phase = "enabling"
    <3>1. Head(calls[s]) = SetValidateMode(1)
      BY <2>1, <2>3 DEF IInv, QueuesInv
    <3>2. CASE validateMode'[s] = TRUE /\ UNCHANGED gamma[s]
      <4>1. CASE validateMode[s]
        BY <1>4, <3>2, <4>1 DEF IInv, EngineTypeOK
      <4>2. CASE ~validateMode[s]
        <5>1. EnginePhase(s) = "idle" /\ EnginePhase(s)' = "flagged"
          BY <1>1, <1>5, <2>3, <3>2, <4>2 DEF EnginePhase
        <5>. QED
          BY <3>2, <5>1 DEF Engine!Next, Engine!FlagValidation
      <4>. QED
        BY <4>1, <4>2
    <3>. QED
      BY <1>4, <1>5, <3>1, <3>2, ServeCases, CallsDiffer DEF Serving, IInv
  <2>4. CASE phase = "broadcast"
    <3>1. /\ Head(calls[s]) = awaited /\ replies[s] = Pending
          /\ awaited.op = "force_set_gamma"
      BY <2>1, <2>4, CallsDiffer DEF IInv, QueuesInv
    <3>2. gamma[s] = current /\ ~validateMode[s]
      BY <2>4, <3>1 DEF IInv, AnswersInv, ValidateInv, Moving
    <3>3. CASE gamma'[s] = awaited.arg /\ gamma'[s] # gamma[s] /\ UNCHANGED validateMode[s]
      <4>1. EnginePhase(s) = "drained" /\ EnginePhase(s)' = "idle"
        BY <1>1, <1>5, <2>4, <3>2, <3>3 DEF EnginePhase
      <4>2. \/ HasNext(gamma[s]) /\ gamma'[s] = NextGamma(gamma[s])
            \/ HasPrev(gamma[s]) /\ gamma'[s] = PrevGamma(gamma[s])
        BY <2>4, <3>2, <3>3 DEF IInv, CountersInv
      <4>3. Engine(s)!ForceSetGamma(gamma'[s])
        BY <3>2, <3>3, <4>1, <4>2
        DEF Engine!ForceSetGamma, HasNext, Engine!HasNext, NextGamma, Engine!NextGamma,
            HasPrev, Engine!HasPrev, PrevGamma, Engine!PrevGamma, Rung, Engine!Rung,
            Rungs, Engine!Rungs
      <4>4. gamma'[s] \in Engine(s)!Gammas
        BY <1>2 DEF Gammas, Rungs, Engine!Gammas, Engine!Rungs
      <4>. QED
        BY <4>3, <4>4 DEF Engine!Next
    <3>. QED
      BY <1>4, <1>5, <3>1, <3>3, ServeCases DEF Serving, IInv
  <2>5. CASE phase = "clearing"
    <3>1. Head(calls[s]) = SetValidateMode(0)
      BY <1>5, <2>1, <2>5 DEF BetweenRollouts
    <3>2. Head(calls[s]).op = "set_validate_mode" /\ Head(calls[s]).arg = 0
      BY <3>1, CallsDiffer
    <3>3. \/ UNCHANGED <<gamma[s], validateMode[s]>>
          \/ validateMode'[s] = (Head(calls[s]).arg = 1) /\ UNCHANGED gamma[s]
      BY <1>5, <3>2, ServeCases DEF Serving, IInv
    <3>4. (Head(calls[s]).arg = 1) = FALSE
      BY <3>2
    <3>5. CASE validateMode'[s] = FALSE /\ UNCHANGED gamma[s]
      <4>1. CASE ~validateMode[s]
        BY <1>4, <3>5, <4>1 DEF IInv, EngineTypeOK
      <4>2. CASE validateMode[s]
        <5>1. EnginePhase(s) = "clearing" /\ EnginePhase(s)' = "idle"
          BY <1>1, <1>5, <2>5, <3>5, <4>2 DEF EnginePhase
        <5>. QED
          BY <3>5, <5>1 DEF Engine!Next, Engine!ClearValidation
      <4>. QED
        BY <4>1, <4>2
    <3>. QED
      BY <1>4, <3>3, <3>4, <3>5
  <2>. QED
    BY <2>2, <2>3, <2>4, <2>5
<1>6. CASE s # t
  BY <1>4, <1>6, ServeKeepsOthers DEF IInv
<1>. QED
  BY <1>3, <1>5, <1>6

LEMMA GenerateDrives ==
  ASSUME IInv, BetweenRollouts, NEW t \in Servers, GenerateOn(t), NEW s \in Servers
  PROVE  Engine(s)!Next \/ UNCHANGED Engine(s)!vars
<1>1. /\ phase = "rollout" /\ UNCHANGED <<phase, raising, gamma[s], validateMode[s]>>
      /\ ~generated[t] /\ generated' = [generated EXCEPT ![t] = TRUE]
  BY DEF GenerateOn, trainerVars, engineVars
<1>2. ~raising
  BY <1>1 DEF BetweenRollouts
<1>3. CASE s = t
  <2>1. generated'[s] = TRUE
    BY <1>1, <1>3 DEF IInv, StatsTypeOK
  <2>2. EnginePhase(s) = "awake" /\ EnginePhase(s)' = "drained"
    BY <1>1, <1>2, <1>3, <2>1 DEF EnginePhase
  <2>. QED
    BY <1>1, <2>2 DEF Engine!Next, Engine!Drain
<1>4. CASE s # t
  <2>1. generated'[s] = generated[s]
    BY <1>1, <1>4 DEF IInv, StatsTypeOK
  <2>2. UNCHANGED EnginePhase(s)
    BY <1>1, <1>2, <2>1 DEF EnginePhase
  <2>. QED
    BY <1>1, <2>2, EngineStutters
<1>. QED
  BY <1>3, <1>4

LEMMA NextDrives ==
  ASSUME IInv, BetweenRollouts, [Next]_vars, NEW s \in Servers
  PROVE  Engine(s)!Next \/ UNCHANGED Engine(s)!vars
<1>1. CASE StartTrainingRollout \/ StartValidationRollout \/ ValidateModeEnabled
  BY <1>1, StartDrives
<1>2. CASE EnablingRaises \/ RolloutRaises
  BY <1>2, RaiseDrives
<1>3. CASE SkipValidation \/ SkipNoEvidence \/ CrossUp \/ CrossDown \/ NoCrossing
  BY <1>3, DecisionDrives
<1>4. CASE BroadcastSucceeds \/ BroadcastFails \/ RollbackEnds
  BY <1>4, BroadcastDrives
<1>5. CASE ResetAndSleep \/ ValidateModeCleared \/ ClearingRaises
  BY <1>5, WayOutDrives
<1>6. CASE \E t \in Servers : Serve(t) \/ GenerateOn(t)
  BY <1>6, ServeDrives, GenerateDrives
<1>7. CASE Finished \/ UNCHANGED vars
  <2>1. UNCHANGED <<EnginePhase(s), gamma[s], validateMode[s]>>
    BY <1>7
    DEF Finished, vars, trainerVars, engineVars, statVars, EnginePhase
  <2>. QED
    BY <2>1, EngineStutters
<1>. QED
  BY <1>1, <1>2, <1>3, <1>4, <1>5, <1>6, <1>7 DEF Next, Trainer

LEMMA AlwaysBetween == Spec => []BetweenRollouts
<1>1. Init => BetweenRollouts
  BY DEF Init, BetweenRollouts
<1>. QED
  BY <1>1, Inductive, NextBetween, PTL DEF Spec

\* Each engine sees the calls that SDToggle assumes, in their order: whichever
\* servers are late or fail, none is moved while it generates, none is flagged or
\* woken out of turn, and none moves by more than a rung, until training ends.
THEOREM EnginesAreDriven == Spec => DrivesEngines
<1>1. IInv /\ BetweenRollouts /\ [Next]_vars =>
        [\A s \in Servers : Engine(s)!Next \/ UNCHANGED Engine(s)!vars]_vars
  BY NextDrives
<1>. QED
  BY <1>1, InitDrives, Inductive, AlwaysBetween, PTL DEF Spec, DrivesEngines
=============================================================================
