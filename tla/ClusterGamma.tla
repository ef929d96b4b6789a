----------------------------- MODULE ClusterGamma -----------------------------
(***************************************************************************)
(* What adaptive gamma promises, with no servers, calls or failures: the   *)
(* whole cluster has ONE gamma on the ladder, it moves one rung at a time, *)
(* and only after PersistenceN crossings of the same threshold with none   *)
(* of the other kind between them; a training that cannot move the whole   *)
(* cluster stops for good.                                                 *)
(***************************************************************************)
EXTENDS GammaLadder

CONSTANT PersistenceN   \* a positive number: see PersistenceAssumption of GammaConsensus

VARIABLES
  clusterGamma,   \* the gamma of every engine and every worker
  crossings,      \* consecutive crossings of the upper threshold
  lowCrossings,   \* consecutive crossings of the lower threshold
  stopped         \* training was aborted

vars == <<clusterGamma, crossings, lowCrossings, stopped>>

TypeOK ==
  /\ clusterGamma \in Gammas
  /\ crossings \in 0..PersistenceN
  /\ lowCrossings \in 0..PersistenceN
  /\ stopped \in BOOLEAN

Init ==
  /\ clusterGamma = Ladder[1]
  /\ crossings = 0
  /\ lowCrossings = 0
  /\ stopped = FALSE

\* No move is due: every crossing counted so far still waits for more.
Undecided == crossings < PersistenceN /\ lowCrossings < PersistenceN

CrossUp ==
  /\ ~stopped /\ Undecided /\ HasNext(clusterGamma)
  /\ crossings' = crossings + 1
  /\ lowCrossings' = 0
  /\ UNCHANGED <<clusterGamma, stopped>>

CrossDown ==
  /\ ~stopped /\ Undecided /\ HasPrev(clusterGamma)
  /\ lowCrossings' = lowCrossings + 1
  /\ crossings' = 0
  /\ UNCHANGED <<clusterGamma, stopped>>

\* A rollout between the thresholds, or one beyond the end of the ladder.
NoCrossing ==
  /\ ~stopped /\ Undecided
  /\ crossings' = 0
  /\ lowCrossings' = 0
  /\ UNCHANGED <<clusterGamma, stopped>>

Elevate ==
  /\ ~stopped /\ crossings = PersistenceN /\ HasNext(clusterGamma)
  /\ clusterGamma' = NextGamma(clusterGamma)
  /\ crossings' = 0
  /\ UNCHANGED <<lowCrossings, stopped>>

Lower ==
  /\ ~stopped /\ lowCrossings = PersistenceN /\ HasPrev(clusterGamma)
  /\ clusterGamma' = PrevGamma(clusterGamma)
  /\ lowCrossings' = 0
  /\ UNCHANGED <<crossings, stopped>>

Stop ==
  /\ ~stopped
  /\ stopped' = TRUE
  /\ UNCHANGED <<clusterGamma, crossings, lowCrossings>>

Next == CrossUp \/ CrossDown \/ NoCrossing \/ Elevate \/ Lower \/ Stop

Spec == Init /\ [][Next]_vars
=============================================================================
