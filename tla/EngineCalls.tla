------------------------------ MODULE EngineCalls ------------------------------
(***************************************************************************)
(* What one engine may expect of the trainer while training goes on: which *)
(* calls reach it, in which order and with which arguments.  SDToggle      *)
(* models an engine between exactly these calls; GammaConsensus makes them *)
(* to a whole cluster, and is shown to keep to this order at every engine. *)
(*                                                                         *)
(*   idle -> [flagged] -> awake -> drained -> [clearing] -> idle           *)
(*                                                                         *)
(* Once a call has failed training is over, and the engine is sent what    *)
(* the clean-up happens to send it.                                        *)
(***************************************************************************)
EXTENDS GammaLadder

VARIABLES
  phase,          \* the engine's place in the rollout
  gamma,          \* EngineCore._current_gamma
  validateMode    \* EngineCore._validate_mode

vars == <<phase, gamma, validateMode>>

Init == phase = "idle" /\ gamma = Ladder[1] /\ validateMode = FALSE

\* set_validate_mode(True), never while the engine has requests.
FlagValidation ==
  /\ phase = "idle"
  /\ phase' = "flagged"
  /\ validateMode' = TRUE
  /\ UNCHANGED gamma

WakeUp ==
  /\ phase \in {"idle", "flagged"}
  /\ phase' = "awake"
  /\ UNCHANGED <<gamma, validateMode>>

\* The last request of the rollout has been answered.
Drain ==
  /\ phase = "awake"
  /\ phase' = "drained"
  /\ UNCHANGED <<gamma, validateMode>>

\* gamma moves between two rollouts, by a rung, at most once, and never after a
\* rollout for validation.
ForceSetGamma(g) ==
  /\ phase = "drained" /\ ~validateMode
  /\ \/ HasNext(gamma) /\ g = NextGamma(gamma)
     \/ HasPrev(gamma) /\ g = PrevGamma(gamma)
  /\ gamma' = g
  /\ phase' = "idle"
  /\ UNCHANGED validateMode

Sleep ==
  /\ phase = "drained"
  /\ phase' = IF validateMode THEN "clearing" ELSE "idle"
  /\ UNCHANGED <<gamma, validateMode>>

\* set_validate_mode(False), before the next rollout.
ClearValidation ==
  /\ phase = "clearing"
  /\ phase' = "idle"
  /\ validateMode' = FALSE
  /\ UNCHANGED gamma

Stop ==
  /\ phase' = "stopped"
  /\ UNCHANGED <<gamma, validateMode>>

\* After the end, the calls of a rollback and of the finally block.
CleanUp ==
  /\ phase = "stopped"
  /\ gamma' \in Gammas /\ validateMode' \in BOOLEAN
  /\ UNCHANGED phase

Next ==
  \/ FlagValidation \/ WakeUp \/ Drain
  \/ \E g \in Gammas : ForceSetGamma(g)
  \/ Sleep \/ ClearValidation
  \/ Stop \/ CleanUp

Spec == Init /\ [][Next]_vars
=============================================================================
