---------------------------- MODULE RequestOutputs ----------------------------
(***************************************************************************)
(* What an engine promises of the requests of a rollout, with no batch, no *)
(* queues and no cache: a request is added once, its tokens only grow, by  *)
(* one at a time and by as many as were drafted and one more while         *)
(* speculation is on, none follows the one that ends it, and the weights   *)
(* are replaced between rollouts only.                                     *)
(***************************************************************************)
EXTENDS Naturals, Sequences

CONSTANTS
  Requests,
  Prompt,
  SampledTokens,
  EOS,
  MaxTokens,     \* the limit on the output of a request
  MaxModelLen,   \* the limit on its prompt and output
  Gamma,         \* drafts that may be verified at once
  Batches        \* the requests of each rollout

VARIABLES
  tokens,        \* prompt and output so far, empty when there is no such request
  toCome,        \* the requests that the rollout has still to add
  rollout,
  speculating

vars == <<tokens, toCome, rollout, speculating>>

Init ==
  /\ tokens = [r \in Requests |-> <<>>]
  /\ toCome = Batches[1]
  /\ rollout = 1
  /\ speculating \in BOOLEAN

Submit(r) ==
  /\ r \in toCome
  /\ toCome' = toCome \ {r}
  /\ tokens' = [tokens EXCEPT ![r] = Prompt[r]]
  /\ UNCHANGED <<rollout, speculating>>

\* A request with these tokens has ended.
Ended(r, ts) ==
  \/ ts[Len(ts)] = EOS
  \/ Len(ts) >= MaxModelLen
  \/ Len(ts) - Len(Prompt[r]) >= MaxTokens

\* The tokens that one step of the engine may give.
AtOnce == IF speculating THEN Gamma + 1 ELSE 1

Generate(r, new) ==
  /\ tokens[r] # <<>>
  /\ tokens' = [tokens EXCEPT ![r] = @ \o new]
  /\ \A i \in DOMAIN new : ~Ended(r, tokens[r] \o SubSeq(new, 1, i))
  /\ UNCHANGED <<toCome, rollout, speculating>>

\* It has its last token, or is aborted.
End(r) ==
  /\ tokens[r] # <<>>
  /\ tokens' = [tokens EXCEPT ![r] = <<>>]
  /\ UNCHANGED <<toCome, rollout, speculating>>

StartSpeculating ==
  /\ speculating' = TRUE
  /\ UNCHANGED <<tokens, toCome, rollout>>

NextRollout ==
  /\ toCome = {} /\ \A r \in Requests : tokens[r] = <<>>
  /\ rollout < Len(Batches)
  /\ rollout' = rollout + 1
  /\ toCome' = Batches[rollout + 1]
  /\ speculating' \in {speculating, FALSE}
  /\ UNCHANGED tokens

Next ==
  \/ \E r \in Requests : Submit(r) \/ End(r)
  \/ \E r \in Requests, n \in 1..AtOnce :
       \E new \in [1..n -> SampledTokens \cup {EOS}] : Generate(r, new)
  \/ StartSpeculating
  \/ NextRollout

Spec == Init /\ [][Next]_vars
=============================================================================
