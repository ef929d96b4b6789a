----------------------------- MODULE GammaLadder -----------------------------
(***************************************************************************)
(* The draft-length ladder of adaptive gamma: the strictly ascending list  *)
(* of values of gamma for which every worker has captured its graphs, and  *)
(* the two neighbours the trainer may move the cluster to.                 *)
(***************************************************************************)
EXTENDS Naturals, Sequences

CONSTANT Ladder

\* What RolloutConfig and SpeculativeConfig enforce on the list: at least two
\* values, each at least 1, strictly ascending (the uniform step of 2 is not
\* needed by anything modelled).
ASSUME LadderAssumption ==
  /\ Ladder \in Seq(Nat \ {0})
  /\ Len(Ladder) >= 2
  /\ \A i, j \in 1..Len(Ladder) : i < j => Ladder[i] < Ladder[j]

Rungs == 1..Len(Ladder)

Gammas == {Ladder[i] : i \in Rungs}

\* ladder.index(g), for a g of the ladder.
Rung(g) == CHOOSE i \in Rungs : Ladder[i] = g

HasNext(g) == Rung(g) + 1 \in Rungs

HasPrev(g) == Rung(g) > 1

NextGamma(g) == Ladder[Rung(g) + 1]

PrevGamma(g) == Ladder[Rung(g) - 1]
=============================================================================
