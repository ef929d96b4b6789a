--------------------------- MODULE MCGammaConsensus ---------------------------
(***************************************************************************)
(* Small instances of GammaConsensus: two replicas, two workers each, a    *)
(* ladder of three rungs and tallies at both thresholds.                   *)
(***************************************************************************)
EXTENDS GammaConsensus

CONSTANTS s1, s2, w1, w2

MCServers == {s1, s2}
MCWorkers == {w1, w2}
MCLadder == <<5, 7, 9>>

\* 17/20 is the lower threshold, 47/50 the upper one; both together are between.
MCTallies == {NoTally, [accepted |-> 17, drafted |-> 20],
              [accepted |-> 47, drafted |-> 50]}
=============================================================================
