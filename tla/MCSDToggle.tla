------------------------------ MODULE MCSDToggle ------------------------------
(***************************************************************************)
(* Small instances of SDToggle: three requests for two places in the       *)
(* batch, two rungs.                                                       *)
(***************************************************************************)
EXTENDS SDToggle, TLC

CONSTANTS r1, r2, r3

MCRequests == {r1, r2, r3}
MCLadder == <<5, 7>>
MCSymmetry == Permutations(MCRequests)
=============================================================================
