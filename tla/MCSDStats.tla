------------------------------ MODULE MCSDStats -------------------------------
(***************************************************************************)
(* A small instance of SDStats: two requests at a time, more than a slice  *)
(* of outputs holds.                                                       *)
(***************************************************************************)
EXTENDS SDStats

MCLadder == <<5, 7>>
=============================================================================
