--------------------------- MODULE MCBatchPipeline ---------------------------
(***************************************************************************)
(* Small instances of BatchPipeline.                                       *)
(***************************************************************************)
EXTENDS BatchPipeline
=============================================================================
