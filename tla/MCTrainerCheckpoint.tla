------------------------ MODULE MCTrainerCheckpoint ------------------------
(***************************************************************************)
(* Small instances of TrainerCheckpoint: actor and critic with two ranks;  *)
(* one file stands for the three kinds that a rank writes.                 *)
(***************************************************************************)
EXTENDS TrainerCheckpoint

MCGroups == <<"actor", "critic">>
MCContents == <<"model">>
=============================================================================
