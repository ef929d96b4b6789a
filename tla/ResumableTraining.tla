-------------------------- MODULE ResumableTraining --------------------------
(***************************************************************************)
(* What checkpoints promise a training job, as if there were one machine   *)
(* and a save were a single write: the job trains one model, saves it at   *)
(* least every SaveFreq steps, may die at any moment, goes on from exactly *)
(* what was saved last, and returns with a model that is saved.  Only a    *)
(* crash can leave it in a state it cannot be started from.                *)
(***************************************************************************)
EXTENDS Naturals

CONSTANTS
  SaveFreq,
  None      \* nothing has been saved

VARIABLES
  status,
  run,      \* the runs started so far
  model,    \* the run that computed the weights, and the steps they had
  batches,  \* the batches given out before the next
  saved     \* the model that was saved last

vars == <<status, run, model, batches, saved>>

StateOf(n, s) == [run |-> n, step |-> s]

Init ==
  /\ status = "down" /\ run = 0
  /\ model = StateOf(0, 0) /\ batches = 0
  /\ saved = None

Start ==
  /\ status = "down"
  /\ run' = run + 1
  /\ model' = IF saved = None THEN StateOf(run + 1, 0) ELSE saved
  /\ batches' = model'.step
  /\ status' = "up" \/ (saved # None /\ status' = "done")
  /\ UNCHANGED saved

\* The steps a crash would cost before this one.
Unsaved == model.step - (IF saved = None THEN 0 ELSE saved.step)

Train ==
  /\ status = "up"
  /\ Unsaved < SaveFreq
  /\ model' = StateOf(run, model.step + 1)
  /\ batches' = batches + 1
  /\ UNCHANGED <<status, run, saved>>

Save ==
  /\ status = "up"
  /\ saved' = model
  /\ UNCHANGED <<status, run, model, batches>>

Finish ==
  /\ status = "up" /\ saved = model
  /\ status' = "done"
  /\ UNCHANGED <<run, model, batches, saved>>

Crash ==
  /\ status = "up"
  /\ status' \in {"down", "torn"}
  /\ model' = StateOf(0, 0) /\ batches' = 0
  /\ UNCHANGED <<run, saved>>

Fail ==
  /\ status = "torn"
  /\ status' = "failed"
  /\ UNCHANGED <<run, model, batches, saved>>

Next == Start \/ Train \/ Save \/ Finish \/ Crash \/ Fail

Spec == Init /\ [][Next]_vars
=============================================================================
