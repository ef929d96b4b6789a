-------------------------- MODULE TrainerCheckpoint --------------------------
(***************************************************************************)
(* Checkpoints of RayPPOTrainer: the training loop of `fit`, the save with *)
(* its rotation of old checkpoints, and the restart after a crash.         *)
(*                                                                         *)
(* A checkpoint is a folder with a directory per worker group (actor, and  *)
(* critic when there is one), in which every rank writes its own files,    *)
(* and with the state of the dataloader; a tracker file names the step to  *)
(* restart from.  Everything else is memory and lost in a crash, which may *)
(* come between any two writes, and in the middle of one: a file that is   *)
(* opened and not yet complete is Torn, and cannot be loaded.              *)
(*                                                                         *)
(* Weights, optimizer and dataloader are modelled by where they come from: *)
(* the run that computed them and the step it had reached.  Runs differ,   *)
(* since rollouts are sampled.                                             *)
(***************************************************************************)
EXTENDS Integers, Sequences, FiniteSets, SequencesExt

CONSTANTS
  Groups,       \* the worker groups that save, in the order of _save_checkpoint
  Ranks,        \* the ranks of a group
  Contents,     \* checkpoint.save_contents, in the order a rank writes them
  TotalSteps,   \* total_training_steps
  LoopSteps,    \* what the epochs offer: len(train_dataloader) * total_epochs
  SaveFreq,     \* trainer.save_freq
  MaxKeep,      \* max_actor_ckpt_to_keep and max_critic_ckpt_to_keep, 0 for None
  MaxCrashes,   \* bound on the number of crashes
  None,         \* a file that is not there
  Torn          \* a file that is opened for writing and not complete

ASSUME CheckpointAssumption ==
  /\ Groups \in Seq(STRING) /\ Groups # << >> /\ IsInjective(Groups)
  /\ Ranks # {} /\ IsFiniteSet(Ranks)
  /\ Contents \in Seq(STRING) /\ Contents # << >> /\ IsInjective(Contents)
  /\ TotalSteps \in Nat \ {0} /\ LoopSteps \in Nat /\ LoopSteps >= TotalSteps
  /\ SaveFreq \in Nat \ {0} /\ MaxKeep \in Nat /\ MaxCrashes \in Nat

VARIABLES
  phase,    \* where fit, or the save it is in, stands
  run,      \* the runs started so far
  step,     \* global_steps
  mem,      \* what every rank of every group holds, per content
  loader,   \* the batches train_dataloader has given out
  group,    \* the position in Groups of the group that is saving
  saved,    \* previous_saved_paths of each group
  doomed,   \* the checkpoints rank 0 is removing
  progress, \* of each rank in its files: two steps per file
  folders,  \* the steps that have a folder
  files,    \* the files of the groups' directories
  data,     \* the dataloader file of each folder
  tracker,  \* latest_checkpointed_iteration.txt
  durable   \* history: the last step whose save has ended

disk == <<folders, files, data, tracker, durable>>
training == <<run, step, mem, loader>>
saving == <<group, saved, doomed, progress>>
vars == <<phase, training, saving, disk>>

Steps == 1..LoopSteps
GroupNames == Range(Groups)
Slots == Ranks \X Range(Contents)

\* The weights, optimizer and schedule that run n has after s steps.
StateOf(n, s) == [run |-> n, step |-> s]
States == [run : 0..MaxCrashes + 1, step : 0..LoopSteps]

\* A file that is missing or torn has no content.
ASSUME FileAssumption ==
  /\ None # Torn
  /\ {None, Torn} \cap (States \cup 0..LoopSteps) = {}

\* Every rank of every group holding the same state.
Everywhere(state) == [g \in GroupNames |-> [k \in Slots |-> state]]

NoProgress == [r \in Ranks |-> 0]
Saving == Groups[group]

Init ==
  /\ phase = "down" /\ run = 0 /\ step = 0
  /\ mem = Everywhere(StateOf(0, 0)) /\ loader = 0
  /\ group = 1 /\ saved = [g \in GroupNames |-> << >>] /\ doomed = {}
  /\ progress = NoProgress
  /\ folders = {}
  /\ files = [g \in GroupNames |-> [s \in Steps |-> [k \in Slots |-> None]]]
  /\ data = [s \in Steps |-> None]
  /\ tracker = None /\ durable = 0

-----------------------------------------------------------------------------
(* Start: _load_checkpoint with resume_mode "auto", then fit's epoch loop.  *)

\* Mutant: the folders are listed, and the first is taken.
FirstCheckpoint ==
  IF tracker \in folders THEN CHOOSE s \in folders : \A o \in folders : s <= o ELSE 0

\* find_latest_ckpt_path: the tracker's checkpoint, 0 when there is none.
\* A torn tracker does not parse.
LatestCheckpoint == IF tracker \in folders THEN tracker ELSE 0

\* Every rank finds its files, and what is there can be read.  The dataloader's
\* file may be missing.
Loadable(s) ==
  /\ \A g \in GroupNames, k \in Slots : files[g][s][k] \notin {None, Torn}
  /\ data[s] # Torn

\* The epochs left after s steps hold a batch, or the loop does not run at all.
EnterLoop(s) ==
  /\ run' = run + 1
  /\ step' = s + 1
  /\ phase' = IF s < LoopSteps THEN "step" ELSE "done"
  /\ UNCHANGED <<saving, disk>>

StartFromScratch ==
  /\ phase = "down" /\ tracker # Torn /\ LatestCheckpoint = 0
  /\ mem' = Everywhere(StateOf(run + 1, 0))
  /\ loader' = 0
  /\ EnterLoop(0)

\* Mutant: the actor is restored, the other groups start as they were created.
ResumeActorOnly ==
  /\ phase = "down" /\ tracker # Torn /\ LatestCheckpoint # 0
  /\ Loadable(LatestCheckpoint)
  /\ mem' = [Everywhere(StateOf(run + 1, 0)) EXCEPT
               ![Groups[1]] = files[Groups[1]][LatestCheckpoint]]
  /\ loader' = IF data[LatestCheckpoint] = None THEN 0 ELSE data[LatestCheckpoint]
  /\ EnterLoop(LatestCheckpoint)

Resume ==
  /\ phase = "down" /\ tracker # Torn /\ LatestCheckpoint # 0
  /\ Loadable(LatestCheckpoint)
  /\ mem' = [g \in GroupNames |-> files[g][LatestCheckpoint]]
  /\ loader' = IF data[LatestCheckpoint] = None THEN 0 ELSE data[LatestCheckpoint]
  /\ EnterLoop(LatestCheckpoint)

\* int("") of the tracker, or torch.load of a file, raises out of fit.
ResumeRaises ==
  /\ phase = "down"
  /\ \/ tracker = Torn
     \/ LatestCheckpoint # 0 /\ ~Loadable(LatestCheckpoint)
  /\ phase' = "failed"
  /\ UNCHANGED <<training, saving, disk>>

-----------------------------------------------------------------------------
(* One turn of the training loop.                                           *)

IsLastStep == step >= TotalSteps

\* Mutant: the last step is saved only when the frequency says so.
DueByFrequency == step % SaveFreq = 0

\* A save is due; it may also come early, before the instance expires.
Due == IsLastStep \/ step % SaveFreq = 0

\* The batch is drawn and every group updated.
Trained ==
  /\ phase = "step"
  /\ mem' = Everywhere(StateOf(run, step))
  /\ loader' = loader + 1
  /\ UNCHANGED <<run, step, disk>>

TrainStep == Trained /\ ~Due /\ phase' = "end" /\ UNCHANGED saving

TrainStepAndSave ==
  /\ Trained /\ phase' = "save"
  /\ group' = 1
  /\ UNCHANGED <<saved, doomed, progress>>

EndOfStep ==
  /\ phase = "end"
  /\ step' = step + 1
  /\ phase' = IF IsLastStep THEN "done" ELSE "step"
  /\ UNCHANGED <<run, mem, loader, saving, disk>>

-----------------------------------------------------------------------------
(* save_checkpoint of a group: rotation by rank 0, a barrier, the files of  *)
(* every rank, a barrier.                                                   *)

\* Mutant: none is removed until one too many is there.
RotateOneLate(g) ==
  IF MaxKeep > 0 /\ Len(saved[g]) > MaxKeep THEN Len(saved[g]) - MaxKeep ELSE 0

\* Mutant: one too many is removed.
RotateOneTooMany(g) ==
  IF MaxKeep > 0 /\ Len(saved[g]) >= MaxKeep THEN Len(saved[g]) - MaxKeep + 2 ELSE 0

\* How many of the oldest checkpoints rank 0 removes before it writes.
RotateOut(g) ==
  IF MaxKeep > 0 /\ Len(saved[g]) >= MaxKeep THEN Len(saved[g]) - MaxKeep + 1 ELSE 0

BeginSave ==
  /\ phase = "save" /\ phase' = "rotate"
  /\ doomed' = Range(SubSeq(saved[Saving], 1, RotateOut(Saving)))
  /\ saved' = [saved EXCEPT ![Saving] = SubSeq(@, RotateOut(Saving) + 1, Len(@))]
  /\ UNCHANGED <<training, group, progress, disk>>

\* shutil.rmtree goes through a directory in no particular order.
RemoveFile(s, k) ==
  /\ phase = "rotate" /\ s \in doomed /\ files[Saving][s][k] # None
  /\ files' = [files EXCEPT ![Saving][s][k] = None]
  /\ UNCHANGED <<phase, training, saving, folders, data, tracker, durable>>

RotationEnds ==
  /\ phase = "rotate"
  /\ \A s \in doomed, k \in Slots : files[Saving][s][k] = None
  /\ phase' = "write" /\ doomed' = {} /\ progress' = NoProgress
  /\ folders' = folders \cup {step}
  /\ UNCHANGED <<training, group, saved, files, data, tracker, durable>>

FilesDone(r) == progress[r] = 2 * Len(Contents)

\* torch.save opens the file of the next content, and completes it.
WriteFile(r) ==
  LET k == <<r, Contents[(progress[r] \div 2) + 1]>> IN
  /\ phase = "write" /\ ~FilesDone(r)
  /\ files' = [files EXCEPT ![Saving][step][k] =
                 IF progress[r] % 2 = 0 THEN Torn ELSE mem[Saving][k]]
  /\ progress' = [progress EXCEPT ![r] = @ + 1]
  /\ UNCHANGED <<phase, training, group, saved, doomed, folders, data, tracker, durable>>

\* Mutant: the save of a group returns when one rank is through.
SomeRankSaved == phase = "write" /\ \E r \in Ranks : FilesDone(r)

\* The barrier at the end of a group's save.
AllRanksSaved == phase = "write" /\ \A r \in Ranks : FilesDone(r)

GroupSaved ==
  /\ AllRanksSaved
  /\ saved' = [saved EXCEPT ![Saving] = Append(@, step)]
  /\ progress' = NoProgress
  /\ \/ group < Len(Groups) /\ group' = group + 1 /\ phase' = "save"
     \/ group = Len(Groups) /\ phase' = "data" /\ UNCHANGED group
  /\ UNCHANGED <<training, doomed, disk>>

-----------------------------------------------------------------------------
(* The driver's own files: the dataloader's state, then the tracker.        *)

OpenData ==
  /\ phase = "data" /\ phase' = "dataOpen"
  /\ data' = [data EXCEPT ![step] = Torn]
  /\ UNCHANGED <<training, saving, folders, files, tracker, durable>>

CloseData ==
  /\ phase = "dataOpen" /\ phase' = "tracker"
  /\ data' = [data EXCEPT ![step] = loader]
  /\ UNCHANGED <<training, saving, folders, files, tracker, durable>>

\* open(..., "w") empties the file.  (With async_save the driver returns before it and
\* leaves the tracker to others; that branch is not modelled.)
OpenTracker ==
  /\ phase = "tracker" /\ phase' = "trackerOpen"
  /\ tracker' = Torn
  /\ UNCHANGED <<training, saving, folders, files, data, durable>>

CloseTracker ==
  /\ phase = "trackerOpen" /\ phase' = "end"
  /\ tracker' = step /\ durable' = step
  /\ UNCHANGED <<training, saving, folders, files, data>>

-----------------------------------------------------------------------------
\* The job dies with all its processes; the disk stays as it is.
Crash ==
  /\ phase \notin {"down", "done", "failed"} /\ run <= MaxCrashes
  /\ phase' = "down" /\ step' = 0
  /\ mem' = Everywhere(StateOf(0, 0)) /\ loader' = 0
  /\ group' = 1 /\ saved' = [g \in GroupNames |-> << >>] /\ doomed' = {}
  /\ progress' = NoProgress
  /\ UNCHANGED <<run, disk>>

Start == StartFromScratch \/ Resume \/ ResumeRaises
Train == TrainStep \/ TrainStepAndSave \/ EndOfStep
SaveGroups ==
  \/ BeginSave \/ RotationEnds \/ GroupSaved
  \/ \E s \in Steps, k \in Slots : RemoveFile(s, k)
  \/ \E r \in Ranks : WriteFile(r)
SaveDriver == OpenData \/ CloseData \/ OpenTracker \/ CloseTracker

\* The job has ended, or cannot be started again.
Over == phase \in {"done", "failed"} /\ UNCHANGED vars

Work == Start \/ Train \/ SaveGroups \/ SaveDriver
Next == Work \/ Crash \/ Over

Spec == Init /\ [][Next]_vars

\* The job goes on as long as it is not killed, and is started again.
FairSpec == Spec /\ WF_vars(Work)

-----------------------------------------------------------------------------
Phases == {"down", "step", "save", "rotate", "write", "data", "dataOpen",
           "tracker", "trackerOpen", "end", "done", "failed"}

\* Types of all variables; a group's paths are distinct and never more than
\* the step count.
TypeOK ==
  /\ phase \in Phases /\ run \in 0..MaxCrashes + 1 /\ step \in 0..LoopSteps + 1
  /\ mem \in [GroupNames -> [Slots -> States]] /\ loader \in 0..LoopSteps
  /\ group \in DOMAIN Groups /\ saved \in [GroupNames -> Seq(Steps)]
  /\ \A g \in GroupNames : IsInjective(saved[g])
  /\ doomed \subseteq Steps /\ progress \in [Ranks -> 0..2 * Len(Contents)]
  /\ folders \subseteq Steps
  /\ files \in [GroupNames -> [Steps -> [Slots -> States \cup {None, Torn}]]]
  /\ data \in [Steps -> (0..LoopSteps) \cup {None, Torn}]
  /\ tracker \in Steps \cup {None, Torn} /\ durable \in 0..LoopSteps

\* "Tracker file records the latest checkpoint during training to restart
\* from": in the folder it names every rank of every group has all its files,
\* written by one run at this step, and the dataloader stands at this step.
TrackedIsComplete ==
  tracker \in Steps =>
    /\ tracker \in folders /\ data[tracker] = tracker
    /\ \E n \in 1..run : \A g \in GroupNames, k \in Slots :
         files[g][tracker][k] = StateOf(n, tracker)

\* "Number of recent checkpoints to retain": once a checkpoint has been saved, a
\* crash leaves one to restart from.  Expected to fail with MaxKeep = 1.
RestartSucceeds == phase = "failed" => tracker = Torn

\* What is trained on is one consistent state: weights and optimizers of all
\* ranks of actor and critic are from the same run and step, and the dataloader
\* goes on with the batch after it.
ResumeIsConsistent ==
  phase = "step" =>
    /\ loader = step - 1
    /\ \E n \in 1..run : mem = Everywhere(StateOf(n, step - 1))

\* A run that is up has all work whose save has ended, and a crash costs at
\* most SaveFreq steps.
LostWorkIsBounded ==
  phase \notin {"down", "failed", "done"} =>
    durable <= step /\ step <= durable + SaveFreq

\* "Rotates old checkpoints, keeping at most max_ckpt_to_keep": also while one
\* is written, a run adds no more than that to the disk.  Checkpoints of runs
\* before a crash are not rotated, their paths are forgotten.
DiskIsBounded ==
  MaxKeep > 0 =>
    \A g \in GroupNames :
      Cardinality({s \in Steps : \E k \in Slots : files[g][s][k] # None})
        <= MaxKeep * run

\* When fit returns, the weights it returns with are in the tracked checkpoint,
\* and no step is missing.
DoneIsSaved ==
  phase = "done" =>
    /\ tracker \in Steps /\ tracker >= TotalSteps
    /\ \A g \in GroupNames : mem[g] = files[g][tracker]

\* The state that all ranks of all groups have, Torn when they do not have the same.
Common(copies) ==
  LET one == copies[Groups[1]][CHOOSE k \in Slots : TRUE] IN
  IF copies = Everywhere(one) THEN one ELSE Torn

\* The job as ResumableTraining sees it: a save happens when the tracker is closed.
StatusBar ==
  CASE phase = "down" -> IF tracker = Torn THEN "torn" ELSE "down"
    [] phase \in {"done", "failed"} -> phase
    [] OTHER -> "up"

SavedBar ==
  IF durable = 0 THEN None ELSE Common([g \in GroupNames |-> files[g][durable]])

Resumable == INSTANCE ResumableTraining
  WITH status <- StatusBar, model <- Common(mem), batches <- loader, saved <- SavedBar

\* However many ranks, groups and files there are, and wherever a crash comes, the job
\* does what one process with an atomic save would do: it goes on from exactly the model
\* saved last, and at most SaveFreq steps are ever unsaved.  Needs MaxKeep # 1.
ImplementsResumableTraining == Resumable!Spec

\* However often the job is killed, it ends; only a crash in the middle of
\* writing the tracker can keep it from being started again.
TrainingEnds == <>[](phase = "done" \/ (phase = "failed" /\ tracker = Torn))
=============================================================================
