----------------------- MODULE TrainerCheckpoint_proofs -----------------------
(***************************************************************************)
(* Proofs about TrainerCheckpoint for every set of ranks, list of groups   *)
(* and of contents, save frequency and number of steps and of crashes.     *)
(* What a crash may find on the disk rests on MaxKeep # 1: with one        *)
(* checkpoint kept, the rotation removes it before there is another.       *)
(* Last, the many writes of a save implement the one step in which         *)
(* ResumableTraining saves.                                                *)
(***************************************************************************)
EXTENDS TrainerCheckpoint, SequenceTheorems, FiniteSetTheorems, TLAPS

-------------------------------------------------------------------------------
(* The inductive invariant.                                                *)

\* The driver writes its own files.
Driver == {"data", "dataOpen", "tracker", "trackerOpen"}
SavePhases == {"save", "rotate", "write"} \cup Driver
\* The job is up.
Busy == {"step", "end"} \cup SavePhases

CursorInv ==
  /\ phase \in Busy => step \in Steps /\ run >= 1
  /\ phase = "down" => run <= MaxCrashes

\* Between the steps, and within one after its updates, everything in memory is of
\* one run and one step.
MemInv ==
  /\ phase = "step" =>
       loader = step - 1 /\ \E n \in 1..run : mem = Everywhere(StateOf(n, step - 1))
  /\ phase \in Busy \ {"step"} =>
       loader = step /\ mem = Everywhere(StateOf(run, step))

\* The tracker names the last save that has ended, and that was before this step.
TrackerInv ==
  /\ tracker \in Steps => tracker = durable
  /\ tracker = None => durable = 0
  /\ tracker = Torn => phase \in {"trackerOpen", "down", "failed"}
  /\ phase \in Busy => durable < step \/ (phase = "end" /\ durable = step)

\* The i-th group has saved in this step.
HasSaved(i) ==
  phase \in Driver \/ (phase \in {"save", "rotate", "write"} /\ i < group)

\* A group's paths are in the order of their steps, none later than the last save
\* that has ended, but for the one of this step.
SavedInv ==
  /\ phase = "down" => \A g \in GroupNames : saved[g] = << >>
  /\ \A g \in GroupNames : \A a, b \in DOMAIN saved[g] :
       a < b => saved[g][a] < saved[g][b]
  /\ phase \in Busy =>
       \A i \in DOMAIN Groups : \A a \in DOMAIN saved[Groups[i]] :
         \/ saved[Groups[i]][a] <= durable
         \/ saved[Groups[i]][a] = step /\ HasSaved(i)

\* Rank 0 removes nothing that is as late as the tracked checkpoint.
DoomedInv == \A s \in doomed : phase = "rotate" /\ s < durable

Complete(g, s, state) == \A k \in Slots : files[g][s][k] = state

\* What this step's save has written so far.
CopiesInv ==
  /\ phase \in SavePhases => \A i \in DOMAIN Groups :
       HasSaved(i) => Complete(Groups[i], step, StateOf(run, step))
  /\ phase = "write" => \A r \in Ranks, c \in DOMAIN Contents :
       2 * c <= progress[r] =>
         files[Saving][step][<<r, Contents[c]>>] = StateOf(run, step)
  /\ phase \in Driver \cup {"write"} => step \in folders
  /\ phase \in {"tracker", "trackerOpen"} => data[step] = step

\* The last step ends with its save.
LastInv ==
  phase = "end" /\ IsLastStep =>
    tracker = step /\ \A g \in GroupNames : Complete(g, step, StateOf(run, step))

IInv ==
  /\ TypeOK /\ CursorInv /\ MemInv /\ TrackerInv /\ TrackedIsComplete
  /\ SavedInv /\ DoomedInv /\ CopiesInv /\ LastInv /\ DoneIsSaved

-------------------------------------------------------------------------------
(* Groups, states and files.                                               *)

LEMMA GroupFacts ==
  /\ \A i \in DOMAIN Groups : Groups[i] \in GroupNames
  /\ \A g \in GroupNames : \E i \in DOMAIN Groups : g = Groups[i]
  /\ \A i, j \in DOMAIN Groups : Groups[i] = Groups[j] => i = j
  /\ DOMAIN Groups = 1..Len(Groups) /\ Len(Groups) \in Nat /\ Len(Groups) >= 1
<1>1. Groups \in Seq(STRING) /\ Groups # << >>
  BY CheckpointAssumption
<1>2. DOMAIN Groups = 1..Len(Groups) /\ Len(Groups) \in Nat /\ Len(Groups) >= 1
  BY <1>1, EmptySeq, LenProperties
<1>. QED
  BY <1>2, CheckpointAssumption DEF GroupNames, Range, IsInjective

LEMMA SlotFacts ==
  /\ \A r \in Ranks, c \in DOMAIN Contents : <<r, Contents[c]>> \in Slots
  /\ \A k \in Slots : \E r \in Ranks, c \in DOMAIN Contents : k = <<r, Contents[c]>>
  /\ \A c, d \in DOMAIN Contents : Contents[c] = Contents[d] => c = d
  /\ DOMAIN Contents = 1..Len(Contents) /\ Len(Contents) \in Nat
<1>1. DOMAIN Contents = 1..Len(Contents) /\ Len(Contents) \in Nat
  BY CheckpointAssumption, LenProperties
<1>2. \A c, d \in DOMAIN Contents : Contents[c] = Contents[d] => c = d
  BY CheckpointAssumption DEF IsInjective
<1>3. \A k \in Slots : \E r \in Ranks, c \in DOMAIN Contents : k = <<r, Contents[c]>>
  BY DEF Slots, Range
<1>4. \A r \in Ranks, c \in DOMAIN Contents : <<r, Contents[c]>> \in Slots
  BY DEF Slots, Range
<1>. QED
  BY <1>1, <1>2, <1>3, <1>4

LEMMA StateType ==
  ASSUME NEW n \in 0..MaxCrashes + 1, NEW s \in 0..LoopSteps
  PROVE  /\ StateOf(n, s) \in States
         /\ Everywhere(StateOf(n, s)) \in [GroupNames -> [Slots -> States]]
  BY DEF StateOf, States, Everywhere

LEMMA StepsAreNumbers ==
  /\ LoopSteps \in Nat /\ TotalSteps \in Nat /\ TotalSteps >= 1
  /\ TotalSteps <= LoopSteps /\ MaxCrashes \in Nat /\ MaxKeep \in Nat
  /\ Steps = 1..LoopSteps
  /\ None # Torn /\ None \notin Steps /\ Torn \notin Steps
  /\ None \notin 0..LoopSteps /\ Torn \notin 0..LoopSteps
  BY CheckpointAssumption, FileAssumption DEF Steps

-------------------------------------------------------------------------------
(* The initial state.                                                      *)

LEMMA InitIsInv == Init => IInv
<1>. SUFFICES ASSUME Init PROVE IInv
  OBVIOUS
<1>. USE StepsAreNumbers
<1>1. TypeOK
  <2>1. mem \in [GroupNames -> [Slots -> States]]
    BY StateType DEF Init
  <2>2. saved \in [GroupNames -> Seq(Steps)] /\ \A g \in GroupNames : IsInjective(saved[g])
    BY EmptySeq DEF Init, IsInjective
  <2>3. progress \in [Ranks -> 0..2 * Len(Contents)]
    BY SlotFacts DEF Init, NoProgress
  <2>4. group \in DOMAIN Groups
    BY GroupFacts DEF Init
  <2>5. /\ files \in [GroupNames -> [Steps -> [Slots -> States \cup {None, Torn}]]]
        /\ data \in [Steps -> (0..LoopSteps) \cup {None, Torn}]
    BY DEF Init
  <2>. QED
    BY <2>1, <2>2, <2>3, <2>4, <2>5 DEF Init, TypeOK, Phases
<1>2. CursorInv /\ MemInv /\ TrackerInv /\ TrackedIsComplete
  BY DEF Init, CursorInv, MemInv, TrackerInv, TrackedIsComplete, Busy, SavePhases, Driver
<1>3. SavedInv
  BY EmptySeq DEF Init, SavedInv, Busy, SavePhases, Driver
<1>4. DoomedInv /\ CopiesInv /\ LastInv /\ DoneIsSaved
  BY DEF Init, DoomedInv, CopiesInv, LastInv, DoneIsSaved, SavePhases, Driver
<1>. QED
  BY <1>1, <1>2, <1>3, <1>4 DEF IInv

-------------------------------------------------------------------------------
(* Start and crash.                                                        *)

\* What a start finds when the tracker can be read.
LEMMA LatestFacts ==
  ASSUME IInv
  PROVE  /\ LatestCheckpoint \in 0..LoopSteps
         /\ LatestCheckpoint = 0 /\ tracker # Torn => tracker = None /\ durable = 0
         /\ LatestCheckpoint # 0 => tracker \in Steps /\ LatestCheckpoint = tracker
<1>. USE StepsAreNumbers
<1>1. folders \subseteq Steps /\ tracker \in Steps \cup {None, Torn}
  BY DEF IInv, TypeOK
<1>2. tracker \in Steps => tracker \in folders
  BY DEF IInv, TrackedIsComplete
<1>. QED
  BY <1>1, <1>2 DEF LatestCheckpoint, IInv, TrackerInv

\* The two ways to start differ in what memory holds.
LEMMA EnterLoopPreserves ==
  ASSUME IInv, NEW s \in 0..LoopSteps, EnterLoop(s), phase = "down",
         loader' = s, durable = s, tracker # Torn,
         \E n \in 1..run + 1 : mem' = Everywhere(StateOf(n, s)),
         s > 0 => tracker = s /\ \A g \in GroupNames : mem'[g] = files[g][s]
  PROVE  IInv'
<1>. USE StepsAreNumbers
<1>1. /\ run \in 0..MaxCrashes /\ run' = run + 1 /\ step' = s + 1
      /\ phase' = IF s < LoopSteps THEN "step" ELSE "done"
      /\ UNCHANGED <<group, saved, doomed, progress, folders, files, data, tracker,
                     durable>>
  BY DEF EnterLoop, saving, disk, IInv, TypeOK, CursorInv
<1>2. doomed = {} /\ \A g \in GroupNames : saved[g] \in Seq(Steps)
  BY DEF IInv, DoomedInv, TypeOK
<1>3. PICK n \in 1..run + 1 : mem' = Everywhere(StateOf(n, s))
  OBVIOUS
<1>4. TypeOK'
  <2>1. mem' \in [GroupNames -> [Slots -> States]]
    BY <1>1, <1>3, StateType
  <2>2. run' \in 0..MaxCrashes + 1 /\ step' \in 0..LoopSteps + 1 /\ loader' \in 0..LoopSteps
    BY <1>1
  <2>3. phase' \in Phases
    BY <1>1 DEF Phases
  <2>. QED
    BY <1>1, <2>1, <2>2, <2>3 DEF IInv, TypeOK
<1>5. CursorInv' /\ MemInv'
  <2>1. run' >= 1 /\ s + 1 >= 1 /\ (s < LoopSteps => s + 1 \in Steps)
    BY <1>1
  <2>2. step' - 1 = s
    BY <1>1
  <2>. QED
    BY <1>1, <1>3, <2>1, <2>2 DEF CursorInv, MemInv, Busy, SavePhases, Driver
<1>6. TrackerInv'
  <2>1. durable < step'
    BY <1>1
  <2>. QED
    BY <1>1, <2>1 DEF IInv, TrackerInv
<1>7. TrackedIsComplete'
  <2>1. 1..run \subseteq 1..run'
    BY <1>1
  <2>. QED
    BY <1>1, <2>1 DEF IInv, TrackedIsComplete
<1>8. SavedInv'
  <2>1. \A g \in GroupNames : saved[g] = << >>
    BY DEF IInv, SavedInv
  <2>. QED
    BY <1>1, <2>1, GroupFacts, EmptySeq DEF SavedInv
<1>9. DoomedInv' /\ CopiesInv' /\ LastInv'
  BY <1>1, <1>2 DEF DoomedInv, CopiesInv, LastInv, SavePhases, Driver
<1>10. DoneIsSaved'
  BY <1>1 DEF DoneIsSaved
<1>. QED
  BY <1>4, <1>5, <1>6, <1>7, <1>8, <1>9, <1>10 DEF IInv

LEMMA StartPreserves ==
  ASSUME IInv, Start
  PROVE  IInv'
<1>. USE StepsAreNumbers
<1>1. CASE StartFromScratch
  <2>1. durable = 0 /\ 0 \in 0..LoopSteps
    BY <1>1, LatestFacts DEF StartFromScratch
  <2>2. run + 1 \in 1..run + 1
    BY DEF IInv, TypeOK
  <2>. QED
    BY <1>1, <2>1, <2>2, EnterLoopPreserves DEF StartFromScratch
<1>2. CASE Resume
  <2>1. /\ LatestCheckpoint = tracker /\ tracker \in Steps /\ tracker \in 0..LoopSteps
        /\ durable = tracker
    BY <1>2, LatestFacts DEF Resume, IInv, TrackerInv
  <2>2. data[tracker] = tracker
    BY <2>1 DEF IInv, TrackedIsComplete
  <2>3. PICK n \in 1..run : \A g \in GroupNames : Complete(g, tracker, StateOf(n, tracker))
    BY <2>1 DEF IInv, TrackedIsComplete, Complete
  <2>4. ASSUME NEW g \in GroupNames
        PROVE  files[g][tracker] = [k \in Slots |-> StateOf(n, tracker)]
    <3>1. files[g][tracker] \in [Slots -> States \cup {None, Torn}]
      BY <2>1 DEF IInv, TypeOK
    <3>. QED
      BY <2>3, <3>1 DEF Complete
  <2>5. mem' = Everywhere(StateOf(n, tracker))
    BY <1>2, <2>1, <2>4 DEF Resume, Everywhere
  <2>6. loader' = tracker
    BY <1>2, <2>1, <2>2 DEF Resume
  <2>7. n \in 1..run + 1
    BY <2>3 DEF IInv, TypeOK
  <2>8. \A g \in GroupNames : mem'[g] = files[g][tracker]
    BY <1>2, <2>1 DEF Resume
  <2>. QED
    BY <1>2, <2>1, <2>5, <2>6, <2>7, <2>8, EnterLoopPreserves DEF Resume
<1>3. CASE ResumeRaises
  <2>. USE <1>3 DEF ResumeRaises, training, saving, disk
  <2>1. TypeOK'
    BY DEF IInv, TypeOK, Phases
  <2>2. CursorInv' /\ MemInv' /\ TrackerInv' /\ TrackedIsComplete'
    BY DEF IInv, CursorInv, MemInv, TrackerInv, TrackedIsComplete, Busy, SavePhases, Driver
  <2>3. SavedInv' /\ DoomedInv' /\ CopiesInv' /\ LastInv' /\ DoneIsSaved'
    BY DEF IInv, SavedInv, DoomedInv, CopiesInv, LastInv, DoneIsSaved, Busy, SavePhases,
           Driver
  <2>. QED
    BY <2>1, <2>2, <2>3 DEF IInv
<1>. QED
  BY <1>1, <1>2, <1>3 DEF Start

LEMMA CrashPreserves ==
  ASSUME IInv, Crash
  PROVE  IInv'
<1>. USE StepsAreNumbers DEF Crash, disk
<1>1. TypeOK'
  <2>1. mem' \in [GroupNames -> [Slots -> States]]
    BY StateType
  <2>2. saved' \in [GroupNames -> Seq(Steps)] /\ \A g \in GroupNames : IsInjective(saved'[g])
    BY EmptySeq DEF IsInjective
  <2>3. progress' \in [Ranks -> 0..2 * Len(Contents)]
    BY SlotFacts DEF NoProgress
  <2>4. group' \in DOMAIN Groups
    BY GroupFacts
  <2>. QED
    BY <2>1, <2>2, <2>3, <2>4 DEF IInv, TypeOK, Phases
<1>2. CursorInv' /\ MemInv' /\ TrackerInv' /\ TrackedIsComplete'
  BY DEF IInv, CursorInv, MemInv, TrackerInv, TrackedIsComplete, Busy, SavePhases, Driver
<1>3. SavedInv'
  BY EmptySeq DEF SavedInv, Busy, SavePhases, Driver
<1>4. DoomedInv' /\ CopiesInv' /\ LastInv' /\ DoneIsSaved'
  BY DEF DoomedInv, CopiesInv, LastInv, DoneIsSaved, SavePhases, Driver
<1>. QED
  BY <1>1, <1>2, <1>3, <1>4 DEF IInv

-------------------------------------------------------------------------------
(* The training loop.                                                      *)

LEMMA TrainedPreserves ==
  ASSUME IInv, Trained, phase' \in {"end", "save"}, phase' = "end" => ~IsLastStep,
         group' \in DOMAIN Groups, phase' = "save" => group' = 1,
         UNCHANGED <<saved, doomed, progress>>
  PROVE  IInv'
<1>. USE StepsAreNumbers
<1>1. /\ phase = "step" /\ mem' = Everywhere(StateOf(run, step)) /\ loader' = loader + 1
      /\ UNCHANGED <<run, step, folders, files, data, tracker, durable>>
  BY DEF Trained, disk
<1>2. step \in Steps /\ loader = step - 1 /\ run \in 1..MaxCrashes + 1
  BY <1>1 DEF IInv, TypeOK, CursorInv, MemInv, Busy
<1>3. loader' = step
  BY <1>1, <1>2
<1>4. TypeOK'
  <2>1. mem' \in [GroupNames -> [Slots -> States]]
    BY <1>1, <1>2, StateType
  <2>. QED
    BY <1>1, <1>2, <1>3, <2>1 DEF IInv, TypeOK, Phases
<1>5. CursorInv' /\ MemInv' /\ TrackerInv' /\ TrackedIsComplete'
  BY <1>1, <1>2, <1>3
  DEF IInv, CursorInv, MemInv, TrackerInv, TrackedIsComplete, Busy, SavePhases, Driver
<1>6. SavedInv'
  BY <1>1 DEF IInv, SavedInv, HasSaved, Busy, SavePhases, Driver
<1>7. DoomedInv'
  BY <1>1 DEF IInv, DoomedInv
<1>8. CopiesInv'
  BY <1>1, GroupFacts DEF CopiesInv, HasSaved, SavePhases, Driver
<1>9. LastInv' /\ DoneIsSaved'
  BY <1>1 DEF LastInv, DoneIsSaved, IsLastStep
<1>. QED
  BY <1>4, <1>5, <1>6, <1>7, <1>8, <1>9 DEF IInv

LEMMA TrainPreserves ==
  ASSUME IInv, Train
  PROVE  IInv'
<1>. USE StepsAreNumbers
<1>1. CASE TrainStep
  BY <1>1, TrainedPreserves DEF TrainStep, Due, saving, IInv, TypeOK
<1>2. CASE TrainStepAndSave
  BY <1>2, TrainedPreserves, GroupFacts DEF TrainStepAndSave
<1>3. CASE EndOfStep
  <2>1. /\ phase = "end" /\ step' = step + 1
        /\ phase' = IF IsLastStep THEN "done" ELSE "step"
        /\ UNCHANGED <<run, mem, loader, group, saved, doomed, progress, folders, files,
                       data, tracker, durable>>
    BY <1>3 DEF EndOfStep, saving, disk
  <2>2. step \in Steps /\ run \in 1..MaxCrashes + 1 /\ (~IsLastStep => step' \in Steps)
    BY <2>1 DEF IInv, TypeOK, CursorInv, Busy, IsLastStep
  <2>3. TypeOK'
    BY <2>1, <2>2 DEF IInv, TypeOK, Phases
  <2>4. CursorInv'
    BY <2>1, <2>2 DEF CursorInv, Busy, SavePhases, Driver
  <2>5. MemInv'
    <3>1. step' - 1 = step
      BY <2>1, <2>2
    <3>. QED
      BY <2>1, <2>2, <3>1 DEF IInv, MemInv, Busy, SavePhases, Driver
  <2>6. TrackerInv' /\ TrackedIsComplete'
    BY <2>1, <2>2 DEF IInv, TypeOK, TrackerInv, TrackedIsComplete, Busy, SavePhases, Driver
  <2>7. SavedInv'
    BY <2>1 DEF IInv, SavedInv, HasSaved, Busy, SavePhases, Driver
  <2>8. DoomedInv' /\ CopiesInv' /\ LastInv'
    BY <2>1 DEF IInv, DoomedInv, CopiesInv, LastInv, SavePhases, Driver
  <2>9. DoneIsSaved'
    <3>. SUFFICES ASSUME IsLastStep PROVE DoneIsSaved'
      BY <2>1 DEF DoneIsSaved
    <3>1. tracker = step /\ \A g \in GroupNames : Complete(g, step, StateOf(run, step))
      BY <2>1 DEF IInv, LastInv
    <3>2. mem = Everywhere(StateOf(run, step))
      BY <2>1 DEF IInv, MemInv, Busy
    <3>3. ASSUME NEW g \in GroupNames
          PROVE  files[g][step] = [k \in Slots |-> StateOf(run, step)]
      <4>1. files[g][step] \in [Slots -> States \cup {None, Torn}]
        BY <2>2 DEF IInv, TypeOK
      <4>. QED
        BY <3>1, <4>1 DEF Complete
    <3>. QED
      BY <2>1, <2>2, <3>1, <3>2, <3>3 DEF DoneIsSaved, Everywhere, IsLastStep
  <2>. QED
    BY <2>3, <2>4, <2>5, <2>6, <2>7, <2>8, <2>9 DEF IInv
<1>. QED
  BY <1>1, <1>2, <1>3 DEF Train

-------------------------------------------------------------------------------
(* The save of a group.                                                    *)

\* In a save the step is the one memory holds, after all that is saved.
LEMMA SaveFacts ==
  ASSUME IInv, phase \in SavePhases
  PROVE  /\ step \in Steps /\ run \in 1..MaxCrashes + 1
         /\ mem = Everywhere(StateOf(run, step)) /\ loader = step
         /\ durable \in Nat /\ durable < step /\ tracker # step
         /\ group \in DOMAIN Groups /\ Saving \in GroupNames
         /\ step \notin doomed /\ tracker \notin doomed
         /\ doomed \subseteq Steps
<1>. USE StepsAreNumbers
<1>1. step \in Steps /\ run \in 1..MaxCrashes + 1
  BY DEF IInv, TypeOK, CursorInv, Busy
<1>2. mem = Everywhere(StateOf(run, step)) /\ loader = step
  BY DEF IInv, MemInv, Busy, SavePhases, Driver
<1>3. durable \in Nat /\ durable < step
  BY DEF IInv, TypeOK, TrackerInv, Busy, SavePhases, Driver
<1>4. tracker # step
  BY <1>1, <1>3 DEF IInv, TrackerInv
<1>5. group \in DOMAIN Groups /\ Saving \in GroupNames
  BY GroupFacts DEF IInv, TypeOK, Saving
<1>6. \A s \in doomed : s \in Steps /\ s < durable
  BY DEF IInv, TypeOK, DoomedInv
<1>7. step \notin doomed
  BY <1>1, <1>3, <1>6
<1>8. tracker \notin doomed
  BY <1>3, <1>6 DEF IInv, TrackerInv
<1>. QED
  BY <1>1, <1>2, <1>3, <1>4, <1>5, <1>6, <1>7, <1>8

\* Where memory, step and tracker stay, and only files no tracker names change.
LEMMA SaveKeepsCore ==
  ASSUME IInv, phase \in SavePhases, phase' \in SavePhases,
         UNCHANGED <<training, tracker, durable>>,
         folders \subseteq folders',
         tracker \in Steps => data'[tracker] = data[tracker],
         \A g \in GroupNames, k \in Slots : tracker \in Steps =>
           files'[g][tracker][k] = files[g][tracker][k],
         tracker = Torn => phase' = "trackerOpen"
  PROVE  /\ CursorInv' /\ MemInv' /\ TrackerInv' /\ TrackedIsComplete'
         /\ LastInv' /\ DoneIsSaved'
<1>. USE StepsAreNumbers
<1>1. UNCHANGED <<run, step, mem, loader, tracker, durable>>
  BY DEF training
<1>2. CursorInv' /\ MemInv'
  BY <1>1 DEF IInv, CursorInv, MemInv, Busy, SavePhases, Driver
<1>3. TrackerInv'
  BY <1>1, SaveFacts DEF IInv, TrackerInv
<1>4. TrackedIsComplete'
  BY <1>1 DEF IInv, TrackedIsComplete
<1>5. LastInv' /\ DoneIsSaved'
  BY DEF LastInv, DoneIsSaved, SavePhases, Driver
<1>. QED
  BY <1>2, <1>3, <1>4, <1>5

LEMMA TrackerIsReadable ==
  ASSUME IInv, phase \in SavePhases \ {"trackerOpen"}
  PROVE  tracker # Torn
  BY DEF IInv, TrackerInv, SavePhases, Driver

\* The rotation takes the oldest paths, and leaves the last.
LEMMA RotatedOut ==
  ASSUME MaxKeep # 1, NEW g \in GroupNames, saved[g] \in Seq(Steps)
  PROVE  /\ RotateOut(g) \in Nat /\ RotateOut(g) <= Len(saved[g])
         /\ RotateOut(g) > 0 => RotateOut(g) < Len(saved[g])
         /\ SubSeq(saved[g], 1, RotateOut(g)) \in Seq(Steps)
         /\ Range(SubSeq(saved[g], 1, RotateOut(g))) =
              {saved[g][a] : a \in 1..RotateOut(g)}
         /\ SubSeq(saved[g], RotateOut(g) + 1, Len(saved[g])) \in Seq(Steps)
         /\ \A a \in DOMAIN SubSeq(saved[g], RotateOut(g) + 1, Len(saved[g])) :
              /\ RotateOut(g) + a \in DOMAIN saved[g]
              /\ SubSeq(saved[g], RotateOut(g) + 1, Len(saved[g]))[a] =
                   saved[g][RotateOut(g) + a]
<1>. DEFINE q == saved[g]
            n == RotateOut(g)
<1>1. q \in Seq(Steps) /\ Len(q) \in Nat /\ DOMAIN q = 1..Len(q)
  BY LenProperties
<1>2. n \in Nat /\ n <= Len(q) /\ (n > 0 => n < Len(q))
  BY <1>1, StepsAreNumbers DEF RotateOut
<1>. HIDE DEF n, q
<1>3. /\ SubSeq(q, 1, n) \in Seq(Steps) /\ DOMAIN SubSeq(q, 1, n) = 1..n
      /\ \A a \in 1..n : SubSeq(q, 1, n)[a] = q[a]
  BY <1>1, <1>2
<1>4. Range(SubSeq(q, 1, n)) = {q[a] : a \in 1..n}
  BY <1>3 DEF Range
<1>5. /\ SubSeq(q, n + 1, Len(q)) \in Seq(Steps)
      /\ DOMAIN SubSeq(q, n + 1, Len(q)) = 1..(Len(q) - n)
      /\ \A a \in 1..(Len(q) - n) : SubSeq(q, n + 1, Len(q))[a] = q[n + a]
  BY <1>1, <1>2
<1>6. \A a \in DOMAIN SubSeq(q, n + 1, Len(q)) :
        n + a \in DOMAIN q /\ SubSeq(q, n + 1, Len(q))[a] = q[n + a]
  BY <1>1, <1>2, <1>5
<1>. QED
  BY <1>2, <1>3, <1>4, <1>5, <1>6 DEF n, q

LEMMA BeginSavePreserves ==
  ASSUME MaxKeep # 1, IInv, BeginSave
  PROVE  IInv'
<1>. USE StepsAreNumbers
<1>1. /\ phase = "save" /\ phase' = "rotate" /\ phase \in SavePhases
      /\ phase' \in SavePhases
      /\ UNCHANGED <<run, step, mem, loader, group, progress, folders, files, data,
                     tracker, durable>>
  BY DEF BeginSave, training, disk, SavePhases
<1>2. /\ Saving \in GroupNames /\ saved \in [GroupNames -> Seq(Steps)]
      /\ durable \in Nat /\ durable < step /\ group \in DOMAIN Groups
  BY <1>1, SaveFacts DEF IInv, TypeOK
<1>. DEFINE q == saved[Saving]
            n == RotateOut(Saving)
            kept == SubSeq(q, n + 1, Len(q))
<1>3. /\ doomed' = Range(SubSeq(q, 1, n))
      /\ saved' = [saved EXCEPT ![Saving] = kept]
  BY DEF BeginSave
<1>4. q \in Seq(Steps) /\ DOMAIN q = 1..Len(q) /\ Len(q) \in Nat
  BY <1>2, LenProperties
<1>5. /\ n \in Nat /\ n <= Len(q) /\ (n > 0 => n < Len(q))
      /\ Range(SubSeq(q, 1, n)) = {q[a] : a \in 1..n}
      /\ kept \in Seq(Steps)
      /\ \A a \in DOMAIN kept : n + a \in DOMAIN q /\ kept[a] = q[n + a]
      /\ DOMAIN kept \subseteq Nat
  <2>1. q \in Seq(Steps) /\ Saving \in GroupNames
    BY <1>2
  <2>2. /\ n \in Nat /\ n <= Len(q) /\ (n > 0 => n < Len(q))
        /\ Range(SubSeq(q, 1, n)) = {q[a] : a \in 1..n}
        /\ kept \in Seq(Steps)
        /\ \A a \in DOMAIN kept : n + a \in DOMAIN q /\ kept[a] = q[n + a]
    BY <2>1, RotatedOut, Zenon
  <2>3. DOMAIN kept \subseteq Nat
    <3>. HIDE DEF kept
    <3>. QED
      BY <2>2, LenProperties
  <2>. QED
    BY <2>2, <2>3
<1>. HIDE DEF q, n, kept
<1>6. /\ \A a, b \in DOMAIN q : a < b => q[a] < q[b]
      /\ \A a \in DOMAIN q : q[a] \in Steps /\ q[a] <= durable
  <2>1. ~HasSaved(group)
    BY <1>1, <1>2, GroupFacts DEF HasSaved, Driver
  <2>2. \A a \in DOMAIN q : q[a] <= durable
    BY <1>1, <1>2, <2>1 DEF IInv, SavedInv, Saving, Busy, q
  <2>3. \A a, b \in DOMAIN q : a < b => q[a] < q[b]
    BY <1>2 DEF IInv, SavedInv, q
  <2>. QED
    BY <1>4, <2>2, <2>3
<1>7. \A a, b \in DOMAIN kept : a < b => kept[a] < kept[b]
  BY <1>5, <1>6
<1>8. \A s \in doomed' : s \in Steps /\ s < durable
  <2>. SUFFICES ASSUME NEW a \in 1..n PROVE q[a] \in Steps /\ q[a] < durable
    BY <1>3, <1>5 DEF q, n
  <2>1. a \in DOMAIN q /\ a + 1 \in DOMAIN q
    BY <1>4, <1>5
  <2>2. q[a + 1] <= durable /\ q[a] \in Steps /\ q[a + 1] \in Steps
    BY <1>6, <2>1
  <2>3. a < a + 1
    BY <1>5
  <2>4. q[a] < q[a + 1]
    BY <1>6, <2>1, <2>3
  <2>. QED
    BY <1>2, <2>2, <2>4
<1>9. \A g \in GroupNames : saved'[g] = IF g = Saving THEN kept ELSE saved[g]
  BY <1>2, <1>3
<1>10. TypeOK'
  <2>1. saved' \in [GroupNames -> Seq(Steps)]
    BY <1>2, <1>3, <1>5
  <2>2. \A g \in GroupNames : IsInjective(saved'[g])
    <3>1. IsInjective(kept)
      BY <1>5, <1>7, SMTT(30) DEF IsInjective
    <3>. QED
      BY <1>9, <3>1 DEF IInv, TypeOK
  <2>3. doomed' \subseteq Steps
    BY <1>8
  <2>. QED
    BY <1>1, <2>1, <2>2, <2>3 DEF IInv, TypeOK, Phases
<1>11. /\ CursorInv' /\ MemInv' /\ TrackerInv' /\ TrackedIsComplete'
       /\ LastInv' /\ DoneIsSaved'
  BY <1>1, SaveKeepsCore, TrackerIsReadable DEF training
<1>12. SavedInv'
  <2>1. \A g \in GroupNames : \A a, b \in DOMAIN saved'[g] :
          a < b => saved'[g][a] < saved'[g][b]
    BY <1>7, <1>9 DEF IInv, SavedInv
  <2>2. ASSUME NEW i \in DOMAIN Groups, NEW a \in DOMAIN saved'[Groups[i]]
        PROVE  \/ saved'[Groups[i]][a] <= durable
               \/ saved'[Groups[i]][a] = step /\ HasSaved(i)'
    <3>1. HasSaved(i)' <=> HasSaved(i)
      BY <1>1 DEF HasSaved, Driver
    <3>2. CASE Groups[i] = Saving
      BY <1>5, <1>6, <1>9, <3>2, GroupFacts
    <3>3. CASE Groups[i] # Saving
      BY <1>1, <1>9, <3>1, <3>3, GroupFacts DEF IInv, SavedInv, Busy
    <3>. QED
      BY <3>2, <3>3
  <2>. QED
    BY <1>1, <2>1, <2>2 DEF SavedInv
<1>13. DoomedInv'
  BY <1>1, <1>8 DEF DoomedInv
<1>14. CopiesInv'
  BY <1>1 DEF IInv, CopiesInv, HasSaved, Complete, SavePhases, Driver
<1>. QED
  BY <1>10, <1>11, <1>12, <1>13, <1>14 DEF IInv

LEMMA RemoveFilePreserves ==
  ASSUME IInv, NEW s \in Steps, NEW k \in Slots, RemoveFile(s, k)
  PROVE  IInv'
<1>. USE StepsAreNumbers
<1>1. /\ phase = "rotate" /\ phase' = "rotate" /\ phase \in SavePhases /\ s \in doomed
      /\ files' = [files EXCEPT ![Saving][s][k] = None]
      /\ UNCHANGED <<run, step, mem, loader, group, saved, doomed, progress, folders,
                     data, tracker, durable>>
  BY DEF RemoveFile, training, saving, SavePhases
<1>2. /\ Saving \in GroupNames /\ s # step /\ s # tracker
      /\ step \in Steps
  BY <1>1, SaveFacts
<1>3. files \in [GroupNames -> [Steps -> [Slots -> States \cup {None, Torn}]]]
  BY DEF IInv, TypeOK
<1>4. files' \in [GroupNames -> [Steps -> [Slots -> States \cup {None, Torn}]]]
  BY <1>1, <1>3
<1>5. \A g \in GroupNames, t \in Steps, j \in Slots :
        t # s => files'[g][t][j] = files[g][t][j]
  BY <1>1, <1>2, <1>3
<1>6. TypeOK'
  BY <1>1, <1>4 DEF IInv, TypeOK
<1>7. /\ CursorInv' /\ MemInv' /\ TrackerInv' /\ TrackedIsComplete'
      /\ LastInv' /\ DoneIsSaved'
  BY <1>1, <1>2, <1>5, SaveKeepsCore, TrackerIsReadable DEF training
<1>8. SavedInv' /\ DoomedInv'
  BY <1>1 DEF IInv, SavedInv, DoomedInv, HasSaved, Busy
<1>9. CopiesInv'
  BY <1>1, <1>2, <1>5, GroupFacts DEF IInv, CopiesInv, HasSaved, Complete, SavePhases, Driver
<1>. QED
  BY <1>6, <1>7, <1>8, <1>9 DEF IInv

LEMMA RotationEndsPreserves ==
  ASSUME IInv, RotationEnds
  PROVE  IInv'
<1>. USE StepsAreNumbers
<1>1. /\ phase = "rotate" /\ phase' = "write" /\ phase \in SavePhases
      /\ phase' \in SavePhases
      /\ doomed' = {} /\ progress' = NoProgress /\ folders' = folders \cup {step}
      /\ UNCHANGED <<run, step, mem, loader, group, saved, files, data, tracker, durable>>
  BY DEF RotationEnds, training, SavePhases
<1>2. step \in Steps
  BY <1>1, SaveFacts
<1>3. TypeOK'
  <2>1. progress' \in [Ranks -> 0..2 * Len(Contents)]
    BY <1>1, SlotFacts DEF NoProgress
  <2>. QED
    BY <1>1, <1>2, <2>1 DEF IInv, TypeOK, Phases
<1>4. /\ CursorInv' /\ MemInv' /\ TrackerInv' /\ TrackedIsComplete'
      /\ LastInv' /\ DoneIsSaved'
  BY <1>1, SaveKeepsCore, TrackerIsReadable DEF training
<1>5. SavedInv' /\ DoomedInv'
  BY <1>1 DEF IInv, SavedInv, DoomedInv, HasSaved, Busy, Driver
<1>6. CopiesInv'
  <2>1. \A r \in Ranks, c \in DOMAIN Contents : ~(2 * c <= progress'[r])
    BY <1>1, SlotFacts DEF NoProgress
  <2>2. \A i \in DOMAIN Groups : HasSaved(i)' <=> HasSaved(i)
    BY <1>1 DEF HasSaved, Driver
  <2>. QED
    BY <1>1, <2>1, <2>2 DEF IInv, CopiesInv, Complete, Driver
<1>. QED
  BY <1>3, <1>4, <1>5, <1>6 DEF IInv

LEMMA WriteFilePreserves ==
  ASSUME IInv, NEW r \in Ranks, WriteFile(r)
  PROVE  IInv'
<1>. USE StepsAreNumbers
<1>. DEFINE c == (progress[r] \div 2) + 1
            k == <<r, Contents[c]>>
            new == IF progress[r] % 2 = 0 THEN Torn ELSE mem[Saving][k]
<1>1. /\ phase = "write" /\ phase' = "write" /\ phase \in SavePhases /\ ~FilesDone(r)
      /\ files' = [files EXCEPT ![Saving][step][k] = new]
      /\ progress' = [progress EXCEPT ![r] = @ + 1]
      /\ UNCHANGED <<run, step, mem, loader, group, saved, doomed, folders, data,
                     tracker, durable>>
  BY DEF WriteFile, training, SavePhases
<1>2. /\ Saving \in GroupNames /\ step \in Steps /\ step # tracker
      /\ mem = Everywhere(StateOf(run, step)) /\ run \in 1..MaxCrashes + 1
      /\ group \in DOMAIN Groups
  BY <1>1, SaveFacts
<1>3. progress \in [Ranks -> 0..2 * Len(Contents)] /\ progress[r] < 2 * Len(Contents)
  <2>1. progress \in [Ranks -> 0..2 * Len(Contents)]
    BY DEF IInv, TypeOK
  <2>2. progress[r] # 2 * Len(Contents)
    BY <1>1 DEF FilesDone
  <2>3. progress[r] \in 0..2 * Len(Contents)
    BY <2>1
  <2>. QED
    BY <2>1, <2>2, <2>3, SlotFacts
<1>4. c \in DOMAIN Contents /\ k \in Slots
  <2>1. c \in 1..Len(Contents)
    BY <1>3, SlotFacts
  <2>. QED
    BY <2>1, SlotFacts
<1>5. mem[Saving][k] = StateOf(run, step) /\ mem[Saving][k] \in States
  BY <1>2, <1>4, StateType DEF Everywhere
<1>6. progress[r] + 1 = 2 * c \/ (progress[r] + 1 = 2 * c - 1 /\ progress[r] % 2 = 0)
  BY <1>3, SlotFacts
<1>. HIDE DEF k
<1>7. files \in [GroupNames -> [Steps -> [Slots -> States \cup {None, Torn}]]]
  BY DEF IInv, TypeOK
<1>8. files' \in [GroupNames -> [Steps -> [Slots -> States \cup {None, Torn}]]]
  <2>1. new \in States \cup {None, Torn}
    BY <1>5
  <2>. HIDE DEF new
  <2>. QED
    BY <1>1, <1>7, <2>1
<1>9. /\ files'[Saving][step][k] = new
      /\ \A g \in GroupNames, t \in Steps, j \in Slots :
           g # Saving \/ t # step \/ j # k => files'[g][t][j] = files[g][t][j]
  <2>. HIDE DEF new
  <2>. QED
    BY <1>1, <1>2, <1>4, <1>7
<1>10. TypeOK'
  <2>1. progress' \in [Ranks -> 0..2 * Len(Contents)]
    BY <1>1, <1>3, SlotFacts
  <2>. QED
    BY <1>1, <1>8, <2>1 DEF IInv, TypeOK
<1>11. /\ CursorInv' /\ MemInv' /\ TrackerInv' /\ TrackedIsComplete'
       /\ LastInv' /\ DoneIsSaved'
  BY <1>1, <1>2, <1>9, SaveKeepsCore, TrackerIsReadable DEF training
<1>12. SavedInv' /\ DoomedInv'
  BY <1>1 DEF IInv, SavedInv, DoomedInv, HasSaved, Busy
<1>13. CopiesInv'
  <2>1. ASSUME NEW i \in DOMAIN Groups, HasSaved(i)'
        PROVE  Complete(Groups[i], step, StateOf(run, step))'
    <3>1. HasSaved(i) /\ i < group
      BY <1>1, <2>1 DEF HasSaved, Driver
    <3>2. Groups[i] # Saving /\ Groups[i] \in GroupNames
      BY <1>2, <3>1, GroupFacts DEF Saving
    <3>3. Complete(Groups[i], step, StateOf(run, step))
      BY <1>1, <3>1 DEF IInv, CopiesInv
    <3>. QED
      BY <1>1, <1>2, <1>9, <3>2, <3>3 DEF Complete
  <2>2. ASSUME NEW q \in Ranks, NEW d \in DOMAIN Contents, 2 * d <= progress'[q]
        PROVE  files'[Saving][step][<<q, Contents[d]>>] = StateOf(run, step)
    <3>1. <<q, Contents[d]>> \in Slots /\ d \in Nat
      BY SlotFacts
    <3>2. CASE q = r /\ d = c
      <4>1. progress'[r] = progress[r] + 1
        BY <1>1, <1>3
      <4>2. progress[r] + 1 = 2 * c
        BY <1>3, <1>6, <2>2, <3>2, <4>1
      <4>3. new = mem[Saving][k]
        BY <1>3, <4>2
      <4>. QED
        BY <1>5, <1>9, <3>2, <4>3 DEF k
    <3>3. CASE ~(q = r /\ d = c)
      <4>1. <<q, Contents[d]>> # k
        BY <1>4, <3>3, SlotFacts DEF k
      <4>2. 2 * d <= progress[q]
        <5>1. CASE q # r
          BY <1>1, <1>3, <2>2, <5>1
        <5>2. CASE q = r
          <6>1. 2 * d <= progress[r] + 1 /\ d # c
            BY <1>1, <1>3, <2>2, <3>3, <5>2
          <6>. QED
            BY <1>3, <1>6, <3>1, <5>2, <6>1
        <5>. QED
          BY <5>1, <5>2
      <4>3. files[Saving][step][<<q, Contents[d]>>] = StateOf(run, step)
        BY <1>1, <4>2 DEF IInv, CopiesInv
      <4>. QED
        BY <1>2, <1>9, <3>1, <4>1, <4>3
    <3>. QED
      BY <3>2, <3>3
  <2>3. Saving' = Saving
    BY <1>1 DEF Saving
  <2>4. step \in folders
    BY <1>1 DEF IInv, CopiesInv
  <2>. QED
    BY <1>1, <2>1, <2>2, <2>3, <2>4 DEF CopiesInv, Driver
<1>. QED
  BY <1>10, <1>11, <1>12, <1>13 DEF IInv

LEMMA GroupSavedPreserves ==
  ASSUME IInv, GroupSaved
  PROVE  IInv'
<1>. USE StepsAreNumbers
<1>1. /\ phase = "write" /\ phase \in SavePhases /\ \A r \in Ranks : FilesDone(r)
      /\ saved' = [saved EXCEPT ![Saving] = Append(@, step)] /\ progress' = NoProgress
      /\ UNCHANGED <<run, step, mem, loader, doomed, folders, files, data, tracker,
                     durable>>
      /\ \/ group < Len(Groups) /\ group' = group + 1 /\ phase' = "save"
         \/ group = Len(Groups) /\ phase' = "data" /\ group' = group
      /\ phase' \in SavePhases
  BY DEF GroupSaved, AllRanksSaved, training, disk, SavePhases, Driver
<1>2. /\ Saving \in GroupNames /\ step \in Steps /\ group \in DOMAIN Groups
      /\ durable \in Nat /\ durable < step /\ saved \in [GroupNames -> Seq(Steps)]
  BY <1>1, SaveFacts DEF IInv, TypeOK
<1>3. group' \in DOMAIN Groups
  BY <1>1, <1>2, GroupFacts
<1>. DEFINE q == saved[Saving]
            longer == Append(q, step)
<1>4. /\ longer \in Seq(Steps) /\ q \in Seq(Steps)
      /\ DOMAIN q = 1..Len(q) /\ DOMAIN longer = 1..Len(q) + 1
      /\ Len(q) \in Nat
      /\ \A a \in DOMAIN q : longer[a] = q[a]
      /\ longer[Len(q) + 1] = step
  <2>1. q \in Seq(Steps)
    BY <1>2
  <2>. HIDE DEF q
  <2>. QED
    BY <1>2, <2>1, AppendProperties, LenProperties
<1>5. \A g \in GroupNames : saved'[g] = IF g = Saving THEN longer ELSE saved[g]
  BY <1>1, <1>2
<1>. HIDE DEF q, longer
<1>6. /\ \A a \in DOMAIN q : q[a] \in Steps /\ q[a] <= durable
      /\ \A a, b \in DOMAIN q : a < b => q[a] < q[b]
  <2>1. ~HasSaved(group)
    BY <1>1, <1>2, GroupFacts DEF HasSaved, Driver
  <2>2. \A a \in DOMAIN q : q[a] <= durable
    BY <1>1, <1>2, <2>1 DEF IInv, SavedInv, Saving, Busy, q
  <2>3. \A a, b \in DOMAIN q : a < b => q[a] < q[b]
    BY <1>2 DEF IInv, SavedInv, q
  <2>. QED
    BY <1>4, <2>2, <2>3
<1>7. \A a, b \in DOMAIN longer :
        a < b => longer[a] < longer[b]
  <2>. SUFFICES ASSUME NEW a \in 1..Len(q) + 1, NEW b \in 1..Len(q) + 1, a < b
                PROVE  longer[a] < longer[b]
    BY <1>4
  <2>1. a \in DOMAIN q
    BY <1>4
  <2>2. CASE b \in DOMAIN q
    BY <1>4, <1>6, <2>1, <2>2
  <2>3. CASE b = Len(q) + 1
    BY <1>2, <1>4, <1>6, <2>1, <2>3
  <2>4. b \in 1..Len(q) \/ b = Len(q) + 1
    <3>1. Len(q) \in Nat
      BY <1>4
    <3>. QED
      BY <3>1
  <2>. QED
    BY <1>4, <2>2, <2>3, <2>4
<1>8. TypeOK'
  <2>1. saved' \in [GroupNames -> Seq(Steps)]
    BY <1>1, <1>2, <1>4 DEF q
  <2>2. \A g \in GroupNames : IsInjective(saved'[g])
    <3>1. IsInjective(longer)
      <4>1. DOMAIN longer \subseteq Int /\ \A a \in DOMAIN longer : longer[a] \in Int
        BY <1>4
      <4>2. ASSUME NEW a \in DOMAIN longer, NEW b \in DOMAIN longer,
                   longer[a] = longer[b], a # b
            PROVE  FALSE
        <5>1. a \in Int /\ b \in Int /\ longer[a] \in Int /\ longer[b] \in Int
          BY <4>1
        <5>2. a < b \/ b < a
          BY <4>2, <5>1
        <5>3. longer[a] < longer[b] \/ longer[b] < longer[a]
          BY <1>7, <5>2
        <5>. QED
          BY <4>2, <5>1, <5>3
      <4>. QED
        BY <4>2 DEF IsInjective
    <3>. QED
      BY <1>5, <3>1 DEF IInv, TypeOK
  <2>3. progress' \in [Ranks -> 0..2 * Len(Contents)]
    BY <1>1, SlotFacts DEF NoProgress
  <2>. QED
    BY <1>1, <1>3, <2>1, <2>2, <2>3 DEF IInv, TypeOK, Phases
<1>9. /\ CursorInv' /\ MemInv' /\ TrackerInv' /\ TrackedIsComplete'
      /\ LastInv' /\ DoneIsSaved'
  BY <1>1, SaveKeepsCore, TrackerIsReadable DEF training
<1>10. \A i \in DOMAIN Groups : HasSaved(i)' <=> HasSaved(i) \/ i = group
  BY <1>1, <1>2, GroupFacts, SMTT(30) DEF HasSaved, Driver
<1>11. SavedInv'
  <2>1. \A g \in GroupNames : \A a, b \in DOMAIN saved'[g] :
          a < b => saved'[g][a] < saved'[g][b]
    BY <1>5, <1>7 DEF IInv, SavedInv
  <2>2. ASSUME NEW i \in DOMAIN Groups, NEW a \in DOMAIN saved'[Groups[i]]
        PROVE  \/ saved'[Groups[i]][a] <= durable
               \/ saved'[Groups[i]][a] = step /\ HasSaved(i)'
    <3>1. CASE Groups[i] = Saving
      <4>1. i = group
        BY <1>2, <3>1, GroupFacts DEF Saving
      <4>2. saved'[Groups[i]] = longer
        BY <1>2, <1>5, <3>1
      <4>3. a \in DOMAIN q \/ a = Len(q) + 1
        BY <1>4, <4>2
      <4>. QED
        BY <1>4, <1>6, <1>10, <4>1, <4>2, <4>3
    <3>2. CASE Groups[i] # Saving
      BY <1>1, <1>5, <1>10, <3>2, GroupFacts DEF IInv, SavedInv, Busy
    <3>. QED
      BY <3>1, <3>2
  <2>. QED
    BY <1>1, <2>1, <2>2 DEF SavedInv, SavePhases, Driver
<1>12. DoomedInv'
  BY <1>1 DEF IInv, DoomedInv
<1>13. CopiesInv'
  <2>1. Complete(Saving, step, StateOf(run, step))
    <3>. SUFFICES ASSUME NEW k \in Slots
                  PROVE  files[Saving][step][k] = StateOf(run, step)
      BY DEF Complete
    <3>1. PICK r \in Ranks, c \in DOMAIN Contents : k = <<r, Contents[c]>>
      BY SlotFacts
    <3>2. 2 * c <= progress[r]
      BY <1>1, SlotFacts DEF FilesDone
    <3>. QED
      BY <1>1, <3>1, <3>2 DEF IInv, CopiesInv
  <2>2. \A i \in DOMAIN Groups : HasSaved(i)' =>
          Complete(Groups[i], step, StateOf(run, step))
    BY <1>1, <1>10, <2>1 DEF IInv, CopiesInv, Saving
  <2>3. step \in folders
    BY <1>1 DEF IInv, CopiesInv
  <2>. QED
    BY <1>1, <2>2, <2>3 DEF CopiesInv, Complete, Driver
<1>. QED
  BY <1>8, <1>9, <1>11, <1>12, <1>13 DEF IInv

-------------------------------------------------------------------------------
(* The driver's own files.                                                 *)

\* The dataloader's file is not the tracked one.
LEMMA DataPreserves ==
  ASSUME IInv, OpenData \/ CloseData
  PROVE  IInv'
<1>. USE StepsAreNumbers
<1>1. PICK d \in {Torn, loader} : data' = [data EXCEPT ![step] = d]
  BY DEF OpenData, CloseData
<1>2. /\ phase \in SavePhases \ {"trackerOpen"} /\ phase' \in SavePhases
      /\ phase \in Driver /\ phase' \in {"dataOpen", "tracker"}
      /\ phase' = "tracker" => d = loader \/ data' = [data EXCEPT ![step] = loader]
      /\ UNCHANGED <<run, step, mem, loader, group, saved, doomed, progress, folders,
                     files, tracker, durable>>
  BY DEF OpenData, CloseData, training, saving, SavePhases, Driver
<1>3. /\ step \in Steps /\ step # tracker /\ loader = step
      /\ data \in [Steps -> (0..LoopSteps) \cup {None, Torn}]
  BY <1>2, SaveFacts DEF IInv, TypeOK
<1>4. TypeOK'
  <2>1. data' \in [Steps -> (0..LoopSteps) \cup {None, Torn}]
    BY <1>1, <1>3
  <2>. QED
    BY <1>2, <2>1 DEF IInv, TypeOK, Phases
<1>5. /\ CursorInv' /\ MemInv' /\ TrackerInv' /\ TrackedIsComplete'
      /\ LastInv' /\ DoneIsSaved'
  <2>1. tracker \in Steps => data'[tracker] = data[tracker]
    BY <1>1, <1>3
  <2>. QED
    BY <1>2, <2>1, SaveKeepsCore, TrackerIsReadable DEF training
<1>6. \A i \in DOMAIN Groups : HasSaved(i)' <=> HasSaved(i)
  BY <1>2 DEF HasSaved, Driver
<1>7. SavedInv' /\ DoomedInv'
  BY <1>2, <1>6 DEF IInv, SavedInv, DoomedInv, Busy, Driver
<1>8. CopiesInv'
  <2>1. phase' = "tracker" => data'[step] = step
    BY <1>2, <1>3, <1>1
  <2>. QED
    BY <1>2, <1>6, <2>1 DEF IInv, CopiesInv, Complete, Driver
<1>. QED
  BY <1>4, <1>5, <1>7, <1>8 DEF IInv

LEMMA OpenTrackerPreserves ==
  ASSUME IInv, OpenTracker
  PROVE  IInv'
<1>. USE StepsAreNumbers
<1>1. /\ phase = "tracker" /\ phase' = "trackerOpen" /\ tracker' = Torn
      /\ UNCHANGED <<run, step, mem, loader, group, saved, doomed, progress, folders,
                     files, data, durable>>
  BY DEF OpenTracker, training, saving
<1>2. TypeOK'
  BY <1>1 DEF IInv, TypeOK, Phases
<1>3. CursorInv' /\ MemInv'
  BY <1>1 DEF IInv, CursorInv, MemInv, Busy, SavePhases, Driver
<1>4. TrackerInv' /\ TrackedIsComplete'
  BY <1>1 DEF IInv, TrackerInv, TrackedIsComplete, Busy, SavePhases, Driver
<1>5. LastInv' /\ DoneIsSaved'
  BY <1>1 DEF LastInv, DoneIsSaved
<1>6. SavedInv' /\ DoomedInv'
  BY <1>1 DEF IInv, SavedInv, DoomedInv, HasSaved, Busy, SavePhases, Driver
<1>7. CopiesInv'
  BY <1>1 DEF IInv, CopiesInv, HasSaved, Complete, SavePhases, Driver
<1>. QED
  BY <1>2, <1>3, <1>4, <1>5, <1>6, <1>7 DEF IInv

\* The save has ended: what the tracker names from now on is what it wrote.
LEMMA CloseTrackerPreserves ==
  ASSUME IInv, CloseTracker
  PROVE  IInv'
<1>. USE StepsAreNumbers
<1>1. /\ phase = "trackerOpen" /\ phase' = "end" /\ phase \in SavePhases
      /\ tracker' = step /\ durable' = step
      /\ UNCHANGED <<run, step, mem, loader, group, saved, doomed, progress, folders,
                     files, data>>
  BY DEF CloseTracker, training, saving, SavePhases, Driver
<1>2. /\ step \in Steps /\ run \in 1..MaxCrashes + 1 /\ durable \in Nat /\ durable < step
  BY <1>1, SaveFacts
<1>3. \A g \in GroupNames : Complete(g, step, StateOf(run, step))
  <2>1. \A i \in DOMAIN Groups : Complete(Groups[i], step, StateOf(run, step))
    BY <1>1 DEF IInv, CopiesInv, HasSaved, Driver
  <2>. QED
    BY <2>1, GroupFacts
<1>4. step \in folders /\ data[step] = step
  BY <1>1 DEF IInv, CopiesInv, Driver
<1>5. TypeOK'
  BY <1>1, <1>2 DEF IInv, TypeOK, Phases
<1>6. CursorInv' /\ MemInv'
  BY <1>1 DEF IInv, CursorInv, MemInv, Busy, SavePhases, Driver
<1>7. TrackerInv'
  BY <1>1, <1>2 DEF TrackerInv
<1>8. TrackedIsComplete'
  <2>1. run \in 1..run
    BY <1>2
  <2>. QED
    BY <1>1, <1>3, <1>4, <2>1 DEF TrackedIsComplete, Complete
<1>9. LastInv' /\ DoneIsSaved'
  BY <1>1, <1>3 DEF LastInv, DoneIsSaved, Complete
<1>10. SavedInv'
  <2>1. \A g \in GroupNames : \A a, b \in DOMAIN saved[g] :
          a < b => saved[g][a] < saved[g][b]
    BY DEF IInv, SavedInv
  <2>2. \A i \in DOMAIN Groups : \A a \in DOMAIN saved[Groups[i]] :
          saved[Groups[i]][a] <= durable \/ saved[Groups[i]][a] = step
    BY <1>1 DEF IInv, SavedInv, Busy
  <2>3. \A i \in DOMAIN Groups : \A a \in DOMAIN saved[Groups[i]] :
          saved[Groups[i]][a] \in Steps
    BY GroupFacts, SMTT(30) DEF IInv, TypeOK
  <2>4. \A i \in DOMAIN Groups : \A a \in DOMAIN saved[Groups[i]] :
          saved[Groups[i]][a] <= step
    BY <1>2, <2>2, <2>3
  <2>. QED
    BY <1>1, <2>1, <2>4 DEF SavedInv
<1>11. DoomedInv'
  BY <1>1 DEF IInv, DoomedInv
<1>12. CopiesInv'
  BY <1>1 DEF CopiesInv, SavePhases, Driver
<1>. QED
  BY <1>5, <1>6, <1>7, <1>8, <1>9, <1>10, <1>11, <1>12 DEF IInv

-------------------------------------------------------------------------------
(* The theorems.                                                           *)

LEMMA NextPreserves ==
  ASSUME MaxKeep # 1, IInv, [Next]_vars
  PROVE  IInv'
<1>1. CASE Start
  BY <1>1, StartPreserves
<1>2. CASE Train
  BY <1>2, TrainPreserves
<1>3. CASE SaveGroups
  <2>1. CASE \E s \in Steps, k \in Slots : RemoveFile(s, k)
    BY <2>1, RemoveFilePreserves
  <2>2. CASE \E r \in Ranks : WriteFile(r)
    BY <2>2, WriteFilePreserves
  <2>3. CASE BeginSave \/ RotationEnds \/ GroupSaved
    BY <2>3, BeginSavePreserves, RotationEndsPreserves, GroupSavedPreserves
  <2>. QED
    BY <1>3, <2>1, <2>2, <2>3 DEF SaveGroups
<1>4. CASE SaveDriver
  BY <1>4, DataPreserves, OpenTrackerPreserves, CloseTrackerPreserves DEF SaveDriver
<1>5. CASE Crash
  BY <1>5, CrashPreserves
<1>6. CASE UNCHANGED vars
  <2>1. UNCHANGED <<phase, run, step, mem, loader, group, saved, doomed, progress,
                    folders, files, data, tracker, durable>>
    BY <1>6 DEF vars, training, saving, disk
  <2>2. TypeOK' /\ CursorInv' /\ MemInv' /\ TrackerInv' /\ TrackedIsComplete'
    BY <2>1 DEF IInv, TypeOK, CursorInv, MemInv, TrackerInv, TrackedIsComplete
  <2>3. SavedInv' /\ DoomedInv' /\ CopiesInv' /\ LastInv' /\ DoneIsSaved'
    BY <2>1 DEF IInv, SavedInv, DoomedInv, CopiesInv, LastInv, DoneIsSaved, HasSaved,
                Complete, Saving, IsLastStep
  <2>. QED
    BY <2>2, <2>3 DEF IInv
<1>. QED
  BY <1>1, <1>2, <1>3, <1>4, <1>5, <1>6 DEF Next, Work, Over

\* IInv holds in every reachable state, when None or more than one checkpoint is
\* kept.
THEOREM Inductive ==
  ASSUME MaxKeep # 1
  PROVE  Spec => []IInv
<1>1. Init => IInv
  BY InitIsInv
<1>2. IInv /\ [Next]_vars => IInv'
  BY NextPreserves
<1>. QED
  BY <1>1, <1>2, PTL DEF Spec

\* The cursors of fit and of the save stay in range, and no group's
\* previous_saved_paths ever holds a path twice.
THEOREM TypeCorrect ==
  ASSUME MaxKeep # 1
  PROVE  Spec => []TypeOK
<1>1. IInv => TypeOK
  BY DEF IInv
<1>. QED
  BY <1>1, Inductive, PTL

\* Whatever a crash interrupts, the checkpoint that the tracker of _save_checkpoint
\* names is whole: every rank's files of every group, from one run and this step,
\* and the dataloader's state at this step.
THEOREM TrackedIsWhole ==
  ASSUME MaxKeep # 1
  PROVE  Spec => []TrackedIsComplete
<1>1. IInv => TrackedIsComplete
  BY DEF IInv
<1>. QED
  BY <1>1, Inductive, PTL

\* _load_checkpoint never mixes: a step of fit starts from weights and optimizers of
\* one run and step, in all groups and ranks, and from the batch that comes next.
THEOREM ResumesConsistently ==
  ASSUME MaxKeep # 1
  PROVE  Spec => []ResumeIsConsistent
<1>1. IInv => ResumeIsConsistent
  BY DEF IInv, MemInv, ResumeIsConsistent
<1>. QED
  BY <1>1, Inductive, PTL

\* What fit returns with is saved: the last step, by whatever run and however often
\* the job was killed, has a complete checkpoint, and the tracker names it.
THEOREM ResultIsSaved ==
  ASSUME MaxKeep # 1
  PROVE  Spec => []DoneIsSaved
<1>1. IInv => DoneIsSaved
  BY DEF IInv
<1>. QED
  BY <1>1, Inductive, PTL

\* A start raises only for a tracker that a crash has left empty: no checkpoint that
\* the tracker names lacks a file or holds a torn one.
THEOREM RestartsSucceed ==
  ASSUME MaxKeep # 1
  PROVE  Spec => []RestartSucceeds
<1>. USE StepsAreNumbers
<1>1. Init => RestartSucceeds
  BY DEF Init, RestartSucceeds
<1>2. ASSUME IInv, RestartSucceeds, [Next]_vars
      PROVE  RestartSucceeds'
  <2>1. CASE ResumeRaises
    <3>1. tracker' = tracker
      BY <2>1 DEF ResumeRaises, disk
    <3>. SUFFICES ASSUME tracker # Torn PROVE FALSE
      BY <3>1 DEF RestartSucceeds
    <3>2. LatestCheckpoint = tracker /\ tracker \in Steps /\ ~Loadable(tracker)
      BY <1>2, <2>1, LatestFacts DEF ResumeRaises
    <3>3. data[tracker] = tracker
      BY <1>2, <3>2 DEF IInv, TrackedIsComplete
    <3>4. PICK n \in 1..run : \A g \in GroupNames, k \in Slots :
            files[g][tracker][k] = StateOf(n, tracker)
      BY <1>2, <3>2 DEF IInv, TrackedIsComplete
    <3>5. n \in 0..MaxCrashes + 1 /\ tracker \in 0..LoopSteps
      BY <1>2, <3>2, <3>4 DEF IInv, TypeOK
    <3>6. StateOf(n, tracker) \notin {None, Torn}
      BY <3>5, StateType, FileAssumption
    <3>. QED
      BY <3>2, <3>3, <3>4, <3>6 DEF Loadable
  <2>2. CASE UNCHANGED vars
    BY <1>2, <2>2 DEF vars, disk, RestartSucceeds
  <2>3. CASE Next /\ ~ResumeRaises /\ ~Over
    <3>1. CASE \E s \in Steps, k \in Slots : RemoveFile(s, k)
      BY <3>1 DEF RemoveFile, RestartSucceeds
    <3>2. CASE \E r \in Ranks : WriteFile(r)
      BY <3>2 DEF WriteFile, RestartSucceeds
    <3>3. CASE BeginSave \/ RotationEnds \/ GroupSaved \/ SaveDriver \/ Crash
      BY <3>3 DEF BeginSave, RotationEnds, GroupSaved, SaveDriver, OpenData, CloseData,
                  OpenTracker, CloseTracker, Crash, RestartSucceeds
    <3>4. CASE StartFromScratch \/ Resume \/ Train
      BY <3>4 DEF StartFromScratch, Resume, EnterLoop, Train, TrainStep,
                  TrainStepAndSave, EndOfStep, RestartSucceeds
    <3>. QED
      BY <2>3, <3>1, <3>2, <3>3, <3>4 DEF Next, Work, Start, SaveGroups
  <2>. QED
    BY <1>2, <2>1, <2>2, <2>3 DEF Over
<1>. QED
  BY <1>1, <1>2, Inductive, PTL DEF Spec

-------------------------------------------------------------------------------
(* How much work a crash costs.                                            *)

\* The remainder counts the steps since the last multiple.
LEMMA NextMod ==
  ASSUME NEW f \in Nat \ {0}, NEW x \in Nat \ {0}, x % f # 0
  PROVE  x % f = ((x - 1) % f) + 1
<1>. DEFINE q == x \div f
            p == (x - 1) \div f
            r == x % f
            s == (x - 1) % f
<1>1. q \in Int /\ r \in 0..f - 1 /\ x = f * q + r
  OBVIOUS
<1>2. p \in Int /\ s \in 0..f - 1 /\ x - 1 = f * p + s
  OBVIOUS
<1>3. r # 0
  OBVIOUS
<1>. HIDE DEF q, p, r, s
<1>4. f * (q - p) = s + 1 - r
  <2>1. f * (q - p) = f * q - f * p
    BY <1>1, <1>2
  <2>. QED
    BY <1>1, <1>2, <2>1
<1>5. ~(q - p >= 1)
  <2>. SUFFICES ASSUME q - p >= 1 PROVE FALSE
    OBVIOUS
  <2>1. f * (q - p) >= f
    BY <1>1, <1>2
  <2>. QED
    BY <1>1, <1>2, <1>3, <1>4, <2>1
<1>6. ~(q - p <= -1)
  <2>. SUFFICES ASSUME q - p <= -1 PROVE FALSE
    OBVIOUS
  <2>1. f * (q - p) <= -f
    BY <1>1, <1>2
  <2>. QED
    BY <1>1, <1>2, <1>3, <1>4, <2>1
<1>7. q = p
  BY <1>1, <1>2, <1>5, <1>6
<1>. QED
  BY <1>1, <1>2, <1>7 DEF r, s

\* No step since the last save that has ended was due for one.
LagInv ==
  phase \in Busy =>
    \/ phase = "end" /\ durable = step
    \/ /\ step - durable <= ((step - 1) % SaveFreq) + 1
       /\ phase = "end" => step % SaveFreq # 0

\* Where the step and the tracker stay, and no step ends.
LEMMA LagStays ==
  ASSUME LagInv, UNCHANGED <<step, durable>>,
         phase \in Busy \ {"end"}, phase' # "end" \/ step % SaveFreq # 0
  PROVE  LagInv'
  BY DEF LagInv

LEMMA LagPreserved ==
  ASSUME MaxKeep # 1, IInv, LagInv, [Next]_vars
  PROVE  LagInv'
<1>. USE StepsAreNumbers
<1>1. CASE StartFromScratch \/ Resume
  <2>1. PICK s \in 0..LoopSteps : EnterLoop(s) /\ durable = s /\ phase = "down"
    <3>1. CASE StartFromScratch
      <4>1. durable = 0
        BY <3>1, LatestFacts DEF StartFromScratch
      <4>. QED
        BY <3>1, <4>1 DEF StartFromScratch
    <3>2. CASE Resume
      <4>1. LatestCheckpoint = tracker /\ tracker \in Steps /\ durable = tracker
        BY <3>2, LatestFacts DEF Resume, IInv, TrackerInv
      <4>. QED
        BY <3>2, <4>1 DEF Resume
    <3>. QED
      BY <1>1, <3>1, <3>2
  <2>2. step' = s + 1 /\ durable' = s /\ phase' \in {"step", "done"}
    BY <2>1 DEF EnterLoop, disk
  <2>3. (step' - 1) % SaveFreq >= 0
    BY <2>2, CheckpointAssumption
  <2>4. (step' - 1) % SaveFreq \in Int
    BY <2>2, CheckpointAssumption
  <2>5. step' - durable' = 1
    BY <2>2
  <2>. QED
    BY <2>2, <2>3, <2>4, <2>5 DEF LagInv
<1>2. CASE ResumeRaises \/ Crash
  BY <1>2 DEF ResumeRaises, Crash, LagInv, Busy, SavePhases, Driver
<1>3. CASE TrainStep \/ TrainStepAndSave
  <2>1. phase = "step" /\ UNCHANGED <<step, durable>>
    BY <1>3 DEF TrainStep, TrainStepAndSave, Trained, disk
  <2>2. phase' # "end" \/ step % SaveFreq # 0
    BY <1>3 DEF TrainStep, TrainStepAndSave, Due
  <2>. QED
    BY <2>1, <2>2, LagStays DEF Busy
<1>4. CASE EndOfStep
  <2>1. phase = "end" /\ step' = step + 1 /\ durable' = durable /\ phase' \in {"step", "done"}
    BY <1>4 DEF EndOfStep, disk
  <2>2. step \in Nat \ {0} /\ durable \in Nat /\ SaveFreq \in Nat \ {0}
    BY <2>1, CheckpointAssumption DEF IInv, TypeOK, CursorInv, Busy
  <2>3. step' - 1 = step
    BY <2>1, <2>2
  <2>4. step % SaveFreq \in Nat
    BY <2>2
  <2>5. step - durable <= step % SaveFreq
    <3>1. CASE durable = step
      BY <2>2, <2>4, <3>1
    <3>2. CASE durable # step
      <4>1. step - durable <= ((step - 1) % SaveFreq) + 1 /\ step % SaveFreq # 0
        BY <2>1, <3>2 DEF LagInv, Busy
      <4>2. step % SaveFreq = ((step - 1) % SaveFreq) + 1
        BY <2>2, <4>1, NextMod
      <4>. QED
        BY <4>1, <4>2
    <3>. QED
      BY <3>1, <3>2
  <2>6. step' - durable' <= (step % SaveFreq) + 1
    BY <2>1, <2>2, <2>4, <2>5
  <2>. QED
    BY <2>1, <2>3, <2>6 DEF LagInv
<1>5. CASE SaveGroups
  <2>1. /\ phase \in Busy \ {"end"} /\ phase' # "end" /\ UNCHANGED <<step, durable>>
    <3>1. CASE \E s \in Steps, k \in Slots : RemoveFile(s, k)
      BY <3>1 DEF RemoveFile, training, Busy, SavePhases
    <3>2. CASE \E r \in Ranks : WriteFile(r)
      BY <3>2 DEF WriteFile, training, Busy, SavePhases
    <3>3. CASE BeginSave \/ RotationEnds \/ GroupSaved
      BY <3>3 DEF BeginSave, RotationEnds, GroupSaved, AllRanksSaved, training, disk,
                  Busy, SavePhases
    <3>. QED
      BY <1>5, <3>1, <3>2, <3>3 DEF SaveGroups
  <2>. QED
    BY <2>1, LagStays
<1>6. CASE OpenData \/ CloseData \/ OpenTracker
  <2>1. /\ phase \in Busy \ {"end"} /\ phase' # "end" /\ UNCHANGED <<step, durable>>
    BY <1>6 DEF OpenData, CloseData, OpenTracker, training, Busy, SavePhases, Driver
  <2>. QED
    BY <2>1, LagStays
<1>7. CASE CloseTracker
  BY <1>7 DEF CloseTracker, training, LagInv
<1>8. CASE UNCHANGED vars
  BY <1>8 DEF vars, training, disk, LagInv
<1>. QED
  BY <1>1, <1>2, <1>3, <1>4, <1>5, <1>6, <1>7, <1>8
  DEF Next, Work, Start, Train, SaveDriver, Over

\* A crash costs at most save_freq steps: a run that is up stands at most that far
\* after the checkpoint it would be restarted from, through any number of restarts.
THEOREM LossIsBounded ==
  ASSUME MaxKeep # 1
  PROVE  Spec => []LostWorkIsBounded
<1>1. Init => LagInv
  BY DEF Init, LagInv, Busy, SavePhases, Driver
<1>2. IInv /\ LagInv /\ [Next]_vars => LagInv'
  BY LagPreserved
<1>3. IInv /\ LagInv => LostWorkIsBounded
  <2>. SUFFICES ASSUME IInv, LagInv, phase \notin {"down", "failed", "done"}
                PROVE  durable <= step /\ step <= durable + SaveFreq
    BY DEF LostWorkIsBounded
  <2>1. phase \in Busy
    BY DEF IInv, TypeOK, Phases, Busy, SavePhases, Driver
  <2>2. step \in Nat \ {0} /\ durable \in Nat /\ SaveFreq \in Nat \ {0}
    BY <2>1, StepsAreNumbers, CheckpointAssumption DEF IInv, TypeOK, CursorInv
  <2>3. durable <= step
    BY <2>1, <2>2 DEF IInv, TrackerInv
  <2>4. (step - 1) % SaveFreq \in 0..SaveFreq - 1
    BY <2>2
  <2>5. step = durable \/ step - durable <= ((step - 1) % SaveFreq) + 1
    BY <2>1 DEF LagInv
  <2>. QED
    BY <2>2, <2>3, <2>4, <2>5
<1>. QED
  BY <1>1, <1>2, <1>3, Inductive, PTL DEF Spec
-------------------------------------------------------------------------------
(* The disk.  This part does not need MaxKeep # 1, nor IInv.               *)

OnDisk(g) == {s \in Steps : \E k \in Slots : files[g][s][k] # None}

\* The checkpoints of a group that this run answers for: its paths, those it is
\* removing and the one it is writing.
Kept(g) ==
  Range(saved[g])
    \cup (IF phase = "rotate" /\ g = Saving THEN doomed ELSE {})
    \cup (IF phase = "write" /\ g = Saving THEN {step} ELSE {})

\* The runs whose paths are forgotten.
Ended == IF phase \in {"down", "failed"} THEN run ELSE run - 1

DiskTypes ==
  /\ phase \in Phases /\ run \in Nat /\ (phase \notin {"down", "failed"} => run >= 1)
  /\ phase \in Busy => step \in Steps
  /\ group \in DOMAIN Groups /\ saved \in [GroupNames -> Seq(Steps)]
  /\ doomed \subseteq Steps /\ folders \subseteq Steps
  /\ DOMAIN files = GroupNames
  /\ \A g \in GroupNames : DOMAIN files[g] = Steps
  /\ \A g \in GroupNames, s \in Steps : DOMAIN files[g][s] = Slots

KeptInv ==
  /\ \A g \in GroupNames : Len(saved[g]) <= MaxKeep
  /\ phase \in {"down", "failed"} => \A g \in GroupNames : saved[g] = << >>
  /\ phase \in {"rotate", "write"} => Len(saved[Saving]) < MaxKeep
  /\ phase = "rotate" => Cardinality(Range(saved[Saving]) \cup doomed) <= MaxKeep

\* What the ended runs have left, each at most MaxKeep, and what this one keeps.
LeftInv ==
  \A g \in GroupNames : \E left \in SUBSET Steps :
    Cardinality(left) <= MaxKeep * Ended /\ OnDisk(g) \subseteq left \cup Kept(g)

DiskInv == DiskTypes /\ KeptInv /\ LeftInv

LEMMA StepsAreFinite ==
  ASSUME NEW S \in SUBSET Steps
  PROVE  IsFiniteSet(S) /\ Cardinality(S) \in Nat
<1>1. IsFiniteSet(Steps)
  BY StepsAreNumbers, FS_Interval
<1>. QED
  BY <1>1, FS_Subset, FS_CardinalityType

\* A sequence has at most as many values as places.
LEMMA RangeIsBounded ==
  ASSUME NEW q \in Seq(Steps)
  PROVE  Range(q) \in SUBSET Steps /\ Cardinality(Range(q)) <= Len(q)
<1>. DEFINE T == Range(q)
            D == 1..Len(q)
<1>1. Len(q) \in Nat /\ DOMAIN q = D /\ q \in [D -> Steps]
  BY LenProperties
<1>2. T = {q[i] : i \in D}
  BY <1>1 DEF Range
<1>3. q \in Surjection(D, T)
  <2>. HIDE DEF D
  <2>. QED BY <1>1, <1>2 DEF Surjection
<1>4. IsFiniteSet(D) /\ Cardinality(D) = Len(q)
  BY <1>1, FS_Interval
<1>5. T \in SUBSET Steps
  <2>. HIDE DEF D
  <2>. QED BY <1>1, <1>2
<1>. HIDE DEF T, D
<1>6. Cardinality(T) <= Cardinality(D)
  BY <1>3, <1>4, FS_Surjection
<1>. QED
  BY <1>4, <1>5, <1>6 DEF T

LEMMA SavingIsAGroup ==
  ASSUME DiskTypes
  PROVE  Saving \in GroupNames
BY GroupFacts DEF DiskTypes, Saving

\* A run answers for at most MaxKeep checkpoints of a group, also while it rotates
\* and writes.
LEMMA KeptIsBounded ==
  ASSUME DiskTypes, KeptInv, NEW g \in GroupNames
  PROVE  Kept(g) \in SUBSET Steps /\ Cardinality(Kept(g)) <= MaxKeep
<1>. USE StepsAreNumbers
<1>. DEFINE T == Range(saved[g])
<1>1. saved[g] \in Seq(Steps) /\ doomed \in SUBSET Steps
  BY DEF DiskTypes
<1>2. T \in SUBSET Steps /\ Cardinality(T) <= Len(saved[g]) /\ Len(saved[g]) \in Nat
  BY <1>1, RangeIsBounded, LenProperties
<1>3. IsFiniteSet(T) /\ Cardinality(T) \in Nat
  BY <1>2, StepsAreFinite
<1>4. Len(saved[g]) <= MaxKeep
  BY DEF KeptInv
<1>5. CASE phase = "rotate" /\ g = Saving
  <2>1. Kept(g) = Range(saved[Saving]) \cup doomed
    BY <1>5 DEF Kept
  <2>. QED
    BY <1>1, <1>2, <1>5, <2>1 DEF KeptInv
<1>6. CASE phase = "write" /\ g = Saving
  <2>1. Kept(g) = T \cup {step} /\ step \in Steps
    BY <1>6 DEF Kept, DiskTypes, Busy, SavePhases
  <2>2. Cardinality(T) < MaxKeep
    <3>1. Len(saved[g]) < MaxKeep
      BY <1>6 DEF KeptInv
    <3>. HIDE DEF T
    <3>. QED BY <1>2, <1>3, <3>1
  <2>. HIDE DEF T
  <2>3. Cardinality(T \cup {step}) <= Cardinality(T) + 1
    <3>1. Cardinality(T \cup {step}) = IF step \in T THEN Cardinality(T)
                                       ELSE Cardinality(T) + 1
      BY <1>3, FS_AddElement
    <3>. HIDE DEF T
    <3>. QED BY <1>3, <3>1
  <2>4. T \cup {step} \in SUBSET Steps /\ Cardinality(T \cup {step}) \in Nat
    BY <1>2, <2>1, StepsAreFinite
  <2>5. Cardinality(T \cup {step}) <= MaxKeep
    BY <1>3, <2>2, <2>3, <2>4
  <2>. QED
    BY <2>1, <2>4, <2>5
<1>7. CASE ~(phase \in {"rotate", "write"} /\ g = Saving)
  <2>1. Kept(g) = T
    BY <1>7 DEF Kept
  <2>. HIDE DEF T
  <2>. QED
    BY <1>2, <1>3, <1>4, <2>1
<1>. QED
  BY <1>5, <1>6, <1>7

\* Nothing is left that was not there before, and no fewer runs have ended.
LEMMA NothingLeft ==
  ASSUME LeftInv, Ended' = Ended,
         \A g \in GroupNames : OnDisk(g)' \subseteq OnDisk(g) \cup Kept(g)',
         \A g \in GroupNames : OnDisk(g)' \cap Kept(g) \subseteq Kept(g)'
  PROVE  LeftInv'
<1>. SUFFICES ASSUME NEW g \in GroupNames
              PROVE  \E left \in SUBSET Steps :
                       /\ Cardinality(left) <= MaxKeep * Ended'
                       /\ OnDisk(g)' \subseteq left \cup Kept(g)'
  BY DEF LeftInv
<1>1. PICK left \in SUBSET Steps :
        Cardinality(left) <= MaxKeep * Ended /\ OnDisk(g) \subseteq left \cup Kept(g)
  BY DEF LeftInv
<1>2. OnDisk(g)' \subseteq left \cup Kept(g)'
  BY <1>1
<1>. QED
  BY <1>1, <1>2

LEMMA DiskInit ==
  ASSUME Init
  PROVE  DiskInv
<1>. USE StepsAreNumbers
<1>1. DiskTypes
  BY GroupFacts, EmptySeq DEF Init, DiskTypes, Phases, Busy, SavePhases, Driver
<1>2. KeptInv
  BY EmptySeq DEF Init, KeptInv
<1>3. LeftInv
  <2>. SUFFICES ASSUME NEW g \in GroupNames
                PROVE  \E left \in SUBSET Steps :
                         /\ Cardinality(left) <= MaxKeep * Ended
                         /\ OnDisk(g) \subseteq left \cup Kept(g)
    BY DEF LeftInv
  <2>1. OnDisk(g) = {} /\ MaxKeep * Ended = 0
    BY DEF Init, OnDisk, Ended
  <2>2. Cardinality({}) = 0
    BY FS_EmptySet
  <2>. QED
    BY <2>1, <2>2
<1>. QED
  BY <1>1, <1>2, <1>3 DEF DiskInv

\* Where neither the files nor the paths change.
LEMMA PathsStay ==
  ASSUME DiskInv, UNCHANGED <<files, saved, doomed>>, DiskTypes', Ended' = Ended,
         phase \notin {"rotate", "write"}, phase' \notin {"rotate", "write"},
         phase' \in {"down", "failed"} => phase \in {"down", "failed"}
  PROVE  DiskInv'
<1>1. KeptInv'
  BY DEF DiskInv, KeptInv
<1>2. \A g \in GroupNames : OnDisk(g)' = OnDisk(g) /\ Kept(g)' = Kept(g)
  BY DEF OnDisk, Kept
<1>3. LeftInv'
  BY <1>2, NothingLeft DEF DiskInv
<1>. QED
  BY <1>1, <1>3 DEF DiskInv

LEMMA DiskAtStart ==
  ASSUME DiskInv, Start
  PROVE  DiskInv'
<1>. USE StepsAreNumbers
<1>1. ASSUME NEW s \in 0..LoopSteps, EnterLoop(s), phase = "down"
      PROVE  DiskInv'
  <2>1. /\ run \in Nat /\ run' = run + 1 /\ step' = s + 1
        /\ phase' = IF s < LoopSteps THEN "step" ELSE "done"
        /\ UNCHANGED <<group, saved, doomed, folders, files>>
    BY <1>1 DEF EnterLoop, saving, disk, DiskInv, DiskTypes
  <2>2. DiskTypes'
    <3>1. phase' \in Busy => step' \in Steps
      BY <2>1 DEF Busy, SavePhases, Driver
    <3>2. run' \in Nat /\ run' >= 1
      BY <2>1
    <3>. QED
      BY <2>1, <3>1, <3>2 DEF DiskInv, DiskTypes, Phases
  <2>3. Ended' = Ended
    BY <1>1, <2>1 DEF Ended
  <2>. QED
    BY <1>1, <2>1, <2>2, <2>3, PathsStay
<1>2. CASE StartFromScratch
  BY <1>1, <1>2 DEF StartFromScratch
<1>3. CASE Resume
  <2>1. LatestCheckpoint \in 0..LoopSteps
    <3>1. tracker \in folders => tracker \in Steps
      BY DEF DiskInv, DiskTypes
    <3>2. Steps \subseteq 0..LoopSteps /\ 0 \in 0..LoopSteps
      OBVIOUS
    <3>. QED BY <3>1, <3>2 DEF LatestCheckpoint
  <2>. QED
    BY <1>1, <1>3, <2>1 DEF Resume
<1>4. CASE ResumeRaises
  <2>1. /\ phase = "down" /\ phase' = "failed"
        /\ UNCHANGED <<run, step, group, saved, doomed, folders, files>>
    BY <1>4 DEF ResumeRaises, training, saving, disk
  <2>2. DiskTypes' /\ Ended' = Ended
    BY <2>1 DEF DiskInv, DiskTypes, Ended, Phases, Busy, SavePhases, Driver
  <2>. QED
    BY <2>1, <2>2, PathsStay
<1>. QED
  BY <1>2, <1>3, <1>4 DEF Start

LEMMA DiskInTraining ==
  ASSUME DiskInv, Train
  PROVE  DiskInv'
<1>. USE StepsAreNumbers
<1>1. UNCHANGED <<run, saved, doomed, folders, files>>
  BY DEF Train, TrainStep, TrainStepAndSave, EndOfStep, Trained, saving, disk
<1>2. /\ phase \in {"step", "end"} /\ phase' \in {"step", "end", "save", "done"}
      /\ group' \in DOMAIN Groups
  <2>1. group \in DOMAIN Groups /\ 1 \in DOMAIN Groups
    BY GroupFacts DEF DiskInv, DiskTypes
  <2>. QED
    BY <2>1 DEF Train, TrainStep, TrainStepAndSave, EndOfStep, Trained, saving
<1>3. phase' \in Busy => step' \in Steps
  <2>1. step \in Steps
    BY <1>2 DEF DiskInv, DiskTypes, Busy
  <2>2. CASE EndOfStep
    BY <2>1, <2>2 DEF EndOfStep, IsLastStep, Busy, SavePhases, Driver
  <2>3. CASE Trained
    BY <2>1, <2>3 DEF Trained
  <2>. QED
    BY <2>2, <2>3 DEF Train, TrainStep, TrainStepAndSave
<1>4. DiskTypes' /\ Ended' = Ended
  BY <1>1, <1>2, <1>3 DEF DiskInv, DiskTypes, Ended, Phases
<1>. QED
  BY <1>1, <1>2, <1>4, PathsStay

LEMMA DiskInDriver ==
  ASSUME DiskInv, SaveDriver
  PROVE  DiskInv'
<1>1. /\ UNCHANGED <<run, step, group, saved, doomed, folders, files>>
      /\ phase \in Driver /\ phase' \in Driver \cup {"end"}
  BY DEF SaveDriver, OpenData, CloseData, OpenTracker, CloseTracker, training, saving, Driver
<1>2. DiskTypes' /\ Ended' = Ended
  BY <1>1 DEF DiskInv, DiskTypes, Ended, Phases, Busy, SavePhases, Driver
<1>. QED
  BY <1>1, <1>2, PathsStay DEF Driver

\* The paths of the run that dies are forgotten, what it kept is left.
LEMMA DiskAtCrash ==
  ASSUME DiskInv, Crash
  PROVE  DiskInv'
<1>. USE StepsAreNumbers
<1>1. /\ phase \notin {"down", "failed"} /\ phase' = "down" /\ step' = 0 /\ group' = 1
      /\ saved' = [g \in GroupNames |-> << >>] /\ doomed' = {}
      /\ UNCHANGED <<run, folders, files>>
  BY DEF Crash, disk
<1>2. run \in Nat /\ run >= 1
  BY <1>1 DEF DiskInv, DiskTypes
<1>3. DiskTypes'
  <2>1. group' \in DOMAIN Groups /\ saved' \in [GroupNames -> Seq(Steps)]
    BY <1>1, GroupFacts, EmptySeq
  <2>. QED
    BY <1>1, <2>1 DEF DiskInv, DiskTypes, Phases, Busy, SavePhases, Driver
<1>4. KeptInv'
  BY <1>1, EmptySeq DEF KeptInv
<1>5. LeftInv'
  <2>. SUFFICES ASSUME NEW g \in GroupNames
                PROVE  \E left \in SUBSET Steps :
                         /\ Cardinality(left) <= MaxKeep * Ended'
                         /\ OnDisk(g)' \subseteq left \cup Kept(g)'
    BY DEF LeftInv
  <2>1. PICK left \in SUBSET Steps :
          Cardinality(left) <= MaxKeep * Ended /\ OnDisk(g) \subseteq left \cup Kept(g)
    BY DEF DiskInv, LeftInv
  <2>. DEFINE K == Kept(g)
              more == left \cup K
  <2>2. K \in SUBSET Steps /\ Cardinality(K) <= MaxKeep
    BY KeptIsBounded DEF DiskInv
  <2>3. OnDisk(g)' = OnDisk(g)
    BY <1>1 DEF OnDisk
  <2>4. Ended = run - 1 /\ Ended' = run
    BY <1>1 DEF Ended
  <2>. HIDE DEF K
  <2>5. /\ IsFiniteSet(left) /\ Cardinality(left) \in Nat
        /\ IsFiniteSet(K) /\ Cardinality(K) \in Nat
        /\ Cardinality(left \cap K) \in Nat
    BY <2>2, StepsAreFinite
  <2>6. Cardinality(more) = Cardinality(left) + Cardinality(K) - Cardinality(left \cap K)
    BY <2>5, FS_Union
  <2>7. MaxKeep * run = MaxKeep * (run - 1) + MaxKeep /\ MaxKeep * (run - 1) \in Nat
    BY <1>2
  <2>. HIDE DEF more
  <2>8. Cardinality(more) <= MaxKeep * Ended'
    <3>1. Cardinality(left) <= MaxKeep * (run - 1)
      BY <2>1, <2>4
    <3>. DEFINE a == MaxKeep * (run - 1)
    <3>2. Cardinality(left) <= a /\ a \in Nat /\ MaxKeep * run = a + MaxKeep
      BY <2>7, <3>1
    <3>. HIDE DEF a
    <3>3. Cardinality(more) <= a + MaxKeep
      BY <2>2, <2>5, <2>6, <3>2
    <3>. QED
      BY <2>4, <3>2, <3>3
  <2>9. more \in SUBSET Steps /\ OnDisk(g)' \subseteq more
    BY <2>1, <2>2, <2>3 DEF more, K
  <2>. QED
    BY <2>8, <2>9
<1>. QED
  BY <1>3, <1>4, <1>5 DEF DiskInv

-------------------------------------------------------------------------------
(* The disk in the save of a group.                                        *)

\* The rotation makes room for one more path, and moves the rest to doomed.
LEMMA DiskAtBeginSave ==
  ASSUME MaxKeep > 0, DiskInv, BeginSave
  PROVE  DiskInv'
<1>. USE StepsAreNumbers
<1>. DEFINE q == saved[Saving]
            n == RotateOut(Saving)
            kept == SubSeq(q, n + 1, Len(q))
            out == SubSeq(q, 1, n)
<1>1. /\ phase = "save" /\ phase' = "rotate" /\ Saving' = Saving
      /\ doomed' = Range(out) /\ saved' = [saved EXCEPT ![Saving] = kept]
      /\ UNCHANGED <<run, step, group, folders, files>>
  BY DEF BeginSave, training, disk, Saving
<1>2. Saving \in GroupNames /\ saved \in [GroupNames -> Seq(Steps)]
  BY SavingIsAGroup DEF DiskInv, DiskTypes
<1>3. q \in Seq(Steps) /\ Len(q) \in Nat /\ DOMAIN q = 1..Len(q)
  BY <1>2, LenProperties
<1>4. Len(q) <= MaxKeep
  BY <1>2 DEF DiskInv, KeptInv
<1>5. n \in 0..1 /\ n <= Len(q) /\ Len(q) - n < MaxKeep
  <2>1. n = IF Len(q) >= MaxKeep THEN Len(q) - MaxKeep + 1 ELSE 0
    BY DEF RotateOut
  <2>. HIDE DEF q, n
  <2>. QED BY <1>3, <1>4, <2>1
<1>. HIDE DEF n, q
<1>6. /\ kept \in Seq(Steps) /\ Len(kept) = Len(q) - n /\ DOMAIN kept = 1..Len(q) - n
      /\ \A a \in 1..Len(q) - n : kept[a] = q[n + a]
      /\ out \in Seq(Steps) /\ DOMAIN out = 1..n /\ \A a \in 1..n : out[a] = q[a]
  <2>1. n \in Nat /\ n <= Len(q)
    BY <1>5
  <2>2. /\ kept \in Seq(Steps) /\ Len(kept) = Len(q) - n /\ DOMAIN kept = 1..(Len(q) - n)
        /\ \A a \in 1..(Len(q) - n) : kept[a] = q[n + a]
    <3>1. /\ kept \in Seq(Steps) /\ DOMAIN kept = 1..(Len(q) - n)
          /\ \A a \in 1..(Len(q) - n) : kept[a] = q[n + a]
      BY <1>3, <2>1
    <3>2. Len(kept) = Len(q) - n
      <4>1. \A i \in n + 1..Len(q) : q[i] \in Steps
        BY <1>3, <2>1
      <4>2. Len(kept) = IF n + 1 <= Len(q) THEN Len(q) - (n + 1) + 1 ELSE 0
        <5>1. n + 1 \in Int /\ Len(q) \in Int
          BY <1>3, <2>1
        <5>. QED BY ONLY <4>1, <5>1, SubSeqProperties DEF kept
      <4>. DEFINE l == Len(kept)
                  m == Len(q)
      <4>3. l = (IF n + 1 <= m THEN m - (n + 1) + 1 ELSE 0) /\ m \in Nat /\ n \in Nat /\ n <= m
        BY <1>3, <2>1, <4>2
      <4>. HIDE DEF l, m
      <4>4. l = m - n
        <5>1. CASE n + 1 <= m
          BY <4>3, <5>1
        <5>2. CASE n = m
          BY <4>3, <5>2
        <5>. QED BY <4>3, <5>1, <5>2
      <4>. QED BY <4>4 DEF l, m
    <3>. QED BY <3>1, <3>2
  <2>3. out \in Seq(Steps) /\ DOMAIN out = 1..n /\ \A a \in 1..n : out[a] = q[a]
    BY <1>3, <2>1
  <2>. QED BY <2>2, <2>3
<1>. HIDE DEF kept, out
<1>7. Range(kept) \cup Range(out) = Range(q)
  <2>1. \A a \in 1..Len(q) - n : n + a \in 1..Len(q)
    BY <1>3, <1>5
  <2>2. \A a \in 1..n : a \in 1..Len(q)
    BY <1>3, <1>5
  <2>3. \A a \in 1..Len(q) : a \in 1..n \/ (a - n \in 1..Len(q) - n /\ n + (a - n) = a)
    BY <1>3, <1>5
  <2>4. Range(q) \subseteq Range(kept) \cup Range(out)
    <3>. SUFFICES ASSUME NEW a \in 1..Len(q) PROVE q[a] \in Range(kept) \cup Range(out)
      BY <1>3 DEF Range
    <3>1. CASE a \in 1..n
      BY <1>6, <3>1 DEF Range
    <3>2. CASE a - n \in 1..Len(q) - n /\ n + (a - n) = a
      BY <1>6, <3>2 DEF Range
    <3>. QED BY <2>3, <3>1, <3>2
  <2>. QED
    BY <1>3, <1>6, <2>1, <2>2, <2>4 DEF Range
<1>8. \A g \in GroupNames : saved'[g] = IF g = Saving THEN kept ELSE saved[g]
  BY <1>1, <1>2
<1>9. Range(out) \in SUBSET Steps
  BY <1>6, RangeIsBounded
<1>10. DiskTypes'
  <2>1. saved' \in [GroupNames -> Seq(Steps)]
    BY <1>1, <1>2, <1>6
  <2>. QED
    BY <1>1, <1>9, <2>1 DEF DiskInv, DiskTypes, Phases, Busy, SavePhases
<1>11. KeptInv'
  <2>1. Len(kept) < MaxKeep
    BY <1>5, <1>6
  <2>2. Cardinality(Range(q)) <= MaxKeep
    <3>1. Range(q) \in SUBSET Steps /\ Cardinality(Range(q)) <= Len(q)
      BY <1>3, RangeIsBounded
    <3>2. Cardinality(Range(q)) \in Nat
      BY <3>1, StepsAreFinite
    <3>. QED BY <1>3, <1>4, <3>1, <3>2
  <2>3. Range(saved'[Saving']) \cup doomed' = Range(q)
    BY <1>1, <1>2, <1>7, <1>8
  <2>4. ASSUME NEW g \in GroupNames PROVE Len(saved'[g]) <= MaxKeep
    <3>1. Len(kept) <= MaxKeep
      BY <1>3, <1>5, <1>6
    <3>2. Len(saved[g]) <= MaxKeep
      BY DEF DiskInv, KeptInv
    <3>. QED BY <1>8, <3>1, <3>2
  <2>. QED
    BY <1>1, <1>2, <1>8, <2>1, <2>2, <2>3, <2>4 DEF KeptInv
<1>12. \A g \in GroupNames : OnDisk(g)' = OnDisk(g) /\ Kept(g)' = Kept(g)
  BY <1>1, <1>7, <1>8 DEF OnDisk, Kept, q
<1>13. LeftInv'
  <2>1. Ended' = Ended
    BY <1>1 DEF Ended
  <2>. QED
    BY <1>12, <2>1, NothingLeft DEF DiskInv
<1>. QED
  BY <1>10, <1>11, <1>13 DEF DiskInv

LEMMA DiskAtRemoveFile ==
  ASSUME DiskInv, NEW s \in Steps, NEW k \in Slots, RemoveFile(s, k)
  PROVE  DiskInv'
<1>1. /\ phase = "rotate" /\ files' = [files EXCEPT ![Saving][s][k] = None]
      /\ UNCHANGED <<phase, run, step, group, saved, doomed, folders>>
  BY DEF RemoveFile, training, saving
<1>2. /\ DOMAIN files' = GroupNames
      /\ \A g \in GroupNames : DOMAIN files'[g] = Steps
      /\ \A g \in GroupNames, t \in Steps : DOMAIN files'[g][t] = Slots
      /\ \A g \in GroupNames, t \in Steps, j \in Slots :
           files'[g][t][j] = IF g = Saving /\ t = s /\ j = k THEN None ELSE files[g][t][j]
  <2>1. Saving \in GroupNames
    BY SavingIsAGroup DEF DiskInv
  <2>. QED BY <1>1, <2>1 DEF DiskInv, DiskTypes
<1>3. DiskTypes' /\ KeptInv' /\ Ended' = Ended
  BY <1>1, <1>2 DEF DiskInv, DiskTypes, KeptInv, Ended, Saving
<1>4. \A g \in GroupNames : OnDisk(g)' \subseteq OnDisk(g) /\ Kept(g)' = Kept(g)
  BY <1>1, <1>2 DEF OnDisk, Kept, Saving
<1>. QED
  BY <1>3, <1>4, NothingLeft DEF DiskInv

\* Nothing of the doomed is on the disk any more.
LEMMA DiskAtRotationEnds ==
  ASSUME DiskInv, RotationEnds
  PROVE  DiskInv'
<1>. USE StepsAreNumbers
<1>1. /\ phase = "rotate" /\ phase' = "write" /\ doomed' = {} /\ Saving' = Saving
      /\ \A s \in doomed, k \in Slots : files[Saving][s][k] = None
      /\ folders' = folders \cup {step}
      /\ UNCHANGED <<run, step, group, saved, files>>
  BY DEF RotationEnds, training, Saving
<1>2. step \in Steps
  BY <1>1 DEF DiskInv, DiskTypes, Busy, SavePhases
<1>3. DiskTypes' /\ Ended' = Ended
  BY <1>1, <1>2 DEF DiskInv, DiskTypes, Ended, Phases, Busy, SavePhases
<1>4. KeptInv'
  BY <1>1 DEF DiskInv, KeptInv
<1>5. ASSUME NEW g \in GroupNames
      PROVE  OnDisk(g)' = OnDisk(g) /\ OnDisk(g)' \cap Kept(g) \subseteq Kept(g)'
  BY <1>1 DEF OnDisk, Kept
<1>. QED
  BY <1>3, <1>4, <1>5, NothingLeft DEF DiskInv

LEMMA DiskAtWriteFile ==
  ASSUME DiskInv, NEW r \in Ranks, WriteFile(r)
  PROVE  DiskInv'
<1>. DEFINE k == <<r, Contents[(progress[r] \div 2) + 1]>>
            v == IF progress[r] % 2 = 0 THEN Torn ELSE mem[Saving][k]
<1>1. /\ phase = "write" /\ ~FilesDone(r) /\ files' = [files EXCEPT ![Saving][step][k] = v]
      /\ UNCHANGED <<phase, run, step, group, saved, doomed, folders>>
  BY DEF WriteFile, training
<1>2. step \in Steps /\ Saving \in GroupNames
  BY <1>1, SavingIsAGroup DEF DiskInv, DiskTypes, Busy, SavePhases
<1>. HIDE DEF k, v
<1>3. /\ DOMAIN files' = GroupNames
      /\ \A g \in GroupNames : DOMAIN files'[g] = Steps
      /\ \A g \in GroupNames, t \in Steps : DOMAIN files'[g][t] = Slots
      /\ \A g \in GroupNames, t \in Steps, j \in Slots :
           g # Saving \/ t # step => files'[g][t][j] = files[g][t][j]
  BY <1>1, <1>2 DEF DiskInv, DiskTypes
<1>4. DiskTypes' /\ KeptInv' /\ Ended' = Ended
  BY <1>1, <1>3 DEF DiskInv, DiskTypes, KeptInv, Ended, Saving
<1>5. ASSUME NEW g \in GroupNames
      PROVE  OnDisk(g)' \subseteq OnDisk(g) \cup Kept(g)' /\ Kept(g)' = Kept(g)
  BY <1>1, <1>3 DEF OnDisk, Kept, Saving
<1>. QED
  BY <1>4, <1>5, NothingLeft DEF DiskInv

\* The path of what was written joins the group's.
LEMMA DiskAtGroupSaved ==
  ASSUME DiskInv, GroupSaved
  PROVE  DiskInv'
<1>. USE StepsAreNumbers
<1>. DEFINE q == saved[Saving]
            longer == Append(q, step)
<1>1. /\ phase = "write" /\ phase' \in {"save", "data"}
      /\ saved' = [saved EXCEPT ![Saving] = longer]
      /\ group' = group \/ (group < Len(Groups) /\ group' = group + 1)
      /\ UNCHANGED <<run, step, doomed, folders, files>>
  BY DEF GroupSaved, AllRanksSaved, training, disk
<1>2. /\ step \in Steps /\ Saving \in GroupNames /\ saved \in [GroupNames -> Seq(Steps)]
      /\ group \in DOMAIN Groups
  BY <1>1, SavingIsAGroup DEF DiskInv, DiskTypes, Busy, SavePhases
<1>3. group' \in DOMAIN Groups
  BY <1>1, <1>2, GroupFacts
<1>4. q \in Seq(Steps) /\ Len(q) \in Nat /\ DOMAIN q = 1..Len(q) /\ Len(q) < MaxKeep
  BY <1>1, <1>2, LenProperties DEF DiskInv, KeptInv
<1>. HIDE DEF q
<1>5. /\ longer \in Seq(Steps) /\ Len(longer) = Len(q) + 1 /\ DOMAIN longer = 1..Len(q) + 1
      /\ longer[Len(q) + 1] = step /\ \A a \in 1..Len(q) : longer[a] = q[a]
  BY <1>2, <1>4
<1>. HIDE DEF longer
<1>6. Range(longer) = Range(q) \cup {step}
  <2>1. \A a \in 1..Len(q) + 1 : a \in 1..Len(q) \/ a = Len(q) + 1
    BY <1>4
  <2>2. \A a \in 1..Len(q) : a \in 1..Len(q) + 1
    BY <1>4
  <2>3. Len(q) + 1 \in 1..Len(q) + 1
    BY <1>4
  <2>. QED
    BY <1>4, <1>5, <2>1, <2>2, <2>3 DEF Range
<1>7. \A g \in GroupNames : saved'[g] = IF g = Saving THEN longer ELSE saved[g]
  BY <1>1, <1>2
<1>8. DiskTypes' /\ Ended' = Ended
  <2>1. saved' \in [GroupNames -> Seq(Steps)]
    BY <1>1, <1>2, <1>5
  <2>. QED
    BY <1>1, <1>2, <1>3, <2>1 DEF DiskInv, DiskTypes, Ended, Phases
<1>9. KeptInv'
  <2>1. Len(longer) <= MaxKeep
    BY <1>4, <1>5
  <2>. QED
    BY <1>1, <1>7, <2>1 DEF DiskInv, KeptInv
<1>10. \A g \in GroupNames : OnDisk(g)' = OnDisk(g) /\ Kept(g)' = Kept(g)
  BY <1>1, <1>6, <1>7 DEF OnDisk, Kept, q
<1>. QED
  BY <1>8, <1>9, <1>10, NothingLeft DEF DiskInv

LEMMA DiskNext ==
  ASSUME MaxKeep > 0, DiskInv, [Next]_vars
  PROVE  DiskInv'
<1>1. CASE SaveGroups
  <2>1. CASE \E s \in Steps, k \in Slots : RemoveFile(s, k)
    BY <2>1, DiskAtRemoveFile
  <2>2. CASE \E r \in Ranks : WriteFile(r)
    BY <2>2, DiskAtWriteFile
  <2>3. CASE BeginSave \/ RotationEnds \/ GroupSaved
    BY <2>3, DiskAtBeginSave, DiskAtRotationEnds, DiskAtGroupSaved
  <2>. QED
    BY <1>1, <2>1, <2>2, <2>3 DEF SaveGroups
<1>2. CASE UNCHANGED vars
  <2>1. UNCHANGED <<phase, run, step, group, saved, doomed, folders, files>>
    BY <1>2 DEF vars, training, saving, disk
  <2>2. DiskTypes' /\ KeptInv'
    BY <2>1 DEF DiskInv, DiskTypes, KeptInv, Saving
  <2>3. Ended' = Ended /\ \A g \in GroupNames : OnDisk(g)' = OnDisk(g) /\ Kept(g)' = Kept(g)
    BY <2>1 DEF Ended, OnDisk, Kept, Saving
  <2>. QED
    BY <2>2, <2>3, NothingLeft DEF DiskInv
<1>. QED
  BY <1>1, <1>2, DiskAtStart, DiskInTraining, DiskInDriver, DiskAtCrash DEF Next, Work, Over

\* The rotation of ensure_checkpoint_capacity holds the disk to MaxKeep checkpoints of a
\* group for every run started, while one is written as well; and with MaxKeep = 1 too.
THEOREM DiskStaysBounded == Spec => []DiskIsBounded
<1>1. CASE MaxKeep > 0
  <2>1. Init => DiskInv
    BY DiskInit
  <2>2. DiskInv /\ [Next]_vars => DiskInv'
    BY <1>1, DiskNext
  <2>3. DiskInv => DiskIsBounded
    <3>. USE StepsAreNumbers
    <3>. SUFFICES ASSUME DiskInv, NEW g \in GroupNames
                  PROVE  Cardinality(OnDisk(g)) <= MaxKeep * run
      BY DEF DiskIsBounded, OnDisk
    <3>1. PICK left \in SUBSET Steps :
            Cardinality(left) <= MaxKeep * Ended /\ OnDisk(g) \subseteq left \cup Kept(g)
      BY DEF DiskInv, LeftInv
    <3>. DEFINE K == Kept(g)
                D == OnDisk(g)
                more == left \cup K
    <3>2. K \in SUBSET Steps /\ Cardinality(K) <= MaxKeep
      BY KeptIsBounded DEF DiskInv
    <3>3. D \in SUBSET Steps /\ D \subseteq more
      BY <3>1 DEF OnDisk
    <3>4. \/ Ended = run - 1 /\ run \in Nat /\ run >= 1
          \/ Ended = run /\ run \in Nat /\ K = {}
      <4>1. saved[g] = << >> => Range(saved[g]) = {}
        BY DEF Range
      <4>. QED
        BY <4>1 DEF Ended, DiskInv, DiskTypes, KeptInv, Kept
    <3>. HIDE DEF D, K
    <3>5. /\ IsFiniteSet(left) /\ Cardinality(left) \in Nat
          /\ IsFiniteSet(K) /\ Cardinality(K) \in Nat
          /\ Cardinality(left \cap K) \in Nat /\ Cardinality(D) \in Nat
      BY <3>2, <3>3, StepsAreFinite
    <3>6. /\ IsFiniteSet(more)
          /\ Cardinality(more) = Cardinality(left) + Cardinality(K) - Cardinality(left \cap K)
      BY <3>5, FS_Union
    <3>. HIDE DEF more
    <3>7. Cardinality(D) <= Cardinality(more)
      BY <3>3, <3>6, FS_Subset
    <3>8. CASE Ended = run - 1 /\ run \in Nat /\ run >= 1
      <4>. DEFINE a == MaxKeep * (run - 1)
      <4>1. a \in Nat /\ MaxKeep * run = a + MaxKeep /\ Cardinality(left) <= a
        BY <3>1, <3>8
      <4>. HIDE DEF a
      <4>2. Cardinality(D) <= a + MaxKeep
        BY <3>2, <3>5, <3>6, <3>7, <4>1
      <4>. QED
        BY <4>1, <4>2 DEF D
    <3>9. CASE Ended = run /\ run \in Nat /\ K = {}
      <4>. DEFINE a == MaxKeep * run
      <4>1. a \in Nat /\ Cardinality(left) <= a
        BY <3>1, <3>9
      <4>2. Cardinality(K) = 0
        BY <3>9, FS_EmptySet
      <4>. HIDE DEF a
      <4>3. Cardinality(D) <= a
        BY <3>5, <3>6, <3>7, <4>1, <4>2
      <4>. QED
        BY <4>3 DEF D, a
    <3>. QED
      BY <3>4, <3>8, <3>9
  <2>. QED
    BY <2>1, <2>2, <2>3, PTL DEF Spec
<1>2. CASE ~(MaxKeep > 0)
  <2>1. DiskIsBounded
    BY <1>2 DEF DiskIsBounded
  <2>. QED
    BY <2>1, PTL
<1>. QED
  BY <1>1, <1>2

-------------------------------------------------------------------------------
(* All ranks, groups and files together implement ResumableTraining.       *)

\* There is a group and a slot to look at, and where all have the same, that is it.
LEMMA CommonOfSame ==
  ASSUME NEW state
  PROVE  Common(Everywhere(state)) = state
<1>. DEFINE k == CHOOSE k \in Slots : TRUE
<1>1. Groups[1] \in GroupNames
  BY GroupFacts
<1>2. k \in Slots
  <2>1. Ranks # {} /\ Len(Contents) \in Nat /\ Len(Contents) # 0
    BY CheckpointAssumption, SlotFacts, EmptySeq
  <2>2. 1 \in DOMAIN Contents
    BY <2>1, SlotFacts
  <2>3. Slots # {}
    BY <2>1, <2>2, SlotFacts
  <2>. QED BY <2>3
<1>. HIDE DEF k
<1>3. Everywhere(state)[Groups[1]][k] = state
  BY <1>1, <1>2 DEF Everywhere
<1>. QED BY <1>3 DEF Common, k

\* How the phases look from outside, before and after a step.
LEMMA StatusFacts ==
  /\ phase = "down" => StatusBar = IF tracker = Torn THEN "torn" ELSE "down"
  /\ phase \in {"done", "failed"} => StatusBar = phase
  /\ phase \in Busy => StatusBar = "up"
  /\ phase' = "down" => StatusBar' = IF tracker' = Torn THEN "torn" ELSE "down"
  /\ phase' \in {"done", "failed"} => StatusBar' = phase'
  /\ phase' \in Busy => StatusBar' = "up"
BY DEF StatusBar, Busy, SavePhases, Driver

\* What has been saved is seen in the files of that step only.
LEMMA SavedStays ==
  ASSUME UNCHANGED durable, \A g \in GroupNames : files'[g][durable] = files[g][durable]
  PROVE  SavedBar' = SavedBar
<1>. DEFINE old == [g \in GroupNames |-> files[g][durable]]
            new == [g \in GroupNames |-> files'[g][durable']]
<1>1. new = old
  OBVIOUS
<1>2. SavedBar = IF durable = 0 THEN None ELSE Common(old)
  BY DEF SavedBar
<1>3. SavedBar' = IF durable' = 0 THEN None ELSE Common(new)
  BY DEF SavedBar, Common, Everywhere
<1>. HIDE DEF old, new
<1>. QED BY <1>1, <1>2, <1>3

\* A folder in which everybody has saved the same state.
LEMMA SavedIs ==
  ASSUME IInv, durable # 0, durable \in Steps, NEW state,
         \A g \in GroupNames : Complete(g, durable, state)
  PROVE  SavedBar = state
<1>1. ASSUME NEW g \in GroupNames PROVE files[g][durable] = [k \in Slots |-> state]
  <2>1. files[g][durable] \in [Slots -> States \cup {None, Torn}]
    BY DEF IInv, TypeOK
  <2>. QED BY <2>1 DEF Complete
<1>. DEFINE copies == [g \in GroupNames |-> files[g][durable]]
<1>2. copies = Everywhere(state)
  BY <1>1 DEF Everywhere
<1>3. SavedBar = Common(copies)
  BY DEF SavedBar
<1>. HIDE DEF copies
<1>. QED BY <1>2, <1>3, CommonOfSame

\* As long as the tracker can be read, what is seen as saved is what it names.
LEMMA SavedFacts ==
  ASSUME IInv, tracker # Torn
  PROVE  \/ durable = 0 /\ SavedBar = None
         \/ \E n \in 1..run : /\ durable \in Steps /\ tracker = durable
                              /\ SavedBar = StateOf(n, durable) /\ SavedBar # None
<1>. USE StepsAreNumbers
<1>1. CASE tracker = None
  BY <1>1 DEF IInv, TrackerInv, SavedBar
<1>2. CASE tracker \in Steps
  <2>1. durable = tracker /\ durable \in Steps /\ durable # 0
    BY <1>2 DEF IInv, TrackerInv
  <2>2. PICK n \in 1..run : \A g \in GroupNames : Complete(g, durable, StateOf(n, durable))
    BY <1>2, <2>1 DEF IInv, TrackedIsComplete, Complete
  <2>3. SavedBar = StateOf(n, durable)
    BY <2>1, <2>2, SavedIs
  <2>4. StateOf(n, durable) # None
    <3>1. n \in 0..MaxCrashes + 1 /\ durable \in 0..LoopSteps
      BY <2>1, <2>2 DEF IInv, TypeOK
    <3>2. StateOf(n, durable) \in States
      BY <3>1, StateType
    <3>. QED BY <3>2, FileAssumption
  <2>. QED BY <2>1, <2>2, <2>3, <2>4
<1>. QED BY <1>1, <1>2 DEF IInv, TypeOK

\* A start goes on from what was saved last.
LEMMA StartImplements ==
  ASSUME IInv, RestartSucceeds', Start
  PROVE  Resumable!Next
<1>. USE StepsAreNumbers
<1>1. CASE ResumeRaises
  <2>1. /\ phase = "down" /\ phase' = "failed" /\ UNCHANGED <<run, mem, loader>>
        /\ UNCHANGED <<tracker, durable, files>>
    BY <1>1 DEF ResumeRaises, training, disk
  <2>2. tracker = Torn
    BY <2>1 DEF RestartSucceeds
  <2>3. StatusBar = "torn" /\ StatusBar' = "failed"
    BY <2>1, <2>2, StatusFacts
  <2>4. SavedBar' = SavedBar
    BY <2>1, SavedStays
  <2>5. Common(mem)' = Common(mem)
    BY <2>1 DEF Common, Everywhere
  <2>. QED BY <2>1, <2>3, <2>4, <2>5 DEF Resumable!Next, Resumable!Fail
<1>2. CASE StartFromScratch \/ Resume
  <2>1. /\ phase = "down" /\ tracker # Torn /\ StatusBar = "down" /\ run' = run + 1
        /\ UNCHANGED <<tracker, durable, files>>
    BY <1>2, StatusFacts DEF StartFromScratch, Resume, EnterLoop, disk
  <2>2. SavedBar' = SavedBar
    BY <2>1, SavedStays
  <2>3. CASE StartFromScratch
    <3>1. durable = 0 /\ SavedBar = None
      BY <2>1, <2>3, LatestFacts DEF StartFromScratch, SavedBar
    <3>2. /\ mem' = Everywhere(StateOf(run + 1, 0)) /\ loader' = 0
          /\ phase' = "step" /\ StatusBar' = "up"
      BY <2>3, StatusFacts DEF StartFromScratch, EnterLoop, Busy
    <3>3. Common(mem)' = StateOf(run + 1, 0)
      <4>1. Common(mem)' = Common(mem')
        BY DEF Common, Everywhere
      <4>. QED BY <3>2, <4>1, CommonOfSame
    <3>. QED BY <2>1, <2>2, <3>1, <3>2, <3>3
         DEF Resumable!Next, Resumable!Start, Resumable!StateOf, StateOf
  <2>4. CASE Resume
    <3>1. LatestCheckpoint = tracker /\ tracker \in Steps /\ durable = tracker
      BY <2>4, LatestFacts DEF Resume, IInv, TrackerInv
    <3>2. PICK n \in 1..run : SavedBar = StateOf(n, durable) /\ SavedBar # None
      BY <2>1, <3>1, SavedFacts
    <3>3. PICK m \in 1..run :
            \A g \in GroupNames : Complete(g, durable, StateOf(m, durable))
      BY <3>1 DEF IInv, TrackedIsComplete, Complete
    <3>4. SavedBar = StateOf(m, durable)
      BY <3>1, <3>3, SavedIs
    <3>5. mem' = Everywhere(StateOf(m, durable))
      <4>1. ASSUME NEW g \in GroupNames
            PROVE  files[g][durable] = [k \in Slots |-> StateOf(m, durable)]
        <5>1. files[g][durable] \in [Slots -> States \cup {None, Torn}]
          BY <3>1 DEF IInv, TypeOK
        <5>. QED BY <3>3, <5>1 DEF Complete
      <4>. QED BY <2>4, <3>1, <4>1 DEF Resume, Everywhere
    <3>6. Common(mem)' = SavedBar
      <4>1. Common(mem)' = Common(mem')
        BY DEF Common, Everywhere
      <4>. QED BY <3>4, <3>5, <4>1, CommonOfSame
    <3>7. loader' = durable
      BY <2>4, <3>1 DEF Resume, IInv, TrackedIsComplete
    <3>8. StatusBar' \in {"up", "done"}
      <4>1. phase' \in {"step", "done"}
        BY <2>4 DEF Resume, EnterLoop
      <4>. QED BY <4>1, StatusFacts DEF Busy
    <3>9. SavedBar.step = durable
      BY <3>2 DEF StateOf
    <3>. QED BY <2>1, <2>2, <3>2, <3>6, <3>7, <3>8, <3>9
         DEF Resumable!Next, Resumable!Start
  <2>. QED BY <1>2, <2>3, <2>4
<1>. QED BY <1>1, <1>2 DEF Start

\* What memory holds while the job is up.
LEMMA ModelFacts ==
  ASSUME IInv, phase \in Busy
  PROVE  \E n \in 1..run : Common(mem) = StateOf(n, loader)
<1>1. PICK n \in 1..run : mem = Everywhere(StateOf(n, loader))
  <2>1. CASE phase = "step"
    BY <2>1 DEF IInv, MemInv
  <2>2. CASE phase # "step"
    <3>1. run \in 1..run
      BY DEF IInv, TypeOK, CursorInv
    <3>. QED BY <2>2, <3>1 DEF IInv, MemInv
  <2>. QED BY <2>1, <2>2
<1>. QED BY <1>1, CommonOfSame

\* A step of fit trains, at most SaveFreq times without a save; the last one ends with
\* what is saved.
LEMMA TrainImplements ==
  ASSUME IInv, LostWorkIsBounded, Train
  PROVE  [Resumable!Next]_(Resumable!vars)
<1>. USE StepsAreNumbers
<1>1. CASE TrainStep \/ TrainStepAndSave
  <2>1. /\ phase = "step" /\ phase' \in {"end", "save"}
        /\ mem' = Everywhere(StateOf(run, step)) /\ loader' = loader + 1
        /\ UNCHANGED <<run, tracker, durable, files>>
    BY <1>1 DEF TrainStep, TrainStepAndSave, Trained, disk
  <2>2. StatusBar = "up" /\ StatusBar' = "up"
    BY <2>1, StatusFacts DEF Busy, SavePhases
  <2>3. SavedBar' = SavedBar
    BY <2>1, SavedStays
  <2>4. loader = step - 1 /\ step \in Nat \ {0}
    BY <2>1 DEF IInv, MemInv, CursorInv, Busy
  <2>5. PICK n \in 1..run : Common(mem) = StateOf(n, step - 1)
    BY <2>1, <2>4, ModelFacts DEF Busy
  <2>6. Common(mem)' = StateOf(run, step)
    <3>1. Common(mem)' = Common(mem')
      BY DEF Common, Everywhere
    <3>. QED BY <2>1, <3>1, CommonOfSame
  <2>7. Resumable!Unsaved < SaveFreq
    <3>1. step <= durable + SaveFreq /\ SaveFreq \in Nat
      BY <2>1, CheckpointAssumption DEF LostWorkIsBounded
    <3>2. Common(mem).step = step - 1
      BY <2>5 DEF StateOf
    <3>3. durable = (IF SavedBar = None THEN 0 ELSE SavedBar.step) /\ durable \in Nat
      <4>1. tracker # Torn
        BY <2>1 DEF IInv, TrackerInv
      <4>. QED BY <4>1, SavedFacts DEF StateOf
    <3>. DEFINE d == IF SavedBar = None THEN 0 ELSE SavedBar.step
                m == Common(mem).step
    <3>4. Resumable!Unsaved = m - d
      BY DEF Resumable!Unsaved
    <3>. HIDE DEF d, m
    <3>5. m = step - 1 /\ d = durable
      BY <3>2, <3>3 DEF d, m
    <3>6. durable \in Nat
      BY <3>3
    <3>7. (step - 1) - durable < SaveFreq
      BY ONLY <2>4, <3>1, <3>6
    <3>. QED BY ONLY <3>4, <3>5, <3>7
  <2>8. Common(mem)' = Resumable!StateOf(run, Common(mem).step + 1)
    BY <2>4, <2>5, <2>6 DEF StateOf, Resumable!StateOf
  <2>. QED BY <2>1, <2>2, <2>3, <2>7, <2>8 DEF Resumable!Next, Resumable!Train
<1>2. CASE EndOfStep
  <2>1. /\ phase = "end" /\ phase' = (IF IsLastStep THEN "done" ELSE "step")
        /\ UNCHANGED <<run, mem, loader, tracker, durable, files>>
    BY <1>2 DEF EndOfStep, disk
  <2>2. SavedBar' = SavedBar /\ Common(mem)' = Common(mem)
    BY <2>1, SavedStays DEF Common, Everywhere
  <2>3. CASE IsLastStep
    <3>1. tracker = step /\ \A g \in GroupNames : Complete(g, step, StateOf(run, step))
      BY <2>1, <2>3 DEF IInv, LastInv
    <3>2. step \in Steps /\ durable = step /\ step # 0
      BY <2>1, <3>1 DEF IInv, CursorInv, TrackerInv, Busy
    <3>3. SavedBar = StateOf(run, step)
      BY <3>1, <3>2, SavedIs
    <3>4. Common(mem) = StateOf(run, step)
      <4>1. mem = Everywhere(StateOf(run, step))
        BY <2>1 DEF IInv, MemInv, Busy
      <4>. QED BY <4>1, CommonOfSame
    <3>5. StatusBar = "up" /\ StatusBar' = "done"
      BY <2>1, <2>3, StatusFacts DEF Busy
    <3>. QED BY <2>1, <2>2, <3>3, <3>4, <3>5 DEF Resumable!Next, Resumable!Finish
  <2>4. CASE ~IsLastStep
    <3>1. StatusBar = "up" /\ StatusBar' = "up"
      BY <2>1, <2>4, StatusFacts DEF Busy
    <3>. QED BY <2>1, <2>2, <3>1 DEF Resumable!vars
  <2>. QED BY <2>3, <2>4
<1>. QED BY <1>1, <1>2 DEF Train

\* Nothing of a save is seen before the tracker is closed.
LEMMA SaveImplements ==
  ASSUME IInv, SaveGroups \/ SaveDriver
  PROVE  [Resumable!Next]_(Resumable!vars)
<1>. USE StepsAreNumbers
<1>1. /\ phase \in SavePhases /\ phase' \in Busy /\ UNCHANGED <<run, mem, loader>>
  <2>1. CASE \E s \in Steps, k \in Slots : RemoveFile(s, k)
    BY <2>1 DEF RemoveFile, training, Busy, SavePhases
  <2>2. CASE \E r \in Ranks : WriteFile(r)
    BY <2>2 DEF WriteFile, training, Busy, SavePhases
  <2>3. CASE BeginSave \/ RotationEnds \/ GroupSaved
    BY <2>3 DEF BeginSave, RotationEnds, GroupSaved, AllRanksSaved, training, Busy,
                SavePhases, Driver
  <2>4. CASE SaveDriver
    BY <2>4 DEF SaveDriver, OpenData, CloseData, OpenTracker, CloseTracker, training, Busy,
                SavePhases, Driver
  <2>. QED BY <2>1, <2>2, <2>3, <2>4 DEF SaveGroups
<1>2. /\ StatusBar = "up" /\ StatusBar' = "up" /\ Common(mem)' = Common(mem)
  BY <1>1, StatusFacts DEF Busy, Common, Everywhere
<1>3. ASSUME SavedBar' = SavedBar PROVE UNCHANGED Resumable!vars
  BY <1>1, <1>2, <1>3 DEF Resumable!vars
<1>4. /\ durable \in Nat /\ durable < step /\ step \in Steps /\ Saving \in GroupNames
  BY <1>1, SaveFacts
<1>5. ASSUME NEW s \in Steps, NEW k \in Slots, RemoveFile(s, k) PROVE SavedBar' = SavedBar
  <2>1. /\ s \in doomed /\ files' = [files EXCEPT ![Saving][s][k] = None]
        /\ durable' = durable
    BY <1>5 DEF RemoveFile
  <2>2. s # durable
    BY <1>4, <2>1 DEF IInv, DoomedInv
  <2>3. \A g \in GroupNames : files'[g][durable] = files[g][durable]
    BY <1>4, <2>1, <2>2 DEF IInv, TypeOK
  <2>. QED BY <2>1, <2>3, SavedStays
<1>6. ASSUME NEW r \in Ranks, WriteFile(r) PROVE SavedBar' = SavedBar
  <2>. DEFINE k == <<r, Contents[(progress[r] \div 2) + 1]>>
              v == IF progress[r] % 2 = 0 THEN Torn ELSE mem[Saving][k]
  <2>1. files' = [files EXCEPT ![Saving][step][k] = v] /\ durable' = durable
    BY <1>6 DEF WriteFile
  <2>. HIDE DEF k, v
  <2>2. \A g \in GroupNames : files'[g][durable] = files[g][durable]
    BY <1>4, <2>1 DEF IInv, TypeOK
  <2>. QED BY <2>1, <2>2, SavedStays
<1>7. CASE BeginSave \/ RotationEnds \/ GroupSaved \/ OpenData \/ CloseData \/ OpenTracker
  <2>1. UNCHANGED <<files, durable>>
    BY <1>7 DEF BeginSave, RotationEnds, GroupSaved, OpenData, CloseData, OpenTracker, disk
  <2>. QED BY <1>3, <2>1, SavedStays
<1>8. CASE CloseTracker
  <2>1. phase = "trackerOpen" /\ durable' = step /\ files' = files
    BY <1>8 DEF CloseTracker
  <2>2. ASSUME NEW g \in GroupNames PROVE files[g][step] = [k \in Slots |-> StateOf(run, step)]
    <3>1. PICK i \in DOMAIN Groups : g = Groups[i]
      BY GroupFacts
    <3>2. Complete(g, step, StateOf(run, step))
      BY <2>1, <3>1 DEF IInv, CopiesInv, HasSaved, SavePhases, Driver
    <3>3. files[g][step] \in [Slots -> States \cup {None, Torn}]
      BY <1>4 DEF IInv, TypeOK
    <3>. QED BY <3>2, <3>3 DEF Complete
  <2>. DEFINE copies == [g \in GroupNames |-> files'[g][durable']]
  <2>3. copies = Everywhere(StateOf(run, step))
    BY <2>1, <2>2 DEF Everywhere
  <2>4. SavedBar' = IF durable' = 0 THEN None ELSE Common(copies)
    BY DEF SavedBar, Common, Everywhere
  <2>. HIDE DEF copies
  <2>5. SavedBar' = StateOf(run, step)
    BY <1>4, <2>1, <2>3, <2>4, CommonOfSame
  <2>6. Common(mem) = StateOf(run, step)
    <3>1. mem = Everywhere(StateOf(run, step))
      BY <1>1, SaveFacts
    <3>. QED BY <3>1, CommonOfSame
  <2>. QED BY <1>1, <1>2, <2>5, <2>6 DEF Resumable!Next, Resumable!Save
<1>. QED BY <1>3, <1>5, <1>6, <1>7, <1>8 DEF SaveGroups, SaveDriver

LEMMA CrashImplements ==
  ASSUME IInv, Crash
  PROVE  Resumable!Next
<1>1. /\ phase \in Busy /\ phase' = "down" /\ mem' = Everywhere(StateOf(0, 0))
      /\ loader' = 0 /\ UNCHANGED <<run, tracker, durable, files>>
  BY DEF Crash, disk, IInv, TypeOK, Phases, Busy, SavePhases, Driver
<1>2. StatusBar = "up" /\ StatusBar' \in {"down", "torn"}
  BY <1>1, StatusFacts
<1>3. SavedBar' = SavedBar
  BY <1>1, SavedStays
<1>4. Common(mem)' = StateOf(0, 0)
  <2>1. Common(mem)' = Common(mem')
    BY DEF Common, Everywhere
  <2>. QED BY <1>1, <2>1, CommonOfSame
<1>. QED BY <1>1, <1>2, <1>3, <1>4
     DEF Resumable!Next, Resumable!Crash, Resumable!StateOf, StateOf

\* Whatever the number of ranks, groups and files, and wherever a crash comes between two
\* writes, checkpoints are what one process with an atomic save has: the job goes on from
\* the model saved last, has at most save_freq steps unsaved, and returns with a saved
\* model (fit, _save_checkpoint, _load_checkpoint).
THEOREM CheckpointsAreAtomic ==
  ASSUME MaxKeep # 1
  PROVE  Spec => ImplementsResumableTraining
<1>1. Init => Resumable!Init
  <2>. SUFFICES ASSUME Init PROVE Resumable!Init
    OBVIOUS
  <2>1. StatusBar = "down" /\ SavedBar = None
    BY StatusFacts, StepsAreNumbers DEF Init, SavedBar
  <2>2. Common(mem) = StateOf(0, 0)
    BY CommonOfSame DEF Init
  <2>. QED BY <2>1, <2>2 DEF Init, Resumable!Init, Resumable!StateOf, StateOf
<1>2. IInv /\ LostWorkIsBounded /\ RestartSucceeds' /\ [Next]_vars
        => [Resumable!Next]_(Resumable!vars)
  <2>. SUFFICES ASSUME IInv, LostWorkIsBounded, RestartSucceeds', [Next]_vars
                PROVE  [Resumable!Next]_(Resumable!vars)
    OBVIOUS
  <2>1. CASE UNCHANGED vars
    <3>1. UNCHANGED <<phase, run, mem, loader, tracker, durable, files>>
      BY <2>1 DEF vars, training, disk
    <3>2. SavedBar' = SavedBar
      BY <3>1, SavedStays
    <3>3. StatusBar' = StatusBar /\ Common(mem)' = Common(mem)
      BY <3>1 DEF StatusBar, Common, Everywhere
    <3>. QED BY <3>1, <3>2, <3>3 DEF Resumable!vars
  <2>. QED BY <2>1, StartImplements, TrainImplements, SaveImplements, CrashImplements
       DEF Next, Work, Over
<1>. QED BY <1>1, <1>2, Inductive, LossIsBounded, RestartsSucceed, PTL
     DEF Spec, ImplementsResumableTraining, Resumable!Spec
=============================================================================
