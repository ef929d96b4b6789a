CONSTANTS
  Groups <- MCGroups
  Contents <- MCContents
  Ranks = {0, 1}
  TotalSteps = 5
  LoopSteps = 6
  SaveFreq = 2
  MaxKeep = 2
  MaxCrashes = 2
  None = None
  Torn = Torn
SPECIFICATION FairSpec
INVARIANTS
  TrackedIsComplete
  ResumeIsConsistent
  LostWorkIsBounded
  DiskIsBounded
PROPERTIES
  TrainingEnds
  ImplementsResumableTraining
