CONSTANTS
  Groups <- MCGroups
  Contents <- MCContents
  Ranks = {0, 1}
  TotalSteps = 5
  LoopSteps = 6
  SaveFreq = 2
  MaxKeep = 1
  MaxCrashes = 1
  None = None
  Torn = Torn
SPECIFICATION Spec
INVARIANT RestartSucceeds
