CONSTANTS
  r1 = r1  r2 = r2  r3 = r3
  Requests <- MCRequests
  Ladder <- MCLadder
  MaxNumSeqs = 2
  Threshold = 1
  RooflineRamp = 1
  ConfiguredModes = {"off", "threshold", "roofline"}
  ConfigLoads = {TRUE}
  MaxRollouts = 4
SYMMETRY MCSymmetry
SPECIFICATION Spec
INVARIANTS
  ToggleAgrees
  DraftsFollowToggle
  ToggleAfterRamp
  LOfLastTrainingRollout
