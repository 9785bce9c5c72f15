CONSTANTS
  ShiftInv = 5
  SlackInv = 10
  DeltaInv = 20
  MinStepInv = 100
  MaxMergeBins = 6
  TinyInv = 1000
  Ranks = {0, 1}
  Batches <- MCBatches
  MaxBins = 3
  Threshold = 99
  Sigma = 1
  SyncFreq = 2
  MaxRuns = 3
SPECIFICATION Spec
CHECK_DEADLOCK FALSE
INVARIANT MergedIsUnion
