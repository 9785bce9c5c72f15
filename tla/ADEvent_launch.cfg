CONSTANTS
  Thread = {cpu, gpu}
  GPUThread = {gpu}
  CorrID = {k1, k2}
  NoCall = NoCall
  MaxCalls = 3
  MaxCids = 2
  WindowSize = 0
  LaunchFirst = TRUE
  FreedIntact = TRUE
  TestAPI = FALSE
SPECIFICATION FairSpec
INVARIANTS
  GarbageCollectorSafe
  StackIsOpenLine
  UnlabelledAnalyzedAgain
  PartnersMatch
  ProvenanceComplete
PROPERTIES
  FreedOnlyWhenUnneeded
  Reclaimed
