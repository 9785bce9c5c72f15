CONSTANTS
  Thread = {cpu, gpu}
  GPUThread = {gpu}
  CorrID = {k1}
  NoCall = NoCall
  MaxCalls = 3
  MaxCids = 1
  WindowSize = 0
  LaunchFirst = FALSE
  FreedIntact = TRUE
  TestAPI = FALSE
SPECIFICATION Spec
INVARIANT NeverTerminates
