CONSTANTS
  Thread = {cpu, gpu}
  GPUThread = {gpu}
  CorrID = {k1, k2}
  NoCall = NoCall
  MaxCalls = 3
  MaxCids = 2
  WindowSize = 1
  LaunchFirst = FALSE
  FreedIntact = TRUE
  TestAPI = TRUE
SPECIFICATION Spec
SYMMETRY Symmetry
CHECK_DEADLOCK FALSE
PROPERTY WindowKept
