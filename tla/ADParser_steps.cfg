SPECIFICATION Spec
CONSTANTS
  f1 = f1
  f2 = f2
  Func = {f1, f2}
  Late = {f2}
  DataKind = {"comm", "corrid", "monitor"}
  Watched = {"monitor"}
  MaxTime = 2
  MaxEvents = 5
  MaxData = 2
  MaxSteps = 2
CHECK_DEADLOCK FALSE
INVARIANTS
  ReconstructionExact
  DataWhereItBelongs
  NodeStateIsLatest
PROPERTIES
  NoneLeftUnclaimed
