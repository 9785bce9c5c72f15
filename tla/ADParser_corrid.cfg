SPECIFICATION Spec
CONSTANTS
  f1 = f1
  f2 = f2
  Func = {f1, f2}
  Late = {}
  DataKind = {"corrid"}
  Watched = {}
  MaxTime = 0
  MaxEvents = 5
  MaxData = 2
  MaxSteps = 2
CHECK_DEADLOCK FALSE
INVARIANTS
  OneCorrelationID
