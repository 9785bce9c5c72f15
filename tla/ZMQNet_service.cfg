CONSTANTS
  Client = {c1, c2}
  Worker = {w1, w2}
  None = None
  Faulty = {c1}
  Interrupts = {"timeout", "signal", "stop"}
  AutoShutdown = TRUE
  Commands = {"request", "stopServer"}
  MaxPollMsg = 2
  MaxRequests = 1
SPECIFICATION FairSpec
CHECK_DEADLOCK FALSE
INVARIANTS
  StopsSafely
PROPERTIES
  ServesRequests
  ServesAndEnds
