CONSTANTS
  Client = {c1}
  Worker = {w1, w2}
  None = None
  Faulty = {}
  Interrupts = {"signal"}
  AutoShutdown = TRUE
  Commands = {"request"}
  MaxPollMsg = 2
  MaxRequests = 1
SPECIFICATION Spec
CHECK_DEADLOCK FALSE
INVARIANTS ShutsDownGracefully
