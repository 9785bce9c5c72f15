CONSTANTS
  NWorkers = 2
  MaxUpdates = 2
  Restored = 1
SPECIFICATION ManagerSpec
CHECK_DEADLOCK FALSE
INVARIANTS AnswerHasOwnUpdate
