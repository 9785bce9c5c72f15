CONSTANTS
  Thread = {t1, t2}
  MaxTasks = 4
SPECIFICATION FairSpec
CHECK_DEADLOCK FALSE
INVARIANTS
  TasksKept
  InOrder
PROPERTIES
  CallsReturn
