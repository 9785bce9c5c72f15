CONSTANTS
  NWorkers = 2
  MaxUpdates = 2
  Restored = 1
SPECIFICATION FairSpec
CHECK_DEADLOCK FALSE
INVARIANTS
  NothingInvented
PROPERTIES
  GlobalNeverRegresses
  PublishesAndStops
