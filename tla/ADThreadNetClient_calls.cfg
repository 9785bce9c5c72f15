CONSTANT MaxCalls = 5
SPECIFICATION FairSpec
CHECK_DEADLOCK FALSE
INVARIANTS
  RequestsSafe
  TimeoutInForce
PROPERTIES
  CarriesOutInOrder
  NothingForgotten
