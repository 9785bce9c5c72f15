SPECIFICATION Spec
CONSTANTS
  d1 = d1
  d2 = d2
  a = a
  b = b
  f = f
  g = g
  N = 2
  Data <- MCData
  RankOf <- MCRankOf
  Func <- MCFunc
  Anomalous = {d1}
  Restored <- MCRestored
CHECK_DEADLOCK FALSE
INVARIANTS
  PacketsExact
  FinalDataExact
PROPERTIES
  AllShown
