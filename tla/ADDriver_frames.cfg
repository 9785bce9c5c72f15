SPECIFICATION Spec
CONSTANTS
  c1 = c1
  c2 = c2
  c3 = c3
  c4 = c4
  c5 = c5
  m1 = m1
  s1 = s1
  f = f
  g = g
  Calls <- MCCalls
  Metadata <- MCMetadata
  Samples <- MCSamples
  RankOf <- MCRankOf
  Func <- MCFunc
  Thread <- MCThread
  Short = {c4}
  Configs <- MCConfigs
CHECK_DEADLOCK FALSE
INVARIANTS
  ModelsExact
  OutliersReportedOnce
  NormalForEveryAnomaly
PROPERTIES
  Exits
