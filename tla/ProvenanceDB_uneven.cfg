SPECIFICATION Spec
CONSTANTS
  x0 = x0
  y0 = y0
  x1 = x1
  n1 = n1
  f = f
  g = g
  Records = {x0, y0, x1, n1}
  Anomalies = {x0, y0, x1}
  Stays = {x0, x1, n1}
  RankOf <- MCRankOf
  FuncOf <- MCFuncOf
  Setups <- UnevenSetups
CHECK_DEADLOCK FALSE
INVARIANT
  ShardsServed
