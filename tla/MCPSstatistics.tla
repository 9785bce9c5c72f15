---------------------------- MODULE MCPSstatistics ----------------------------
EXTENDS PSstatistics, TLC
CONSTANTS d1, d2, a, b, f, g

MCData == {d1, d2}
MCRankOf == d1 :> a @@ d2 :> b
MCFunc == d1 :> f @@ d2 :> f
MCRestored == {<<>>, g :> 1}
===============================================================================
