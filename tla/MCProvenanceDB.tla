---------------------------- MODULE MCProvenanceDB ----------------------------
EXTENDS ProvenanceDB, TLC
CONSTANTS x0, y0, x1, n1, f, g

\* Function f has an anomaly of each rank that stays and a normal execution, g one
\* anomaly that does not stay.
MCRankOf == x0 :> 0 @@ y0 :> 0 @@ x1 :> 1 @@ n1 :> 1
MCFuncOf == x0 :> f @@ y0 :> g @@ x1 :> f @@ n1 :> f
Choice(ranks, shards, instances, auto, prune) ==
  [ranks |-> ranks, shards |-> shards, instances |-> instances, auto |-> auto, prune |-> prune]

\* Two instances of which each serves a rank, and one that serves both shards.
Several == Choice(2, 2, 2, TRUE, TRUE)
MCSetups ==
  {Several, Choice(2, 2, 2, TRUE, FALSE), Choice(2, 2, 1, TRUE, TRUE), Choice(2, 1, 1, FALSE, TRUE)}
SeveralSetups == {Several}
UnevenSetups == {Choice(2, shards, 4, TRUE, FALSE) : shards \in 4 .. 8}
===============================================================================
