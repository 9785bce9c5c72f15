------------------------------ MODULE MCADDriver ------------------------------
EXTENDS ADDriver, TLC
CONSTANTS c1, c2, c3, c4, c5, m1, s1, f, g

MCCalls == {c1, c2, c3, c4, c5}
MCMetadata == {m1}
MCSamples == {s1}
MCRankOf == c1 :> 0 @@ c2 :> 0 @@ c3 :> 1 @@ c4 :> 0 @@ c5 :> 0 @@ m1 :> 0 @@ s1 :> 0
MCFunc == c1 :> f @@ c2 :> f @@ c3 :> f @@ c4 :> g @@ c5 :> f
MCThread == [c \in MCCalls |-> IF c = c5 THEN 1 ELSE 0]

Default == [ps |-> TRUE, jit |-> FALSE, min |-> 2, analysis |-> 1, prov |-> 1, stats |-> 1,
            sync |-> 1, maxFrames |-> -1, start |-> -1, stop |-> -1, period |-> 1, mayFail |-> FALSE]
Config(p0, p1, S) == [params |-> 0 :> p0 @@ 1 :> p1, stream |-> S, mpi |-> TRUE]
Off == [Default EXCEPT !.maxFrames = 0]
Staggered == [Default EXCEPT !.prov = 2, !.stats = 2, !.period = 2]
MCConfigs ==
  { Config(Default, [Default EXCEPT !.sync = 2, !.period = 2], {c1, c3}),
    Config([Default EXCEPT !.maxFrames = 1], [Default EXCEPT !.maxFrames = 2], {c1, c3, c4}),
    Config(Staggered, Off, {c1, c5}),
    Config([Default EXCEPT !.jit = TRUE, !.sync = 2, !.period = 2], Off, {c1, c2, m1}),
    Config([Default EXCEPT !.analysis = 2, !.min = 1, !.start = 1, !.stop = 3, !.period = 2], Off, {c1, s1}),
    Config([Default EXCEPT !.ps = FALSE, !.maxFrames = 2], Off, {c1, c2, c4}),
    Config([Default EXCEPT !.mayFail = TRUE], Off, {c1}),
    [Config([Default EXCEPT !.mayFail = TRUE], Off, {c1}) EXCEPT !.mpi = FALSE] }
===============================================================================
