------------------------------ MODULE Histogram ------------------------------
(***************************************************************************)
(* Histogram and HistogramVBW: the histogram of the values of one function, *)
(* created from the data of an IO step, merged into another one, and read   *)
(* as an empirical distribution.  A bin (l, u] excludes its lower edge.     *)
(*                                                                          *)
(* Pure algorithms, over exact rational numbers.  What the code does to     *)
(* live with rounding is kept: the first edge is put a little below the     *)
(* smallest value, and a shift that is too small for the arithmetic         *)
(* (MinStepInv) is lost.  Bins are numbered from 1.                         *)
(*                                                                          *)
(* Abstracted: Scott's rule works on values in eighths and gives a width    *)
(* that is a multiple of 1/2; printing; JSON.                               *)
(***************************************************************************)
EXTENDS Rational, Sequences, SequencesExt

CONSTANTS
  ShiftInv,    \* 1 / getLowerBoundShiftMul, 1e6 in the code
  SlackInv,    \* 1 / the slack of binWidthFixedNbin, 1e3 in the code
  DeltaInv,    \* 1 / the relative width of a single value, 1e12 in the code
  MinStepInv,  \* bound: 1 / the smallest step of the arithmetic
  MaxMergeBins \* bound: most bins a merge accepts, 50000 in the code

ASSUME HistogramAssumption ==
  /\ {ShiftInv, SlackInv, DeltaInv, MinStepInv, MaxMergeBins} \subseteq Nat \ {0}

getLowerBoundShiftMul == <<1, ShiftInv>>

(* fatal: the operation that made it ended in fatal_error. *)
EmptyHistogram ==
  [fatal |-> FALSE, start |-> Zero, width |-> Zero, min |-> Zero, max |-> Zero, counts |-> <<>>]
FatalHistogram == [EmptyHistogram EXCEPT !.fatal = TRUE]

Sum(counts) == FoldLeft(LAMBDA a, b : a + b, 0, counts)

totalCount(h) == Sum(h.counts)
Nbin(h) == Len(h.counts)
SingleValue(h) == h.min = h.max

binEdgeLower(h, b) == Plus(h.start, Scaled(b - 1, h.width))
binEdgeUpper(h, b) == IF b = Nbin(h) THEN h.max ELSE Plus(h.start, Scaled(b, h.width))
binValue(h, b) == Plus(h.start, Over(Scaled(2 * b - 1, h.width), Whole(2)))
binEdges(h) == [b \in 1 .. Nbin(h) |-> <<binEdgeLower(h, b), binEdgeUpper(h, b)>>]

LeftOfHistogram == 0
RightOfHistogram == -1

(* The bin of v, which may lie tol widths outside. *)
getBin(h, v, tol) ==
  LET margin == Times(tol, h.width)
      b == Floor(Over(Minus(v, h.start), h.width)) + 1
  IN  IF AtMost(v, Minus(h.start, margin)) THEN LeftOfHistogram
      ELSE IF AtMost(v, h.start) THEN 1
      ELSE IF Below(Plus(h.max, margin), v) THEN RightOfHistogram
      ELSE IF AtMost(h.max, v) THEN Nbin(h)
      ELSE IF AtMost(v, binEdgeLower(h, b)) THEN b - 1 ELSE b

-----------------------------------------------------------------------------
(* Creating a histogram.                                                    *)

(* The bins asked for: n of them (binWidthFixedNbin), or as wide as Scott's *)
(* rule says (binWidthScott).                                               *)
FixedNbin(n) == [kind |-> "nbin", n |-> n]
Scott == [kind |-> "scott", n |-> 0]

(* A value, or the midpoint of a bin, in eighths, and how often it counts. *)
Eighths(v) == Floor(Scaled(8, v))
Weighted(values) == [i \in DOMAIN values |-> [v |-> Eighths(values[i]), c |-> 1]]
Unpacked(h) == [b \in 1 .. Nbin(h) |-> [v |-> Eighths(binValue(h, b)), c |-> h.counts[b]]]

(* 3.5^2 / n^(2/3), in quarters. *)
ScottFactor == <<49, 31, 24, 19, 17, 15, 13, 12>>

(* 3.5 stddev / n^(1/3), rounded up to a multiple of 1/2. *)
scottBinWidth(weighted) ==
  LET S(k) == Sum([i \in DOMAIN weighted |-> weighted[i].c * weighted[i].v ^ k])
      n == Sum([i \in DOMAIN weighted |-> weighted[i].c])
      var == n * S(2) - S(1) * S(1)
      square == Ceiling(<<ScottFactor[n] * var, 64 * n * n>>)
      Root[k \in Nat] == IF k * k >= square THEN k ELSE Root[k + 1]
  IN  Reduced(Root[0], 2)

bin_width(spec, weighted, min, max) ==
  IF spec.kind = "nbin"
  THEN Over(Minus(max, min), Minus(Minus(Whole(spec.n), getLowerBoundShiftMul), <<1, SlackInv>>))
  ELSE scottBinWidth(weighted)

(* x - d, with the precision of the arithmetic. *)
ShiftedDown(x, d) == IF Below(d, <<1, MinStepInv>>) THEN x ELSE Minus(x, d)

Magnitude(v) == IF Below(v, Zero) THEN Negated(v) ELSE v

(* All values are v: one bin that ends there. *)
HistogramOfOne(v, n) ==
  LET delta == IF v = Zero THEN <<1, DeltaInv>> ELSE Over(Magnitude(v), Whole(DeltaInv))
  IN  [fatal |-> FALSE, start |-> Minus(v, delta), width |-> delta,
       min |-> v, max |-> v, counts |-> <<n>>]

(* Bins of about width w, the last of which ends at max. *)
EmptyBins(min, max, w) ==
  LET first == ShiftedDown(min, Times(getLowerBoundShiftMul, w))
      nbin == Ceiling(Over(Minus(max, first), w))
  IN  [fatal |-> FALSE, start |-> first, width |-> Over(Minus(max, first), Whole(nbin)),
       min |-> min, max |-> max, counts |-> [b \in 1 .. nbin |-> 0]]

Smallest(values) == FoldLeft(Smaller, values[1], values)
Largest(values) == FoldLeft(Larger, values[1], values)

create_histogram(values, spec) ==
  LET min == Smallest(values)
      max == Largest(values)
      h == EmptyBins(min, max, bin_width(spec, Weighted(values), min, max))
      bin == [i \in DOMAIN values |-> getBin(h, values[i], Zero)]
  IN  IF min = max THEN HistogramOfOne(min, Len(values))
      ELSE IF \E i \in DOMAIN values : bin[i] \notin 1 .. Nbin(h) THEN FatalHistogram
      ELSE [h EXCEPT !.counts = [b \in 1 .. Nbin(h) |->
                                   Len(SelectSeq(bin, LAMBDA x : x = b))]]

-----------------------------------------------------------------------------
(* HistogramVBW: a chain of bins of any widths, which are split where a     *)
(* range begins or ends, and emptied into the ranges.                       *)

Import(h) == [b \in 1 .. Nbin(h) |->
                [l |-> binEdgeLower(h, b), u |-> binEdgeUpper(h, b), c |-> h.counts[b]]]

RECURSIVE FindBin(_, _, _)
FindBin(chain, i, v) ==
  IF i > Len(chain) THEN 0 ELSE IF AtMost(v, chain[i].u) THEN i ELSE FindBin(chain, i + 1, v)

(* Bin::getBin: the bin of v at or after bin i, 0 when v is not in one. *)
ChainBin(chain, i, v) ==
  IF i > Len(chain) THEN 0
  ELSE IF AtMost(v, chain[i].l) THEN 0
  ELSE FindBin(chain, i, v)

Round(p) == Floor(Plus(p, Half))

(* Mutant: both parts are rounded down. *)
Shares_RoundedDown(c, f) ==
  <<Floor(Scaled(c, f)), Floor(Scaled(c, Minus(Whole(1), f)))>>

(* The two parts of a count, the first being the fraction f. *)
Shares(c, f) ==
  LET left == Round(Scaled(c, f))
      right == Round(Scaled(c, Minus(Whole(1), f)))
      debt == c - left - right
  IN  IF Below(f, Minus(Whole(1), f)) THEN <<left, right + debt>> ELSE <<left + debt, right>>

(* Bin::split and Bin::insertRight. *)
Split(chain, i, about) ==
  LET bin == chain[i]
      part == Shares(bin.c, Over(Minus(about, bin.l), Minus(bin.u, bin.l)))
  IN  IF about = bin.u THEN chain
      ELSE SubSeq(chain, 1, i - 1)
           \o <<[bin EXCEPT !.u = about, !.c = part[1]], [bin EXCEPT !.l = about, !.c = part[2]]>>
           \o SubSeq(chain, i + 1, Len(chain))

Emptied(chain, i, j) ==
  [b \in DOMAIN chain |-> IF b \in i .. j THEN [chain[b] EXCEPT !.c = 0] ELSE chain[b]]

CountBetween(chain, i, j) == Sum([b \in 1 .. (j - i + 1) |-> chain[i + b - 1].c])

CutAt(chain, i, about) == IF i = 0 THEN chain ELSE Split(chain, i, about)

(* The bins from the first up to u, which is in bin j (0: beyond the chain). *)
TakenUpTo(chain, first, j, u) ==
  LET cut == CutAt(chain, j, u)
      last == IF j = 0 THEN Len(chain) ELSE j
  IN  [chain |-> Emptied(cut, first, last), last |-> last,
       count |-> CountBetween(cut, first, last)]

(* The chain is cut at l, where its bin i ends (0: l is not in the chain). *)
TakenAfter(chain, i, from, l, u) ==
  LET j == IF i = Len(chain) THEN 0 ELSE ChainBin(chain, i + 1, u)
      right == i = Len(chain) \/ (i = 0 /\ Below(chain[Len(chain)].u, l))
      left == j = 0 /\ AtMost(u, chain[1].l)
  IN  IF right \/ left THEN [chain |-> chain, last |-> from, count |-> 0]
      ELSE TakenUpTo(chain, i + 1, j, u)

(* The count of the range (l, u], whose bins are emptied; the search starts *)
(* at bin from.                                                             *)
ExtractRange(chain, from, l, u) ==
  LET i == ChainBin(chain, from, l) IN TakenAfter(CutAt(chain, i, l), i, from, l, u)

(* One count per range of edges, from its k-th; the search starts at bin    *)
(* from, where the previous range ended.                                    *)
RECURSIVE ExtractRanges(_, _, _, _)
ExtractRanges(chain, from, edges, k) ==
  IF k > Len(edges) THEN <<>>
  ELSE LET r == ExtractRange(chain, from, edges[k][1], edges[k][2])
       IN  <<r.count>> \o ExtractRanges(r.chain, r.last, edges, k + 1)

(* The same, each range by itself (extractUniformCountInRangeInt). *)
RECURSIVE ExtractOneByOne(_, _, _)
ExtractOneByOne(chain, edges, k) ==
  IF k > Len(edges) THEN <<>>
  ELSE LET r == ExtractRange(chain, 1, edges[k][1], edges[k][2])
       IN  <<r.count>> \o ExtractOneByOne(r.chain, edges, k + 1)

(* The range that a histogram of a single value falls into. *)
RangeOf(v, edges) == {k \in DOMAIN edges : Below(edges[k][1], v) /\ AtMost(v, edges[k][2])}

(* extractUniformCountInRangesInt *)
Extract(h, edges) ==
  IF SingleValue(h) /\ RangeOf(h.max, edges) # {}
  THEN [k \in DOMAIN edges |-> IF k \in RangeOf(h.max, edges) THEN h.counts[1] ELSE 0]
  ELSE ExtractRanges(Import(h), 1, edges, 1)

-----------------------------------------------------------------------------
(* merge_histograms                                                         *)

TooFine(w, min, max) ==
  IF w = Zero THEN TRUE ELSE Ceiling(Over(Minus(max, min), w)) > MaxMergeBins

(* The bins of the merged histogram.  When all values are the same the      *)
(* shift below them may be lost: the bin is then as wide as asked for.      *)
MergedBins(min, max, w) ==
  IF min = max /\ ShiftedDown(min, Times(getLowerBoundShiftMul, w)) = min
  THEN [fatal |-> FALSE, start |-> Minus(min, w), width |-> w,
        min |-> min, max |-> max, counts |-> <<0>>]
  ELSE EmptyBins(min, max, w)

AddCounts(a, b) == [k \in DOMAIN a |-> a[k] + b[k]]

merge_histograms(g, l, spec) ==
  IF g.fatal \/ l.fatal THEN FatalHistogram
  ELSE IF Nbin(g) = 0 THEN l
  ELSE IF Nbin(l) = 0 THEN g
  ELSE
    LET min == Smaller(g.min, l.min)
        max == Larger(g.max, l.max)
        suggested == bin_width(spec, Unpacked(g) \o Unpacked(l), min, max)
        w == IF TooFine(suggested, min, max) THEN Smaller(g.width, l.width) ELSE suggested
        combined == MergedBins(min, max, w)
        edges == binEdges(combined)
    IN  IF TooFine(w, min, max) THEN FatalHistogram
        ELSE [combined EXCEPT !.counts = AddCounts(Extract(g, edges), Extract(l, edges))]

-----------------------------------------------------------------------------
(* Reading a histogram.                                                     *)

(* The bins turned round, for the distribution of the negated values. *)
Mirrored(h) ==
  [h EXCEPT !.counts = Reverse(h.counts),
            !.min = Negated(h.max), !.max = Negated(h.min),
            !.start = Minus(Negated(h.max), Times(getLowerBoundShiftMul, h.width))]

(* The part (l, u] of bin b. *)
PartOfBin(h, b, l, u) ==
  Times(Whole(h.counts[b]), Over(Minus(u, l), Minus(binEdgeUpper(h, b), binEdgeLower(h, b))))

(* Mutant: the part of the last bin is taken from its upper edge. *)
CountInBins_WrongEdge(h, i, j, l, u) ==
  IF i = j THEN PartOfBin(h, i, l, u)
  ELSE Plus(Plus(PartOfBin(h, i, l, binEdgeUpper(h, i)), PartOfBin(h, j, u, binEdgeUpper(h, j))),
            Whole(Sum(SubSeq(h.counts, i + 1, j - 1))))

(* The count in (l, u], which begins in bin i and ends in bin j. *)
CountInBins(h, i, j, l, u) ==
  IF i = j THEN PartOfBin(h, i, l, u)
  ELSE Plus(Plus(PartOfBin(h, i, l, binEdgeUpper(h, i)), PartOfBin(h, j, binEdgeLower(h, j), u)),
            Whole(Sum(SubSeq(h.counts, i + 1, j - 1))))

(* An end that lies outside is moved to the first or the last edge. *)
CountWithin(h, lbin, ubin, l, u) ==
  IF lbin = RightOfHistogram \/ ubin = LeftOfHistogram THEN Zero
  ELSE CountInBins(h,
         IF lbin = LeftOfHistogram THEN 1 ELSE lbin,
         IF ubin = RightOfHistogram THEN Nbin(h) ELSE ubin,
         IF lbin = LeftOfHistogram THEN binEdgeLower(h, 1) ELSE l,
         IF ubin = RightOfHistogram THEN h.max ELSE u)

(* uniformCountInRange: the count in (l, u], the values of a bin being      *)
(* spread evenly.                                                           *)
UniformCount(h, l, u) ==
  IF SingleValue(h) THEN IF Below(l, h.max) /\ AtMost(h.max, u) THEN Whole(h.counts[1]) ELSE Zero
  ELSE CountWithin(h, getBin(h, l, Zero), getBin(h, u, Zero), l, u)

(* The values at most v, as a fraction; Lowest is below every value. *)
Lowest == Whole(-100)
empiricalCDF(h, v) == Over(UniformCount(h, Lowest, v), Whole(totalCount(h)))

(* The sign of skewness - s, for s = 1 or -1, of the distribution of the    *)
(* midpoints; 0 when they are all the same (not a number).  Skewness does   *)
(* not depend on start and width.                                           *)
SkewnessSign(h, s) ==
  LET n == totalCount(h)
      S(k) == Sum([b \in 1 .. Nbin(h) |-> h.counts[b] * (b - 1) ^ k])
      var == n * S(2) - S(1) * S(1)
      third == n * n * S(3) - 3 * n * S(1) * S(2) + 2 * S(1) ^ 3
      excess == n * n * third * third - (n - 1) * (n - 1) * var ^ 3
      Sign(x) == IF x < 0 THEN -1 ELSE IF x > 0 THEN 1 ELSE 0
  IN  IF var = 0 THEN 0
      ELSE IF s * third <= 0 THEN -s
      ELSE s * Sign(excess)
=============================================================================
