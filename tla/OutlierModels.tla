---------------------------- MODULE OutlierModels ----------------------------
(***************************************************************************)
(* The models of the outlier algorithms (SSTD: RunStats; HBOS and COPOD: a  *)
(* histogram), for one function: what ADOutlier::run makes of the values of *)
(* an IO step, how local models are merged into the one of the parameter    *)
(* server or into the rank's own, and which values are labelled outliers.   *)
(*                                                                          *)
(* The parameter server is one worker and the time at which its updates     *)
(* become visible (Publish); PSparamManager has the rest of it.             *)
(***************************************************************************)
EXTENDS Histogram, RunStats, FiniteSets

CONSTANTS
  Ranks,          \* 0 .. number of AD ranks - 1
  Batches,        \* the sequences of values a data set can have in a step
  MaxBins,        \* hbos_max_bins
  Threshold,      \* m_threshold of HBOS and COPOD, in percent
  Sigma,          \* m_sigma
  SyncFreq,       \* m_global_model_sync_freq
  MaxRuns         \* bound: calls of run

ASSUME OutlierModelsAssumption ==
  /\ Ranks \subseteq Nat
  /\ MaxBins \in Nat \ {0}
  /\ Threshold \in 0 .. 100
  /\ SyncFreq \in Nat \ {0}

VARIABLES
  algorithm,  \* AlgoParams::algorithm
  accumulate, \* do the statistics keep the sum?
  connected,  \* m_use_ps
  global,     \* the parameter server's model
  published,  \* the serialised copy that it answers with
  local,      \* local[r]: m_local_param
  model,      \* model[r]: m_param
  syncCount,  \* syncCount[r]: m_sync_call_count
  inGlobal,   \* history: the values in global
  inPublished,\* history: the values in published
  data,       \* data[r]: history, the values in model[r]
  pending,    \* pending[r]: history, the values in local[r]
  last        \* history: what the last call of run did

vars == <<algorithm, accumulate, connected, global, published, local, model, syncCount,
          inGlobal, inPublished, data, pending, last>>

(* log2(1.00001), in hundredths of the unit of the scores. *)
LeastThreshold == 1

EmptyModel ==
  [hist |-> EmptyHistogram, threshold |-> LeastThreshold, stats |-> EmptyStats(FALSE)]

-----------------------------------------------------------------------------
(* The model of the values of one step.                                     *)

(* At most MaxBins bins in HBOS, those of Scott's rule in COPOD. *)
AskedBins == IF algorithm = "hbos" THEN FixedNbin(MaxBins) ELSE Scott

(* The threshold of HBOS begins with 0, so that it is overridden by the merge. *)
FirstThreshold == IF algorithm = "hbos" THEN 0 ELSE LeastThreshold

GeneratedSstd(batch) == [EmptyModel EXCEPT !.stats = pushAll(EmptyStats(accumulate), batch)]

GeneratedHistogram(batch) ==
  [EmptyModel EXCEPT !.hist = create_histogram(batch, AskedBins), !.threshold = FirstThreshold]

Generated(batch) ==
  IF batch = <<>> THEN EmptyModel
  ELSE IF algorithm = "sstd" THEN GeneratedSstd(batch) ELSE GeneratedHistogram(batch)

MaxInt(m, n) == IF m < n THEN n ELSE m

(* update: model b is merged into model a.  The more stringent threshold is *)
(* kept. *)
UpdateSstd(a, b) == [a EXCEPT !.stats = Merged(a.stats, b.stats)]

UpdateHistogram(a, b) ==
  [a EXCEPT !.hist = merge_histograms(a.hist, b.hist, AskedBins),
            !.threshold = MaxInt(a.threshold, b.threshold)]

Update(a, b) == IF algorithm = "sstd" THEN UpdateSstd(a, b) ELSE UpdateHistogram(a, b)

(* assign and clear. *)
Assigned(m, answer) == answer
Flushed(m) == EmptyModel

-----------------------------------------------------------------------------
(* labelData                                                                *)

Outlier == "outlier"
Normal == "normal"
None == "none"

(* log2 of x >= 1, in units of 2^-10 bits: k bits of the fraction of m / 2^14. *)
RECURSIVE Log2Fraction(_, _)
Log2Fraction(m, k) ==
  LET square == (m * m) \div 2 ^ 14 IN
  IF k = 0 THEN 0
  ELSE IF square >= 2 ^ 15 THEN 2 ^ (k - 1) + Log2Fraction(square \div 2, k - 1)
  ELSE Log2Fraction(square, k - 1)

RECURSIVE Log2(_)
Log2(x) ==
  IF Below(x, Whole(2)) THEN Log2Fraction(Floor(Scaled(2 ^ 14, x)), 10)
  ELSE 2 ^ 10 + Log2(Over(x, Whole(2)))

(* -log2(p + alpha), of p rounded up to a multiple of 2^-12; without alpha, *)
(* but for the score of 0, 99.657 bits.                                     *)
MaxScore == 102049
Score(p) == IF p = Zero THEN MaxScore ELSE Log2(Reduced(2 ^ 12, Ceiling(Scaled(2 ^ 12, p))))

ScoreOfCount(h, c) == Score(Reduced(c, totalCount(h)))

Tolerance == <<1, 20>>

HbosScore(h, v) ==
  LET b == getBin(h, v, Tolerance) IN
  IF b \in 1 .. Nbin(h) THEN ScoreOfCount(h, h.counts[b]) ELSE MaxScore

LeastOf(numbers) == CHOOSE x \in numbers : \A y \in numbers : x <= y
MostOf(numbers) == CHOOSE x \in numbers : \A y \in numbers : y <= x

MostIn(h) == MostOf({h.counts[b] : b \in 1 .. Nbin(h)})
LeastIn(h) == LeastOf({h.counts[b] : b \in 1 .. Nbin(h)} \ {0})

(* Mutant: the fraction of the range is not added. *)
HbosLocalThreshold_NoRange(h) == 100 * ScoreOfCount(h, MostIn(h))

(* The threshold at a fraction of the range of the scores in the histogram. *)
HbosLocalThreshold(h) ==
  LET min == ScoreOfCount(h, MostIn(h))
      max == ScoreOfCount(h, LeastIn(h))
  IN  100 * min + Threshold * (max - min)

(* The probability of a value at most v.  From the smallest one on the      *)
(* distribution is shifted by one value, for its first edge is below it.    *)
TailProb(h, v) ==
  LET p == empiricalCDF(h, v) IN
  IF AtMost(h.min, v) THEN Smaller(Whole(1), Plus(p, Reduced(1, totalCount(h)))) ELSE p

(* The average of the scores of both tails, or their skewness corrected     *)
(* sum; doubled.                                                            *)
BothTails(h, left, right) ==
  MaxInt(left + right, 2 * (right * SkewnessSign(h, -1) - left * SkewnessSign(h, 1)))

(* copod_score *)
CopodScore(h, v) ==
  BothTails(h, Score(TailProb(h, v)), Score(TailProb(Mirrored(h), Negated(v))))

(* At a fraction of a range, which may be below 0. *)
FractionOf(min, max) ==
  IF max < 0 THEN -Threshold * (max - min) ELSE 100 * min + Threshold * (max - min)

ThresholdAmong(scores) == FractionOf(LeastOf(scores \cup {2 * MaxScore}), MostOf(scores))

(* At a fraction of the range of the scores of the bins. *)
CopodLocalThreshold(h) == ThresholdAmong({CopodScore(h, binValue(h, b)) : b \in 1 .. Nbin(h)})

(* The more stringent of the threshold of the model and that of its data. *)
ThresholdOf(m) ==
  MaxInt(IF algorithm = "hbos" THEN HbosLocalThreshold(m.hist) ELSE CopodLocalThreshold(m.hist),
         m.threshold)

ScoreOf(h, v) == IF algorithm = "hbos" THEN HbosScore(h, v) ELSE CopodScore(h, v)

LabelOf(score, threshold) == IF 100 * score >= threshold THEN Outlier ELSE Normal

(* The most stringent threshold is kept in the model, for the labels too. *)
Thresholded(m, batch) ==
  IF Nbin(m.hist) > 0 /\ batch # <<>> THEN [m EXCEPT !.threshold = ThresholdOf(m)] ELSE m

HistogramLabels(m, batch) ==
  [i \in DOMAIN batch |-> LabelOf(ScoreOf(m.hist, batch[i]), m.threshold)]

SstdLabels(m, batch) ==
  [i \in DOMAIN batch |->
     IF Below(Scaled(Sigma * Sigma, variance(m.stats)), Power(Minus(batch[i], m.stats.eta), 2))
     THEN Outlier ELSE Normal]

Labels(m, batch) ==
  IF algorithm = "sstd" /\ m.stats.count >= 2 THEN SstdLabels(m, batch)
  ELSE IF Nbin(m.hist) > 0 THEN HistogramLabels(m, batch)
  ELSE [i \in DOMAIN batch |-> None]

-----------------------------------------------------------------------------
Init ==
  /\ algorithm \in {"sstd", "hbos", "copod"}
  /\ accumulate \in IF algorithm = "sstd" THEN BOOLEAN ELSE {FALSE}
  /\ connected \in BOOLEAN
  /\ global = EmptyModel
  /\ published = EmptyModel
  /\ local = [r \in Ranks |-> EmptyModel]
  /\ model = [r \in Ranks |-> EmptyModel]
  /\ syncCount = [r \in Ranks |-> 0]
  /\ inGlobal = <<>> /\ inPublished = <<>>
  /\ data = [r \in Ranks |-> <<>>]
  /\ pending = [r \in Ranks |-> <<>>]
  /\ last = [batch |-> <<>>, part |-> EmptyModel, merges |-> {}, model |-> EmptyModel, labels |-> <<>>]

(* updateGlobalModel: at the first call, and then staggered over the ranks. *)
Synchronizes(r) == syncCount[r] = 0 \/ (syncCount[r] + r) % SyncFreq = 0

Alive == ~\E m \in {global} \cup {local[r] : r \in Ranks} \cup {model[r] : r \in Ranks} : m.hist.fatal

SumOver(f) == FoldFunction(LAMBDA a, b : a + b, 0, f)

(* sync_param: the model that mine is merged into, and the one that the     *)
(* values are then labelled with. *)
MergedInto(r) == IF connected THEN global ELSE model[r]
ModelAfter(r, merged) == IF connected THEN Assigned(model[r], published) ELSE merged

(* run of rank r: the part of the step joins the local model; this one is   *)
(* sent to the server, which answers with what it has published, or joins   *)
(* the rank's own model; the values are labelled with the rank's model.     *)
Run(r, batch) ==
  /\ Alive
  /\ SumOver(syncCount) < MaxRuns
  /\ \E part \in {Generated(batch)} : \E mine \in {Update(local[r], part)} :
     \E sync \in {Synchronizes(r)} :
     \E merged \in {IF sync THEN Update(MergedInto(r), mine) ELSE EmptyModel} :
     \E now \in {Thresholded(IF sync THEN ModelAfter(r, merged) ELSE model[r], batch)} :
       /\ global' = IF sync /\ connected THEN merged ELSE global
       /\ local' = [local EXCEPT ![r] = IF sync THEN Flushed(mine) ELSE mine]
       /\ model' = [model EXCEPT ![r] = now]
       /\ pending' = [pending EXCEPT ![r] = IF sync THEN <<>> ELSE @ \o batch]
       /\ inGlobal' = IF sync /\ connected THEN inGlobal \o pending[r] \o batch ELSE inGlobal
       /\ data' = IF ~sync THEN data
                  ELSE [data EXCEPT ![r] = IF connected THEN inPublished
                                           ELSE @ \o pending[r] \o batch]
       /\ last' = [batch |-> batch, part |-> part,
                   merges |-> {<<local[r].hist, part.hist, mine.hist>>} \cup
                     IF sync THEN {<<MergedInto(r).hist, mine.hist, merged.hist>>} ELSE {},
                   model |-> now,
                   labels |-> IF now.hist.fatal THEN <<>> ELSE Labels(now, batch)]
  /\ syncCount' = [syncCount EXCEPT ![r] = @ + 1]
  /\ UNCHANGED <<algorithm, accumulate, connected, published, inPublished>>

(* The server's merger makes the updates received so far visible. *)
Publish ==
  /\ connected /\ Alive
  /\ published # global
  /\ published' = global
  /\ inPublished' = inGlobal
  /\ UNCHANGED <<algorithm, accumulate, connected, global, local, model, syncCount,
                 inGlobal, data, pending, last>>

(* Without a server the ranks have nothing to do with each other. *)
Running == IF connected THEN Ranks ELSE {CHOOSE r \in Ranks : TRUE}

Next ==
  \/ \E r \in Running, batch \in Batches : Run(r, batch)
  \/ Publish

Spec == Init /\ [][Next]_vars

-----------------------------------------------------------------------------
(* Properties.                                                              *)

(* h is a histogram of the given values: it counts each one, knows their    *)
(* extremes and begins with the bin of the smallest.                        *)
CountsAll(h, values) ==
  /\ ~h.fatal
  /\ totalCount(h) = Len(values)
  /\ values # <<>> =>
       /\ h.min = Smallest(values) /\ h.max = Largest(values)
       /\ Below(h.start, h.min) /\ AtMost(h.min, Plus(h.start, h.width))

AllCounted ==
  /\ CountsAll(global.hist, inGlobal)
  /\ \A r \in Ranks : CountsAll(local[r].hist, pending[r]) /\ CountsAll(model[r].hist, data[r])

(* No value is lost or counted twice on its way, through any merges and     *)
(* synchronisations, into the model of the server or of a rank, and the     *)
(* histograms of HBOS never outgrow their maximum and never fail to merge   *)
(* (ADOutlierHBOS::run, updateGlobalModel, merge_histograms).               *)
EveryValueCounted ==
  algorithm = "hbos" =>
    AllCounted /\ Nbin(global.hist) <= MaxBins /\ \A r \in Ranks : Nbin(model[r].hist) <= MaxBins

(* The same of COPOD: the merged histogram is the union of the two          *)
(* (Histogram.hpp, merge_histograms).                                       *)
MergedIsUnion == algorithm = "copod" /\ Alive => AllCounted

Cumulated(h, b) == Sum(SubSeq(h.counts, 1, b))

SumWhere(h, P(_)) == Sum([b \in 1 .. Nbin(h) |-> IF P(b) THEN h.counts[b] ELSE 0])

SurelyBelow(h, e) == SumWhere(h, LAMBDA b : AtMost(binEdgeUpper(h, b), e))
PossiblyBelow(h, e) ==
  SumWhere(h, LAMBDA b : IF SingleValue(h) THEN AtMost(h.max, e) ELSE Below(binEdgeLower(h, b), e))

(* A value never leaves its neighbourhood: a histogram made of values has   *)
(* in each bin those between its edges, and a merge moves counts only       *)
(* within the bin they were in, so that at each edge of the result the      *)
(* distribution lies between the two that are possible (getBin, Bin::split, *)
(* extractUniformCountInRangesInt).                                         *)
ValuesStayInTheirBins ==
  algorithm = "hbos" =>
    /\ LET h == last.part.hist IN
         ~h.fatal /\ Nbin(h) > 1 =>
           \A b \in 1 .. Nbin(h) :
             h.counts[b] = Len(SelectSeq(last.batch, LAMBDA v : Below(binEdgeLower(h, b), v)
                                                              /\ AtMost(v, binEdgeUpper(h, b))))
    /\ \A t \in last.merges : ~t[3].fatal =>
         /\ \A h \in {t[1], t[2]} : Nbin(h) > 0 /\ ~SingleValue(h) =>
              Extract(h, binEdges(t[3])) = ExtractOneByOne(Import(h), binEdges(t[3]), 1)
         /\ \A b \in 1 .. Nbin(t[3]) :
              LET e == binEdgeUpper(t[3], b) IN
              /\ SurelyBelow(t[1], e) + SurelyBelow(t[2], e) <= Cumulated(t[3], b)
              /\ Cumulated(t[3], b) <= PossiblyBelow(t[1], e) + PossiblyBelow(t[2], e)

Overlap(h, b, l, u) ==
  LET from == Larger(binEdgeLower(h, b), l)
      to == Smaller(binEdgeUpper(h, b), u)
  IN  IF Below(from, to)
      THEN Over(Minus(to, from), Minus(binEdgeUpper(h, b), binEdgeLower(h, b))) ELSE Zero

SpreadEvenly(h, l, u) ==
  IF SingleValue(h) THEN Whole(IF Below(l, h.max) /\ AtMost(h.max, u) THEN h.counts[1] ELSE 0)
  ELSE SumOf([b \in 1 .. Nbin(h) |-> Scaled(h.counts[b], Overlap(h, b, l, u))])

Points == {<<n, 2>> : n \in {-7, -2, -1, 0, 1, 3, 9}}

Thousandths(p) == Ceiling(Scaled(1000, p))

(* The values above u are those below -u in the mirror image, whose bins    *)
(* may be off by the part of a bin that lies below the first value.         *)
MirrorsTheRest(h, u) ==
  LET both == Thousandths(UniformCount(h, Lowest, u))
              + Thousandths(UniformCount(Mirrored(h), Lowest, Negated(u)))
      below == Plus(getLowerBoundShiftMul, Over(Minus(h.min, h.start), h.width))
  IN  AbsInt(both - 1000 * totalCount(h)) <= 2 + MostIn(h) * Thousandths(below)

(* The count in a range, and so the distribution function, of a histogram   *)
(* or of its mirror image, is the sum over the bins of the part of the bin  *)
(* that the range covers, and the mirror image counts what the histogram    *)
(* leaves out (uniformCountInRange, empiricalCDF, operator-).               *)
RangeCountsExact ==
  algorithm = "copod" =>
    \A t \in last.merges : ~t[3].fatal /\ Nbin(t[3]) > 0 =>
      \A h \in {t[3], Mirrored(t[3])} : \A u \in Points :
        /\ \A l \in {p \in Points : Below(p, u)} : UniformCount(h, l, u) = SpreadEvenly(h, l, u)
        /\ AtMost(h.max, u) => empiricalCDF(h, u) = Whole(1)
        /\ ~SingleValue(h) => MirrorsTheRest(h, u)

\* Histograms keep the distribution of the values: where they are merged, and
\* where a part of a bin is asked for.
DistributionsKept == ValuesStayInTheirBins /\ RangeCountsExact

CountAt(h, v) ==
  LET b == getBin(h, v, Tolerance) IN IF b \in 1 .. Nbin(h) THEN h.counts[b] ELSE 0

LabelledAs(x) == {last.batch[i] : i \in {j \in DOMAIN last.labels : last.labels[j] = x}}

HbosOutliersAreRare ==
  \A v \in LabelledAs(Outlier) :
    LET h == last.model.hist IN
    /\ \A n \in LabelledAs(Normal) : CountAt(h, v) < CountAt(h, n)
    /\ CountAt(h, v) = MostIn(h) =>
         LeastIn(h) = MostIn(h) /\ Cardinality({b \in 1 .. Nbin(h) : h.counts[b] > 0}) > 1

CopodOutliersAreRare ==
  ~last.model.hist.fatal /\ Nbin(last.model.hist) > 0 /\ last.batch # <<>> =>
    \E h \in {last.model.hist} :
    \E score \in {[v \in Points |-> CopodScore(h, v)]} :
    \E upper \in {[v \in Points |->
                     Score(TailProb(Mirrored(h), Negated(v))) - Score(TailProb(h, v))]} :
      \A v \in Points : 100 * score[v] >= last.model.threshold =>
        \A p \in Points :
          (upper[v] >= 0 /\ Below(v, p)) \/ (upper[v] <= 0 /\ Below(p, v))
            => 100 * score[p] >= last.model.threshold

(* HBOS: an outlier is never in a fuller bin than a normal value of the     *)
(* step, and, unless all bins that have values are equally full, never in   *)
(* the fullest one.  COPOD: whatever lies further out than an outlier, on   *)
(* its side of the median, is an outlier too (labelData, copod_score).      *)
OutliersAreRare ==
  CASE algorithm = "hbos" -> HbosOutliersAreRare
    [] algorithm = "copod" -> CopodOutliersAreRare
    [] algorithm = "sstd" -> TRUE

Moment(values, k) ==
  LET mean == Over(SumOf(values), Whole(Len(values)))
  IN  SumOf([i \in DOMAIN values |-> Power(Minus(values[i], mean), k)])

(* However the values came in, by steps, by ranks and through merges, the   *)
(* statistics are those of all of them: mean, second to fourth moments,     *)
(* extremes (the largest is at least the least positive double), sum        *)
(* (RunStats::push, operator+).                                             *)
StatsOf(s, values) ==
  /\ s.count = Len(values)
  /\ values # <<>> =>
       /\ s.eta = Over(SumOf(values), Whole(Len(values)))
       /\ s.rho = Moment(values, 2) /\ s.tau = Moment(values, 3) /\ s.phi = Moment(values, 4)
       /\ s.min = Smallest(values) /\ s.max = Larger(Largest(values), <<1, TinyInv>>)
       /\ s.accumulate => s.acc = SumOf(values)

MomentsExact ==
  algorithm = "sstd" =>
    /\ StatsOf(global.stats, inGlobal)
    /\ \A r \in Ranks : StatsOf(local[r].stats, pending[r]) /\ StatsOf(model[r].stats, data[r])
=============================================================================
