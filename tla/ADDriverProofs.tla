---------------------------- MODULE ADDriverProofs ----------------------------
(***************************************************************************)
(* Theorems about ADDriver, for any number of ranks, any streams and any    *)
(* configurations: what models are made of, that outliers are reported      *)
(* once, and the normal executions that go with anomalies.                  *)
(***************************************************************************)
EXTENDS ADDriver, FiniteSetTheorems, FunctionTheorems, TLAPS

-----------------------------------------------------------------------------
(* Tallies.                                                                 *)

LEMMA SatIs ==
  ASSUME NEW n \in Nat
  PROVE  Sat(n) \in 0 .. Many /\ (n <= Many => Sat(n) = n) /\ (n > 0 => Sat(n) > 0)
BY DEF Sat, Many

LEMMA PlusIs ==
  ASSUME NEW S, NEW a \in [S -> 0 .. Many], NEW b \in [S -> 0 .. Many]
  PROVE  /\ Plus(a, b) \in [S -> 0 .. Many]
         /\ \A x \in S : Plus(a, b)[x] = Sat(a[x] + b[x])
<1>1. ASSUME NEW x \in S PROVE Sat(a[x] + b[x]) \in 0 .. Many
  <2>1. a[x] + b[x] \in Nat
    BY DEF Many
  <2> QED
    BY <2>1, SatIs
<1> QED
  BY <1>1 DEF Plus

LEMMA WithIs ==
  ASSUME NEW S, NEW a \in [S -> 0 .. Many], NEW X
  PROVE  /\ With(a, X) \in [S -> 0 .. Many]
         /\ \A x \in S : With(a, X)[x] = IF x \in X THEN Sat(a[x] + 1) ELSE a[x]
<1>1. ASSUME NEW x \in S PROVE Sat(a[x] + 1) \in 0 .. Many
  <2>1. a[x] + 1 \in Nat
    BY DEF Many
  <2> QED
    BY <2>1, SatIs
<1> QED
  BY <1>1 DEF With

LEMMA PartsAre ==
  ASSUME NEW S, NEW a \in [S -> 0 .. Many], NEW r
  PROVE  /\ {Only(r, a), Except(r, a), ItemsOf(r, a), ItemsExcept(r, a)} \subseteq [S -> 0 .. Many]
         /\ \A x \in S : /\ Only(r, a)[x] = IF RankOf[x] = r THEN a[x] ELSE 0
                         /\ Except(r, a)[x] = IF RankOf[x] = r THEN 0 ELSE a[x]
                         /\ ItemsOf(r, a)[x] = IF RankOf[x[2]] = r THEN a[x] ELSE 0
                         /\ ItemsExcept(r, a)[x] = IF RankOf[x[2]] = r THEN 0 ELSE a[x]
<1>1. 0 \in 0 .. Many
  BY DEF Many
<1>2. Only(r, a) \in [S -> 0 .. Many] /\ \A x \in S : Only(r, a)[x] = IF RankOf[x] = r THEN a[x] ELSE 0
  BY <1>1 DEF Only
<1>3. Except(r, a) \in [S -> 0 .. Many] /\ \A x \in S : Except(r, a)[x] = IF RankOf[x] = r THEN 0 ELSE a[x]
  BY <1>1 DEF Except
<1>4. ItemsOf(r, a) \in [S -> 0 .. Many] /\ \A x \in S : ItemsOf(r, a)[x] = IF RankOf[x[2]] = r THEN a[x] ELSE 0
  BY <1>1 DEF ItemsOf
<1>5. /\ ItemsExcept(r, a) \in [S -> 0 .. Many]
      /\ \A x \in S : ItemsExcept(r, a)[x] = IF RankOf[x[2]] = r THEN 0 ELSE a[x]
  BY <1>1 DEF ItemsExcept
<1> QED
  BY <1>2, <1>3, <1>4, <1>5

(* What is sent of a buffer b, if anything, is what is of rank r.           *)
Moved(r, sent, b, t, b2, t2) ==
  \A i \in DOMAIN b :
    IF sent /\ RankOf[i[2]] = r THEN b2[i] = 0 /\ t2[i] = Sat(t[i] + b[i])
                                ELSE b2[i] = b[i] /\ t2[i] = t[i]

LEMMA SendIs ==
  ASSUME NEW S, NEW b \in [S -> 0 .. Many], NEW t \in [S -> 0 .. Many], NEW r
  PROVE  /\ Plus(t, ItemsOf(r, b)) \in [S -> 0 .. Many] /\ ItemsExcept(r, b) \in [S -> 0 .. Many]
         /\ Moved(r, TRUE, b, t, ItemsExcept(r, b), Plus(t, ItemsOf(r, b)))
         /\ Moved(r, FALSE, b, t, b, t)
<1>1. /\ ItemsOf(r, b) \in [S -> 0 .. Many] /\ ItemsExcept(r, b) \in [S -> 0 .. Many]
      /\ \A x \in S : /\ ItemsOf(r, b)[x] = IF RankOf[x[2]] = r THEN b[x] ELSE 0
                      /\ ItemsExcept(r, b)[x] = IF RankOf[x[2]] = r THEN 0 ELSE b[x]
  BY PartsAre
<1>2. Plus(t, ItemsOf(r, b)) \in [S -> 0 .. Many] /\ \A x \in S : Plus(t, ItemsOf(r, b))[x] = Sat(t[x] + ItemsOf(r, b)[x])
  BY <1>1, PlusIs
<1>3. \A x \in S : Sat(t[x] + 0) = t[x]
  <2> SUFFICES ASSUME NEW x \in S PROVE Sat(t[x] + 0) = t[x]
    OBVIOUS
  <2>1. t[x] + 0 = t[x] /\ t[x] \in Nat /\ t[x] <= Many
    BY DEF Many
  <2> QED
    BY <2>1, SatIs
<1>4. Moved(r, TRUE, b, t, ItemsExcept(r, b), Plus(t, ItemsOf(r, b)))
  <2> SUFFICES ASSUME NEW i \in S
               PROVE  IF RankOf[i[2]] = r
                      THEN ItemsExcept(r, b)[i] = 0 /\ Plus(t, ItemsOf(r, b))[i] = Sat(t[i] + b[i])
                      ELSE ItemsExcept(r, b)[i] = b[i] /\ Plus(t, ItemsOf(r, b))[i] = t[i]
    BY DEF Moved
  <2>1. Plus(t, ItemsOf(r, b))[i] = Sat(t[i] + ItemsOf(r, b)[i]) /\ Sat(t[i] + 0) = t[i]
    BY <1>2, <1>3
  <2>2. /\ ItemsOf(r, b)[i] = IF RankOf[i[2]] = r THEN b[i] ELSE 0
        /\ ItemsExcept(r, b)[i] = IF RankOf[i[2]] = r THEN 0 ELSE b[i]
    BY <1>1
  <2> QED
    BY <2>1, <2>2
<1>5. Moved(r, FALSE, b, t, b, t)
  BY DEF Moved
<1> QED
  BY <1>1, <1>2, <1>4, <1>5

-----------------------------------------------------------------------------
(* Types.                                                                   *)

PCs == InRun \cup {"ready", "run", "returned", "failed", "exited", "aborted"}

LEMMA InitTypes == Init => TypeOK
<1> SUFFICES ASSUME Init PROVE TypeOK
  OBVIOUS
<1> USE DEF Init, InitBase, InitComponents, InitServer
<1>0. 0 \in 0 .. Many /\ 0 \in Nat /\ 0 \in -1 .. 1
  BY DEF Many
<1>1. PICK cf \in Configs : params = cf.params /\ pending = cf.stream /\ mpi = cf.mpi
  OBVIOUS
<1>2. /\ params \in {c.params : c \in Configs} /\ mpi \in BOOLEAN
      /\ pending \subseteq Calls \cup Metadata \cup Samples
  BY <1>1, ADDriverAssumption
<1>3. pc \in [Ranks -> PCs]
  BY DEF PCs
<1>4. {step, frames, syncs} \subseteq [Ranks -> Nat] /\ status \in [Ranks -> BOOLEAN]
  BY <1>0
<1>5. /\ newMeta \subseteq Metadata /\ counters \subseteq Samples
      /\ {exec, dset, normals} \subseteq SUBSET Calls
      /\ seen \subseteq Sites(Calls) /\ wanted \subseteq Sites(Calls)
  OBVIOUS
<1>6. label \in [Calls -> -1 .. 1] /\ {local, received, published, offered} \subseteq Tally
  BY <1>0 DEF Nothing, Tally
<1>7. model \in [Ranks -> Tally]
  BY <1>0 DEF Nothing, Tally
<1>8. /\ {provBuf, db} \subseteq [ProvItem -> 0 .. Many]
      /\ {statBuf, stats} \subseteq [StatItem -> 0 .. Many]
  BY <1>0 DEF Nothing
<1> QED
  BY <1>2, <1>3, <1>4, <1>5, <1>6, <1>7, <1>8 DEF TypeOK, PCs

(* The parts of TypeOK one by one.                                          *)
LEMMA TypesAre ==
  ASSUME TypeOK
  PROVE  /\ params \in {cf.params : cf \in Configs} /\ pc \in [Ranks -> PCs]
         /\ step \in [Ranks -> Nat] /\ frames \in [Ranks -> Nat] /\ syncs \in [Ranks -> Nat]
         /\ exec \subseteq Calls /\ dset \subseteq Calls /\ normals \subseteq Calls
         /\ label \in [Calls -> -1 .. 1]
         /\ local \in Tally /\ received \in Tally /\ published \in Tally /\ offered \in Tally
         /\ model \in [Ranks -> Tally]
         /\ provBuf \in [ProvItem -> 0 .. Many] /\ db \in [ProvItem -> 0 .. Many]
         /\ statBuf \in [StatItem -> 0 .. Many] /\ stats \in [StatItem -> 0 .. Many]
BY DEF TypeOK, PCs

LEMMA ParamsAre ==
  ASSUME TypeOK, NEW r \in Ranks
  PROVE  /\ params[r].period \in Nat \ {0} /\ params[r].sync \in Nat \ {0}
         /\ params[r].start \in Nat \cup {-1} /\ params[r].stop \in Nat \cup {-1}
<1>1. PICK cf \in Configs : params = cf.params
  BY TypesAre
<1> QED
  BY <1>1, ADDriverAssumption

LEMMA NextStepType ==
  ASSUME TypeOK, NEW r \in Ranks
  PROVE  NextStep(r) \in Nat /\ NextCount(r) \in Nat
<1> DEFINE a == params[r].start
           b == params[r].stop
           p == params[r].period
<1>1. p \in Nat \ {0} /\ a \in Nat \cup {-1} /\ b \in Nat \cup {-1}
  BY ParamsAre
<1>2. step[r] \in Nat /\ syncs[r] \in Nat
  BY TypesAre
<1> HIDE DEF a, b, p
<1>3. Max({a, b}) \in {a, b}
  <2>1. \E x \in {a, b} : \A y \in {a, b} : x >= y
    BY <1>1
  <2> QED
    BY <2>1 DEF Max
<1>4. Max({a, b}) \in Int /\ Max({a, b}) >= -1
  BY <1>1, <1>3
<1>5. PICK x \in Int : x = Max({a, b}) /\ x >= -1
  BY <1>4
<1>6. NextStep(r) = IF step[r] = x + p THEN step[r] + 1 - p ELSE step[r] + 1
  BY <1>5 DEF NextStep, a, b, p
<1>7. NextStep(r) \in Nat
  BY <1>1, <1>2, <1>5, <1>6
<1>8. NextCount(r) \in Nat
  BY <1>2 DEF NextCount
<1> QED
  BY <1>7, <1>8

(* What is sent and what stays of the buffers.                              *)
LEMMA SendProvenanceIs ==
  ASSUME db \in [ProvItem -> 0 .. Many], NEW r, NEW force, NEW b \in [ProvItem -> 0 .. Many]
  PROVE  LET p == SendProvenance(r, force, b) IN
         /\ p.sent \in [ProvItem -> 0 .. Many] /\ p.buf \in [ProvItem -> 0 .. Many]
         /\ \E sent \in BOOLEAN : Moved(r, sent, b, db, p.buf, p.sent)
         /\ force = TRUE => Moved(r, TRUE, b, db, p.buf, p.sent)
<1>1. /\ Plus(db, ItemsOf(r, b)) \in [ProvItem -> 0 .. Many] /\ ItemsExcept(r, b) \in [ProvItem -> 0 .. Many]
      /\ Moved(r, TRUE, b, db, ItemsExcept(r, b), Plus(db, ItemsOf(r, b)))
      /\ Moved(r, FALSE, b, db, b, db)
  BY SendIs
<1> DEFINE p == SendProvenance(r, force, b)
<1>2. CASE force \/ Due(step[r], r, params[r].prov)
  <2>1. p.sent = Plus(db, ItemsOf(r, b)) /\ p.buf = ItemsExcept(r, b)
    BY <1>2 DEF SendProvenance
  <2> HIDE DEF p
  <2>2. /\ p.sent \in [ProvItem -> 0 .. Many] /\ p.buf \in [ProvItem -> 0 .. Many]
        /\ Moved(r, TRUE, b, db, p.buf, p.sent)
    BY <1>1, <2>1
  <2> QED
    BY <2>2 DEF p
<1>3. CASE ~(force \/ Due(step[r], r, params[r].prov))
  <2>1. p.sent = db /\ p.buf = b
    BY <1>3 DEF SendProvenance
  <2> HIDE DEF p
  <2>2. /\ p.sent \in [ProvItem -> 0 .. Many] /\ p.buf \in [ProvItem -> 0 .. Many]
        /\ Moved(r, FALSE, b, db, p.buf, p.sent)
    BY <1>1, <2>1
  <2> QED
    BY <1>3, <2>2 DEF p
<1> QED
  BY <1>2, <1>3

LEMMA SendPSdataIs ==
  ASSUME stats \in [StatItem -> 0 .. Many], NEW r, NEW force, NEW b \in [StatItem -> 0 .. Many]
  PROVE  LET p == SendPSdata(r, force, b) IN
         /\ p.sent \in [StatItem -> 0 .. Many] /\ p.buf \in [StatItem -> 0 .. Many]
         /\ \E sent \in BOOLEAN : Moved(r, sent, b, stats, p.buf, p.sent)
         /\ force = TRUE /\ params[r].ps => Moved(r, TRUE, b, stats, p.buf, p.sent)
<1>1. /\ Plus(stats, ItemsOf(r, b)) \in [StatItem -> 0 .. Many] /\ ItemsExcept(r, b) \in [StatItem -> 0 .. Many]
      /\ Moved(r, TRUE, b, stats, ItemsExcept(r, b), Plus(stats, ItemsOf(r, b)))
      /\ Moved(r, FALSE, b, stats, b, stats)
  BY SendIs
<1> DEFINE p == SendPSdata(r, force, b)
           now == params[r].ps /\ (force \/ Due(step[r], r, params[r].stats))
<1>2. CASE now
  <2>1. p.sent = Plus(stats, ItemsOf(r, b)) /\ p.buf = ItemsExcept(r, b)
    BY <1>2 DEF SendPSdata, SentStats
  <2> HIDE DEF p
  <2>2. /\ p.sent \in [StatItem -> 0 .. Many] /\ p.buf \in [StatItem -> 0 .. Many]
        /\ Moved(r, TRUE, b, stats, p.buf, p.sent)
    BY <1>1, <2>1
  <2> QED
    BY <2>2 DEF p
<1>3. CASE ~now
  <2>1. p.sent = stats /\ p.buf = b
    BY <1>3 DEF SendPSdata
  <2> HIDE DEF p
  <2>2. /\ p.sent \in [StatItem -> 0 .. Many] /\ p.buf \in [StatItem -> 0 .. Many]
        /\ Moved(r, FALSE, b, stats, p.buf, p.sent)
    BY <1>1, <2>1
  <2> QED
    BY <1>3, <2>2 DEF p
<1> QED
  BY <1>2, <1>3

(* The effect of a frame's end, and of run's.                               *)
LEMMA EndFrameIs ==
  ASSUME TypeOK, NEW r \in Ranks, NEW pb \in [ProvItem -> 0 .. Many], NEW sb \in [StatItem -> 0 .. Many],
         EndFrame(r, pb, sb)
  PROVE  /\ provBuf' \in [ProvItem -> 0 .. Many] /\ db' \in [ProvItem -> 0 .. Many]
         /\ statBuf' \in [StatItem -> 0 .. Many] /\ stats' \in [StatItem -> 0 .. Many]
         /\ \E sent \in BOOLEAN : Moved(r, sent, pb, db, provBuf', db')
         /\ \E sent \in BOOLEAN : Moved(r, sent, sb, stats, statBuf', stats')
         /\ pc' \in [Ranks -> PCs] /\ pc'[r] \in {"read", "end"} /\ \A q \in Ranks : q # r => pc'[q] = pc[q]
         /\ step' \in [Ranks -> Nat] /\ frames' \in [Ranks -> Nat] /\ UNCHANGED <<params, mpi>>
<1>1. PICK p \in {SendProvenance(r, FALSE, pb)}, s \in {SendPSdata(r, FALSE, sb)} :
        db' = p.sent /\ provBuf' = p.buf /\ stats' = s.sent /\ statBuf' = s.buf
  BY DEF EndFrame
<1>2. /\ db \in [ProvItem -> 0 .. Many] /\ stats \in [StatItem -> 0 .. Many] /\ pc \in [Ranks -> PCs]
      /\ step \in [Ranks -> Nat] /\ frames \in [Ranks -> Nat] /\ NextStep(r) \in Nat
  BY TypesAre, NextStepType
<1>3. /\ p.sent \in [ProvItem -> 0 .. Many] /\ p.buf \in [ProvItem -> 0 .. Many]
      /\ \E sent \in BOOLEAN : Moved(r, sent, pb, db, p.buf, p.sent)
  <2>1. p = SendProvenance(r, FALSE, pb)
    BY <1>1
  <2> QED
    BY <1>2, <2>1, SendProvenanceIs
<1>4. /\ s.sent \in [StatItem -> 0 .. Many] /\ s.buf \in [StatItem -> 0 .. Many]
      /\ \E sent \in BOOLEAN : Moved(r, sent, sb, stats, s.buf, s.sent)
  <2>1. s = SendPSdata(r, FALSE, sb)
    BY <1>1
  <2> QED
    BY <1>2, <2>1, SendPSdataIs
<1>5. /\ pc' = [pc EXCEPT ![r] = IF frames[r] + 1 = params[r].maxFrames THEN "end" ELSE "read"]
      /\ step' = [step EXCEPT ![r] = NextStep(r)]
      /\ frames' = [frames EXCEPT ![r] = IF params[r].maxFrames > 0 THEN frames[r] + 1 ELSE frames[r]]
      /\ UNCHANGED <<params, mpi>>
  BY DEF EndFrame
<1>6. pc' \in [Ranks -> PCs] /\ pc'[r] \in {"read", "end"} /\ \A q \in Ranks : q # r => pc'[q] = pc[q]
  BY <1>2, <1>5 DEF PCs, InRun
<1>7. step' \in [Ranks -> Nat] /\ frames' \in [Ranks -> Nat]
  BY <1>2, <1>5
<1> QED
  BY <1>1, <1>3, <1>4, <1>5, <1>6, <1>7

LEMMA EndIs ==
  ASSUME TypeOK, NEW r \in Ranks, End(r)
  PROVE  /\ provBuf' \in [ProvItem -> 0 .. Many] /\ db' \in [ProvItem -> 0 .. Many]
         /\ statBuf' \in [StatItem -> 0 .. Many] /\ stats' \in [StatItem -> 0 .. Many]
         /\ Moved(r, TRUE, provBuf, db, provBuf', db')
         /\ \E sent \in BOOLEAN : Moved(r, sent, statBuf, stats, statBuf', stats')
         /\ params[r].ps => Moved(r, TRUE, statBuf, stats, statBuf', stats')
         /\ pc' \in [Ranks -> PCs] /\ pc' = [pc EXCEPT ![r] = "returned"] /\ pc[r] = "end"
         /\ UNCHANGED <<params, mpi, step, frames, input, frame, params_, normals, wanted>>
<1>1. PICK p \in {SendProvenance(r, TRUE, provBuf)}, s \in {SendPSdata(r, TRUE, statBuf)} :
        db' = p.sent /\ provBuf' = p.buf /\ stats' = s.sent /\ statBuf' = s.buf
  BY DEF End
<1>2. /\ db \in [ProvItem -> 0 .. Many] /\ stats \in [StatItem -> 0 .. Many] /\ pc \in [Ranks -> PCs]
      /\ provBuf \in [ProvItem -> 0 .. Many] /\ statBuf \in [StatItem -> 0 .. Many]
  BY TypesAre
<1>3. /\ p.sent \in [ProvItem -> 0 .. Many] /\ p.buf \in [ProvItem -> 0 .. Many]
      /\ Moved(r, TRUE, provBuf, db, p.buf, p.sent)
  <2>1. p = SendProvenance(r, TRUE, provBuf)
    BY <1>1
  <2> QED
    BY <1>2, <2>1, SendProvenanceIs
<1>4. /\ s.sent \in [StatItem -> 0 .. Many] /\ s.buf \in [StatItem -> 0 .. Many]
      /\ \E sent \in BOOLEAN : Moved(r, sent, statBuf, stats, s.buf, s.sent)
      /\ params[r].ps => Moved(r, TRUE, statBuf, stats, s.buf, s.sent)
  <2>1. s = SendPSdata(r, TRUE, statBuf)
    BY <1>1
  <2> QED
    BY <1>2, <2>1, SendPSdataIs
<1>5. /\ pc' = [pc EXCEPT ![r] = "returned"] /\ pc[r] = "end"
      /\ UNCHANGED <<params, mpi, step, frames, input, frame, params_, normals, wanted>>
  BY DEF End
<1>6. pc' \in [Ranks -> PCs]
  BY <1>2, <1>5 DEF PCs
<1> QED
  BY <1>1, <1>3, <1>4, <1>5, <1>6
(* A frame of the outlier detection, up to its request, ...                 *)
LEMMA CollectIs ==
  ASSUME TypeOK, NEW r \in Ranks, Collect(r)
  PROVE  /\ pc[r] = "outlier" /\ pc' = [pc EXCEPT ![r] = "answer"] /\ pc' \in [Ranks -> PCs]
         /\ UNCHANGED <<params, mpi, step, frames, status, pending, newMeta, counters, exec,
                        idxmap, fmap, model, syncs, published, prov, psdata>>
         /\ \E F \in SUBSET Unlabelled(r) : \E data \in SUBSET Unlabelled(r) :
              /\ data = Unlabelled(r) \ F
              /\ label' = [c \in Calls |-> IF c \in F THEN 1 ELSE label[c]]
              /\ seen' = seen \cup Sites(F)
              /\ dset' = (dset \ Of(r, dset)) \cup data
              /\ local' = With(local, data)
              /\ offered' = With(offered, data)
              /\ received' = IF params[r].ps /\ DoSync(r)
                               THEN Plus(received, Only(r, With(local, data))) ELSE received
         /\ Unlabelled(r) \subseteq Calls /\ label' \in [Calls -> -1 .. 1]
         /\ seen' \subseteq Sites(Calls) /\ dset' \subseteq Calls
         /\ local' \in Tally /\ offered' \in Tally /\ received' \in Tally
<1>1. /\ pc[r] = "outlier" /\ pc' = [pc EXCEPT ![r] = "answer"]
      /\ UNCHANGED <<params, mpi, step, frames, status, pending, newMeta, counters, exec,
                     idxmap, fmap, model, syncs, published, prov, psdata>>
  BY DEF Collect
<1>2. PICK F \in FirstCalls(r, Unlabelled(r)) :
         LET data == Unlabelled(r) \ F
             sum == With(local, data) IN
         /\ label' = [c \in Calls |-> IF c \in F THEN 1 ELSE label[c]]
         /\ seen' = seen \cup Sites(F)
         /\ dset' = (dset \ Of(r, dset)) \cup data
         /\ local' = sum
         /\ offered' = With(offered, data)
         /\ received' = IF params[r].ps /\ DoSync(r) THEN Plus(received, Only(r, sum)) ELSE received
  BY DEF Collect
<1>3. F \subseteq Unlabelled(r)
  BY DEF FirstCalls
<1>4. /\ Unlabelled(r) \subseteq Calls /\ pc \in [Ranks -> PCs] /\ label \in [Calls -> -1 .. 1]
      /\ dset \subseteq Calls /\ local \in Tally /\ offered \in Tally /\ received \in Tally
      /\ seen \subseteq Sites(Calls)
  BY TypesAre DEF Unlabelled, Of, TypeOK
<1>5. PICK data \in SUBSET Unlabelled(r) : data = Unlabelled(r) \ F
  OBVIOUS
<1>6. /\ label' = [c \in Calls |-> IF c \in F THEN 1 ELSE label[c]]
      /\ seen' = seen \cup Sites(F)
      /\ dset' = (dset \ Of(r, dset)) \cup data
      /\ local' = With(local, data)
      /\ offered' = With(offered, data)
      /\ received' = IF params[r].ps /\ DoSync(r)
                       THEN Plus(received, Only(r, With(local, data))) ELSE received
  BY <1>2, <1>5
<1>7. label' \in [Calls -> -1 .. 1]
  BY <1>4, <1>6
<1>8. local' \in Tally /\ offered' \in Tally
  BY <1>4, <1>6, WithIs DEF Tally
<1>9. received' \in Tally
  <2>1. Only(r, local') \in Tally
    BY <1>8, PartsAre DEF Tally
  <2>2. Plus(received, Only(r, local')) \in Tally
    BY <1>4, <2>1, PlusIs DEF Tally
  <2> QED
    BY <1>4, <1>6, <2>2
<1>10. pc' \in [Ranks -> PCs]
  BY <1>1, <1>4 DEF PCs, InRun
<1>11. seen' \subseteq Sites(Calls) /\ dset' \subseteq Calls
  BY <1>3, <1>4, <1>6 DEF Sites
<1> QED
  BY <1>1, <1>3, <1>4, <1>5, <1>6, <1>7, <1>8, <1>9, <1>10, <1>11

(* ... and after the answer.                                                *)
LEMMA AnalyseIs ==
  ASSUME TypeOK, NEW r \in Ranks, Analyse(r)
  PROVE  /\ pc[r] = "answer"
         /\ local' = NewLocal(r) /\ syncs' = [syncs EXCEPT ![r] = NextCount(r)]
         /\ exec' = exec \ {c \in Of(r, exec) : label'[c] # 0}
         /\ counters' = counters \ Of(r, counters)
         /\ dset' = dset \ Of(r, dset)
         /\ UNCHANGED <<status, pending, newMeta, seen, idxmap, fmap, received, published, offered>>
         /\ \E m \in {NewModel(r)} : \E res \in Results(r, m) : \E e \in Stored(r, res) :
              /\ model' = [model EXCEPT ![r] = m]
              /\ label' = Labels(r, m, res)
              /\ normals' = e.normals /\ wanted' = e.wanted
              /\ EndFrame(r, With(provBuf, e.items), With(statBuf, Statistics(r, res)))
BY DEF Analyse, EndStep

LEMMA ResultsAre ==
  ASSUME NEW r, NEW m, NEW res \in Results(r, m)
  PROVE  /\ res.outlier \subseteq Evaluated(r, m)
         /\ res.normal \subseteq Evaluated(r, m) \ res.outlier
         /\ Evaluated(r, m) \subseteq Of(r, dset)
<1>1. PICK out \in SUBSET Evaluated(r, m) : \E norm \in OnePerFunction(Evaluated(r, m) \ out) :
         res = [outlier |-> out, normal |-> norm]
  BY DEF Results
<1>2. PICK norm \in OnePerFunction(Evaluated(r, m) \ out) : res = [outlier |-> out, normal |-> norm]
  BY <1>1
<1>3. norm \subseteq Evaluated(r, m) \ out
  BY DEF OnePerFunction
<1>4. res.outlier = out /\ res.normal = norm
  BY <1>2
<1> QED
  BY <1>3, <1>4 DEF Evaluated

(* What a frame that records does: of the executions at hand, new, those    *)
(* that were asked for earlier (late) or are asked for in this frame (now)   *)
(* go to the buffer with its anomalies.                                     *)
Recorded(r, res, e, new, late, asking, now) ==
  /\ new = Update(normals, res.normal)
  /\ late = Serving(new, {w \in wanted : w[1] = r})
  /\ asking \in OnePerFunction(res.outlier \ Short)
  /\ now = Serving(new \ late, Sites(asking))
  /\ e.normals = new \ (late \cup now)
  /\ e.wanted = (wanted \ Sites(late)) \cup (Sites(asking) \ Sites(now))
  /\ e.items = ({"anomalies"} \X (res.outlier \ Short)) \cup ({"normalexecs"} \X (late \cup now))
                 \cup ({"metadata"} \X Of(r, newMeta))

LEMMA StoredIs ==
  ASSUME NEW r, NEW res, NEW e \in Stored(r, res)
  PROVE  \/ ~Recording(r) /\ e.normals = normals /\ e.wanted = wanted /\ e.items = {}
         \/ Recording(r) /\ \E new, late, asking, now : Recorded(r, res, e, new, late, asking, now)
<1>1. CASE ~Recording(r)
  BY <1>1 DEF Stored
<1>2. CASE Recording(r)
  <2>1. e \in ProvenanceEntries(r, res)
    BY <1>2 DEF Stored
  <2>2. PICK new, late, anom :
          /\ new = Update(normals, res.normal)
          /\ late = Serving(new, {w \in wanted : w[1] = r})
          /\ anom = res.outlier \ Short
    OBVIOUS
  <2>3. PICK asking \in OnePerFunction(anom) :
          e = LET now == Serving(new \ late, Sites(asking)) IN
              [normals |-> new \ (late \cup now),
               wanted  |-> (wanted \ Sites(late)) \cup (Sites(asking) \ Sites(now)),
               items   |-> ({"anomalies"} \X anom) \cup ({"normalexecs"} \X (late \cup now))
                           \cup ({"metadata"} \X Of(r, newMeta))]
    BY <2>1, <2>2 DEF ProvenanceEntries
  <2>4. PICK now : now = Serving(new \ late, Sites(asking))
    OBVIOUS
  <2>5. e = [normals |-> new \ (late \cup now),
             wanted  |-> (wanted \ Sites(late)) \cup (Sites(asking) \ Sites(now)),
             items   |-> ({"anomalies"} \X anom) \cup ({"normalexecs"} \X (late \cup now))
                         \cup ({"metadata"} \X Of(r, newMeta))]
    BY <2>3, <2>4
  <2>6. /\ e.normals = new \ (late \cup now)
        /\ e.wanted = (wanted \ Sites(late)) \cup (Sites(asking) \ Sites(now))
        /\ e.items = ({"anomalies"} \X anom) \cup ({"normalexecs"} \X (late \cup now))
                       \cup ({"metadata"} \X Of(r, newMeta))
    BY <2>5
  <2>7. Recorded(r, res, e, new, late, asking, now)
    BY <2>2, <2>3, <2>4, <2>6 DEF Recorded
  <2> QED
    BY <1>2, <2>7
<1> QED
  BY <1>1, <1>2

LEMMA StoredTypes ==
  ASSUME TypeOK, NEW r, NEW m, NEW res \in Results(r, m), NEW e \in Stored(r, res)
  PROVE  e.normals \subseteq Calls /\ e.wanted \subseteq Sites(Calls)
<1>1. normals \subseteq Calls /\ wanted \subseteq Sites(Calls) /\ dset \subseteq Calls
  BY DEF TypeOK
<1>2. res.outlier \subseteq Calls /\ res.normal \subseteq Calls
  BY <1>1, ResultsAre DEF Of
<1>3. CASE ~Recording(r)
  BY <1>1, <1>3, StoredIs
<1>4. CASE Recording(r)
  <2>1. PICK new, late, asking, now : Recorded(r, res, e, new, late, asking, now)
    BY <1>4, StoredIs
  <2>2. new \subseteq Calls
    BY <1>1, <1>2, <2>1 DEF Update, Recorded
  <2>3. asking \subseteq Calls
    BY <1>2, <2>1 DEF OnePerFunction, Recorded
  <2>4. Sites(asking) \subseteq Sites(Calls)
    BY <2>3 DEF Sites
  <2> QED
    BY <1>1, <2>1, <2>2, <2>4 DEF Recorded
<1> QED
  BY <1>3, <1>4

LEMMA AnalyseTypes ==
  ASSUME TypeOK, NEW r \in Ranks, Analyse(r)
  PROVE  TypeOK'
<1>1. PICK m \in {NewModel(r)} : \E res \in Results(r, m) : \E e \in Stored(r, res) :
              /\ model' = [model EXCEPT ![r] = m]
              /\ label' = Labels(r, m, res)
              /\ normals' = e.normals /\ wanted' = e.wanted
              /\ EndFrame(r, With(provBuf, e.items), With(statBuf, Statistics(r, res)))
  BY AnalyseIs
<1>0. PICK res \in Results(r, m) : \E e \in Stored(r, res) :
              /\ model' = [model EXCEPT ![r] = m]
              /\ label' = Labels(r, m, res)
              /\ normals' = e.normals /\ wanted' = e.wanted
              /\ EndFrame(r, With(provBuf, e.items), With(statBuf, Statistics(r, res)))
  BY <1>1
<1>2. PICK e \in Stored(r, res) :
              /\ model' = [model EXCEPT ![r] = m]
              /\ label' = Labels(r, m, res)
              /\ normals' = e.normals /\ wanted' = e.wanted
              /\ EndFrame(r, With(provBuf, e.items), With(statBuf, Statistics(r, res)))
  BY <1>0
<1>3. /\ local' = NewLocal(r) /\ syncs' = [syncs EXCEPT ![r] = NextCount(r)]
      /\ exec' \subseteq exec /\ counters' \subseteq counters /\ dset' \subseteq dset
      /\ UNCHANGED <<status, pending, newMeta, seen, idxmap, fmap, received, published, offered>>
  BY AnalyseIs
<1>4. /\ local \in Tally /\ model \in [Ranks -> Tally] /\ published \in Tally /\ label \in [Calls -> -1 .. 1]
      /\ provBuf \in [ProvItem -> 0 .. Many] /\ statBuf \in [StatItem -> 0 .. Many]
      /\ syncs \in [Ranks -> Nat]
  BY TypesAre
<1>5. m \in Tally
  <2>1. Only(r, local) \in Tally /\ model[r] \in Tally
    BY <1>4, PartsAre DEF Tally
  <2>2. Plus(model[r], Only(r, local)) \in Tally
    BY <2>1, PlusIs DEF Tally
  <2> QED
    BY <1>4, <2>1, <2>2 DEF NewModel
<1>6. local' \in Tally
  <2>1. Except(r, local) \in Tally
    BY <1>4, PartsAre DEF Tally
  <2> QED
    BY <1>3, <1>4, <2>1 DEF NewLocal
<1>7. label' \in [Calls -> -1 .. 1]
  BY <1>2, <1>4 DEF Labels
<1>8. With(provBuf, e.items) \in [ProvItem -> 0 .. Many] /\ With(statBuf, Statistics(r, res)) \in [StatItem -> 0 .. Many]
  BY <1>4, WithIs
<1>9. /\ provBuf' \in [ProvItem -> 0 .. Many] /\ db' \in [ProvItem -> 0 .. Many]
      /\ statBuf' \in [StatItem -> 0 .. Many] /\ stats' \in [StatItem -> 0 .. Many]
      /\ pc' \in [Ranks -> PCs] /\ step' \in [Ranks -> Nat] /\ frames' \in [Ranks -> Nat]
      /\ UNCHANGED <<params, mpi>>
  BY <1>2, <1>8, EndFrameIs
<1>10. syncs' \in [Ranks -> Nat] /\ model' \in [Ranks -> Tally]
  BY <1>2, <1>3, <1>4, <1>5, NextStepType
<1>11. normals' \subseteq Calls /\ wanted' \subseteq Sites(Calls)
  BY <1>2, StoredTypes
<1> QED
  BY <1>3, <1>6, <1>7, <1>9, <1>10, <1>11 DEF TypeOK, PCs

LEMMA NextTypes ==
  ASSUME TypeOK, [Next]_vars
  PROVE  TypeOK'
<1> USE DEF vars, driver, input, frame, params_, prov, psdata
<1>1. CASE Publish
  BY <1>1 DEF Publish, TypeOK
<1>2. CASE Program
  <2>1. pc \in [Ranks -> PCs]
    BY TypesAre
  <2>2. pc' \in [Ranks -> PCs] /\ UNCHANGED <<params, mpi, step, frames, input, frame, params_, prov, psdata>>
    <3>1. CASE StartRun
      BY <3>1 DEF StartRun, PCs
    <3>2. CASE Leave
      BY <2>1, <3>2 DEF Leave, Finalized, PCs
    <3> QED
      BY <1>2, <3>1, <3>2 DEF Program
  <2> QED
    BY <2>2 DEF TypeOK, PCs
<1>3. ASSUME NEW r \in Ranks, Run(r) \/ Fail(r) PROVE TypeOK'
  <2>1. pc \in [Ranks -> PCs]
    BY TypesAre
  <2>2. pc' \in [Ranks -> PCs] /\ UNCHANGED <<params, mpi, step, frames, input, frame, params_, prov, psdata>>
    BY <1>3, <2>1 DEF Run, Fail, PCs, InRun
  <2> QED
    BY <2>2 DEF TypeOK, PCs
<1>4. ASSUME NEW r \in Ranks, ReadStep(r) PROVE TypeOK'
  <2>1. pc \in [Ranks -> PCs]
    BY TypesAre
  <2>2. /\ pc' \in [Ranks -> PCs]
        /\ UNCHANGED <<params, mpi, step, frames, seen, frame, params_, prov, psdata>>
    BY <1>4, <2>1 DEF ReadStep, PCs, InRun
  <2>3. /\ pending' \subseteq pending /\ newMeta' \subseteq Metadata /\ counters' \subseteq Samples
        /\ exec' \subseteq Calls /\ status' \in [Ranks -> BOOLEAN]
    <3>1. CASE ParserDone(r)
      BY <3>1 DEF ParserDone, TypeOK
    <3>2. ASSUME NEW D \in SUBSET Of(r, pending), Parse(r, D)
          PROVE  /\ pending' \subseteq pending /\ newMeta' \subseteq Metadata /\ counters' \subseteq Samples
                 /\ exec' \subseteq Calls /\ status' \in [Ranks -> BOOLEAN]
      BY <3>2 DEF Parse, TypeOK
    <3> QED
      BY <1>4, <3>1, <3>2 DEF ReadStep
  <2> QED
    BY <2>2, <2>3 DEF TypeOK, PCs
<1>5. ASSUME NEW r \in Ranks, Collect(r) PROVE TypeOK'
  BY <1>5, CollectIs DEF TypeOK, PCs
<1>6. ASSUME NEW r \in Ranks, Skip(r) PROVE TypeOK'
  <2>1. EndFrame(r, provBuf, statBuf) /\ UNCHANGED <<input, frame, params_, normals, wanted>>
    BY <1>6 DEF Skip
  <2>2. /\ provBuf' \in [ProvItem -> 0 .. Many] /\ db' \in [ProvItem -> 0 .. Many]
        /\ statBuf' \in [StatItem -> 0 .. Many] /\ stats' \in [StatItem -> 0 .. Many]
        /\ pc' \in [Ranks -> PCs] /\ step' \in [Ranks -> Nat] /\ frames' \in [Ranks -> Nat]
        /\ UNCHANGED <<params, mpi>>
    BY <2>1, TypesAre, EndFrameIs
  <2> QED
    BY <2>1, <2>2 DEF TypeOK, PCs
<1>7. ASSUME NEW r \in Ranks, End(r) PROVE TypeOK'
  <2>1. /\ provBuf' \in [ProvItem -> 0 .. Many] /\ db' \in [ProvItem -> 0 .. Many]
        /\ statBuf' \in [StatItem -> 0 .. Many] /\ stats' \in [StatItem -> 0 .. Many]
        /\ pc' \in [Ranks -> PCs]
        /\ UNCHANGED <<params, mpi, step, frames, input, frame, params_, normals, wanted>>
    BY <1>7, EndIs
  <2> QED
    BY <2>1 DEF TypeOK, PCs
<1>8. CASE UNCHANGED vars
  BY <1>8 DEF TypeOK
<1> QED
  BY <1>1, <1>2, <1>3, <1>4, <1>5, <1>6, <1>7, <1>8, AnalyseTypes DEF Next, Frame

(* Every variable of the driver keeps its type; no tally exceeds its bound, *)
(* and counters that are taken modulo a frequency stay natural numbers.     *)
THEOREM TypeCorrect == Spec => []TypeOK
  BY InitTypes, NextTypes, PTL DEF Spec
-----------------------------------------------------------------------------
(* What models are made of.                                                 *)

Handed(c) == IF params[RankOf[c]].ps THEN received[c] ELSE model[RankOf[c]][c]

(* Between its request and the end of the frame the server may already have *)
(* what the rank still holds.                                               *)
CountRight(c) ==
  LET r == RankOf[c] IN
  /\ pc[r] \notin {"answer", "failed", "aborted"} => Sat(local[c] + Handed(c)) = offered[c]
  /\ pc[r] = "answer" =>
       IF params[r].ps /\ DoSync(r) THEN received[c] = offered[c]
                                    ELSE Sat(local[c] + Handed(c)) = offered[c]
CountInv == \A c \in Calls : CountRight(c)

LEMMA SatSums ==
  ASSUME NEW a \in 0 .. Many, NEW b \in 0 .. Many
  PROVE  /\ Sat(Sat(a + 1) + b) = Sat(Sat(a + b) + 1)
         /\ Sat(a + b) = Sat(b + a)
         /\ Sat(0 + a) = a /\ Sat(a + 0) = a /\ Sat(a) = a
         /\ Sat(0 + Sat(a + b)) = Sat(a + b)
         /\ Sat(a + b) \in 0 .. Many
BY DEF Sat, Many

LEMMA RankIs ==
  ASSUME NEW c \in Calls
  PROVE  RankOf[c] \in Ranks
BY DEF Ranks

LEMMA CountTypes ==
  ASSUME TypeOK, NEW c \in Calls
  PROVE  /\ local[c] \in 0 .. Many /\ received[c] \in 0 .. Many /\ offered[c] \in 0 .. Many
         /\ published[c] \in 0 .. Many
         /\ \A r \in Ranks : model[r] \in Tally /\ model[r][c] \in 0 .. Many
         /\ Handed(c) \in 0 .. Many
<1>1. /\ local[c] \in 0 .. Many /\ received[c] \in 0 .. Many /\ offered[c] \in 0 .. Many
      /\ published[c] \in 0 .. Many
      /\ \A r \in Ranks : model[r] \in Tally /\ model[r][c] \in 0 .. Many
  BY TypesAre DEF Tally
<1> QED
  BY <1>1, RankIs DEF Handed

LEMMA InitCounts == Init => CountInv
<1> SUFFICES ASSUME Init, NEW c \in Calls PROVE CountRight(c)
  BY DEF CountInv
<1> USE DEF Init, InitBase, InitServer
<1>1. local[c] = 0 /\ offered[c] = 0 /\ received[c] = 0 /\ RankOf[c] \in Ranks
  BY RankIs DEF Nothing
<1>2. model[RankOf[c]][c] = 0 /\ pc[RankOf[c]] = "ready"
  BY <1>1 DEF Nothing
<1>3. Handed(c) = 0
  BY <1>1, <1>2 DEF Handed
<1>4. Sat(0 + 0) = 0
  BY DEF Sat, Many
<1> QED
  BY <1>1, <1>2, <1>3, <1>4 DEF CountRight

(* A step that leaves the parameters of a call alone.                       *)
LEMMA CountKept ==
  ASSUME NEW c \in Calls, CountRight(c), UNCHANGED params,
         local'[c] = local[c], received'[c] = received[c], offered'[c] = offered[c],
         model'[RankOf[c]] = model[RankOf[c]], syncs'[RankOf[c]] = syncs[RankOf[c]],
         \/ pc'[RankOf[c]] = pc[RankOf[c]]
         \/ pc'[RankOf[c]] \in {"failed", "aborted"}
         \/ /\ pc[RankOf[c]] \notin {"answer", "failed", "aborted"}
            /\ pc'[RankOf[c]] # "answer"
  PROVE  CountRight(c)'
<1>1. PICK r : r = RankOf[c]
  OBVIOUS
<1>2. Handed(c)' = Handed(c)
  BY DEF Handed
<1>3. DoSync(r)' <=> DoSync(r)
  BY <1>1 DEF DoSync, Due
<1>4. CountRight(c)' <=>
        /\ pc'[r] \notin {"answer", "failed", "aborted"} => Sat(local'[c] + Handed(c)') = offered'[c]
        /\ pc'[r] = "answer" =>
             IF params'[r].ps /\ DoSync(r)' THEN received'[c] = offered'[c]
                                            ELSE Sat(local'[c] + Handed(c)') = offered'[c]
  BY <1>1 DEF CountRight
<1>5. /\ pc[r] \notin {"answer", "failed", "aborted"} => Sat(local[c] + Handed(c)) = offered[c]
      /\ pc[r] = "answer" =>
           IF params[r].ps /\ DoSync(r) THEN received[c] = offered[c]
                                        ELSE Sat(local[c] + Handed(c)) = offered[c]
  BY <1>1 DEF CountRight
<1> QED
  BY <1>1, <1>2, <1>3, <1>4, <1>5
LEMMA CollectCounts ==
  ASSUME TypeOK, CountInv, NEW r \in Ranks, Collect(r)
  PROVE  CountInv'
<1> SUFFICES ASSUME NEW c \in Calls PROVE CountRight(c)'
  BY DEF CountInv
<1>0. CountRight(c)
  BY DEF CountInv
<1>1. /\ pc[r] = "outlier" /\ pc' = [pc EXCEPT ![r] = "answer"]
      /\ UNCHANGED <<params, model, syncs>>
  BY CollectIs DEF driver
<1>2. PICK data \in SUBSET Unlabelled(r) :
         /\ local' = With(local, data)
         /\ offered' = With(offered, data)
         /\ received' = IF params[r].ps /\ DoSync(r)
                          THEN Plus(received, Only(r, With(local, data))) ELSE received
  BY CollectIs
<1>3. /\ local'[c] = IF c \in data THEN Sat(local[c] + 1) ELSE local[c]
      /\ offered'[c] = IF c \in data THEN Sat(offered[c] + 1) ELSE offered[c]
      /\ local' \in Tally /\ received \in Tally
  <2>1. local \in Tally /\ offered \in Tally /\ received \in Tally
    BY TypesAre
  <2>2. /\ With(local, data)[c] = IF c \in data THEN Sat(local[c] + 1) ELSE local[c]
        /\ With(offered, data)[c] = IF c \in data THEN Sat(offered[c] + 1) ELSE offered[c]
    BY <2>1, WithIs DEF Tally
  <2> QED
    BY <1>2, <2>1, <2>2, CollectIs
<1>4. received'[c] = IF params[r].ps /\ DoSync(r) /\ RankOf[c] = r
                       THEN Sat(received[c] + local'[c]) ELSE received[c]
  <2>1. CASE params[r].ps /\ DoSync(r)
    <3>1. /\ Only(r, local') \in Tally
          /\ Only(r, local')[c] = IF RankOf[c] = r THEN local'[c] ELSE 0
      BY <1>3, PartsAre DEF Tally
    <3>2. Plus(received, Only(r, local'))[c] = Sat(received[c] + Only(r, local')[c])
      BY <1>3, <3>1, PlusIs DEF Tally
    <3>3. Sat(received[c] + 0) = received[c]
      BY CountTypes, SatSums
    <3> QED
      BY <1>2, <2>1, <3>1, <3>2, <3>3
  <2> QED
    BY <1>2, <2>1
<1>5. CASE RankOf[c] # r
  <2>1. c \notin data
    BY <1>2, <1>5 DEF Unlabelled, Of
  <2>2. pc'[RankOf[c]] = pc[RankOf[c]]
    BY <1>1, <1>5, TypesAre
  <2> QED
    BY <1>0, <1>1, <1>3, <1>4, <1>5, <2>1, <2>2, CountKept
<1>6. CASE RankOf[c] = r
  <2>1. Sat(local[c] + Handed(c)) = offered[c]
    BY <1>0, <1>1, <1>6 DEF CountRight
  <2>2. PICK l \in 0 .. Many, h \in 0 .. Many : l = local[c] /\ h = Handed(c)
    BY CountTypes
  <2>3. Sat(local'[c] + h) = offered'[c]
    <3>1. CASE c \in data
      <4>1. local'[c] = Sat(l + 1) /\ offered'[c] = Sat(offered[c] + 1)
        BY <1>3, <2>2, <3>1
      <4>2. Sat(Sat(l + 1) + h) = Sat(Sat(l + h) + 1)
        BY SatSums
      <4>3. Sat(l + h) = offered[c]
        BY <2>1, <2>2
      <4> QED
        BY <4>1, <4>2, <4>3
    <3>2. CASE c \notin data
      BY <1>3, <2>1, <2>2, <3>2
    <3> QED
      BY <3>1, <3>2
  <2>4. pc'[r] = "answer"
    BY <1>1, TypesAre
  <2>5. DoSync(r)' <=> DoSync(r)
    BY <1>1 DEF DoSync, Due
  <2>6. CASE params[r].ps /\ DoSync(r)
    <3>1. h = received[c]
      BY <1>6, <2>2, <2>6 DEF Handed
    <3>2. local'[c] \in 0 .. Many
      BY <1>3 DEF Tally
    <3>3. received'[c] = Sat(h + local'[c])
      BY <1>4, <1>6, <2>6, <3>1
    <3>4. received'[c] = offered'[c]
      BY <2>2, <2>3, <3>2, <3>3, SatSums
    <3> QED
      BY <1>1, <1>6, <2>4, <2>5, <2>6, <3>4 DEF CountRight
  <2>7. CASE ~(params[r].ps /\ DoSync(r))
    <3>1. received'[c] = received[c]
      BY <1>4, <2>7
    <3>2. Handed(c)' = Handed(c)
      BY <1>1, <3>1 DEF Handed
    <3>3. Sat(local'[c] + Handed(c)') = offered'[c]
      BY <2>2, <2>3, <3>2
    <3> QED
      BY <1>1, <1>6, <2>4, <2>5, <2>7, <3>3 DEF CountRight
  <2> QED
    BY <2>6, <2>7
<1> QED
  BY <1>5, <1>6

LEMMA AnalyseCounts ==
  ASSUME TypeOK, CountInv, NEW r \in Ranks, Analyse(r)
  PROVE  CountInv'
<1> SUFFICES ASSUME NEW c \in Calls PROVE CountRight(c)'
  BY DEF CountInv
<1>0. CountRight(c)
  BY DEF CountInv
<1>1. /\ pc[r] = "answer" /\ local' = NewLocal(r) /\ syncs' = [syncs EXCEPT ![r] = NextCount(r)]
      /\ UNCHANGED <<received, offered>> /\ model' = [model EXCEPT ![r] = NewModel(r)]
      /\ UNCHANGED params /\ pc'[r] \in {"read", "end"} /\ \A q \in Ranks : q # r => pc'[q] = pc[q]
  <2>1. PICK m \in {NewModel(r)} : \E res \in Results(r, m) : \E e \in Stored(r, res) :
              /\ model' = [model EXCEPT ![r] = m]
              /\ EndFrame(r, With(provBuf, e.items), With(statBuf, Statistics(r, res)))
    BY AnalyseIs
  <2>2. PICK res \in Results(r, m) : \E e \in Stored(r, res) :
              EndFrame(r, With(provBuf, e.items), With(statBuf, Statistics(r, res)))
    BY <2>1
  <2>3. PICK e \in Stored(r, res) : EndFrame(r, With(provBuf, e.items), With(statBuf, Statistics(r, res)))
    BY <2>2
  <2>4. With(provBuf, e.items) \in [ProvItem -> 0 .. Many] /\ With(statBuf, Statistics(r, res)) \in [StatItem -> 0 .. Many]
    BY TypesAre, WithIs
  <2>5. UNCHANGED params /\ pc'[r] \in {"read", "end"} /\ \A q \in Ranks : q # r => pc'[q] = pc[q]
    BY <2>3, <2>4, EndFrameIs
  <2> QED
    BY <2>1, <2>5, AnalyseIs
<1>2. local'[c] = IF DoSync(r) /\ RankOf[c] = r THEN 0 ELSE local[c]
  <2>1. local \in Tally
    BY TypesAre
  <2>2. Except(r, local)[c] = IF RankOf[c] = r THEN 0 ELSE local[c]
    BY <2>1, PartsAre DEF Tally
  <2> QED
    BY <1>1, <2>2 DEF NewLocal
<1>3. CASE RankOf[c] # r
  <2>1. model'[RankOf[c]] = model[RankOf[c]] /\ syncs'[RankOf[c]] = syncs[RankOf[c]]
    BY <1>1, <1>3, RankIs, TypesAre
  <2>2. local'[c] = local[c] /\ received'[c] = received[c] /\ offered'[c] = offered[c]
    BY <1>1, <1>2, <1>3
  <2>3. pc'[RankOf[c]] = pc[RankOf[c]]
    BY <1>1, <1>3, RankIs
  <2> QED
    BY <1>0, <1>1, <2>1, <2>2, <2>3, CountKept
<1>4. CASE RankOf[c] = r
  <2>1. /\ params[r].ps /\ DoSync(r) => received[c] = offered[c]
        /\ ~(params[r].ps /\ DoSync(r)) => Sat(local[c] + Handed(c)) = offered[c]
    BY <1>0, <1>1, <1>4 DEF CountRight
  <2>2. model'[r] = NewModel(r)
    BY <1>1, TypesAre
  <2>3. Handed(c)' = IF params[r].ps THEN received[c] ELSE NewModel(r)[c]
    BY <1>1, <1>4, <2>2 DEF Handed
  <2>4. Handed(c) = IF params[r].ps THEN received[c] ELSE model[r][c]
    BY <1>4 DEF Handed
  <2>5. Sat(local'[c] + Handed(c)') = offered[c]
    <3>1. CASE DoSync(r) /\ params[r].ps
      BY <1>2, <1>4, <2>1, <2>3, <3>1, CountTypes, SatSums
    <3>2. CASE DoSync(r) /\ ~params[r].ps
      <4>1. Only(r, local) \in Tally /\ Only(r, local)[c] = local[c] /\ model[r] \in Tally
        BY <1>4, TypesAre, PartsAre DEF Tally
      <4>2. NewModel(r)[c] = Sat(model[r][c] + local[c])
        BY <3>2, <4>1, PlusIs DEF NewModel, Tally
      <4>3. PICK x \in 0 .. Many, y \in 0 .. Many : x = local[c] /\ y = model[r][c]
        BY CountTypes
      <4>4. Sat(0 + Sat(y + x)) = Sat(x + y)
        BY SatSums
      <4> QED
        BY <1>2, <1>4, <2>1, <2>3, <2>4, <3>2, <4>2, <4>3, <4>4
    <3>3. CASE ~DoSync(r)
      BY <1>2, <2>1, <2>3, <2>4, <3>3 DEF NewModel
    <3> QED
      BY <3>1, <3>2, <3>3
  <2> QED
    BY <1>1, <1>4, <2>5 DEF CountRight
<1> QED
  BY <1>3, <1>4

LEMMA NextCounts ==
  ASSUME TypeOK, CountInv, [Next]_vars
  PROVE  CountInv'
<1> USE DEF vars, driver, input, frame, params_, prov, psdata
<1>1. ASSUME NEW r \in Ranks, Collect(r) \/ Analyse(r) PROVE CountInv'
  BY <1>1, CollectCounts, AnalyseCounts
<1>2. ASSUME UNCHANGED <<params, local, received, offered, model, syncs>>,
             \A q \in Ranks :
               \/ pc'[q] = pc[q]
               \/ pc'[q] \in {"failed", "aborted"}
               \/ /\ pc[q] \notin {"answer", "failed", "aborted"} /\ pc'[q] # "answer"
      PROVE  CountInv'
  <2> SUFFICES ASSUME NEW c \in Calls PROVE CountRight(c)'
    BY DEF CountInv
  <2> QED
    BY <1>2, RankIs, CountKept DEF CountInv
<1>3. CASE Publish
  BY <1>2, <1>3 DEF Publish
<1>4. CASE Program
  <2>1. pc \in [Ranks -> PCs]
    BY TypesAre
  <2> QED
    BY <1>2, <1>4, <2>1 DEF Program, StartRun, Leave, Finalized
<1>5. ASSUME NEW r \in Ranks, Run(r) \/ Fail(r) \/ ReadStep(r) PROVE CountInv'
  <2>1. pc \in [Ranks -> PCs]
    BY TypesAre
  <2>2. UNCHANGED <<params, local, received, offered, model, syncs>>
    BY <1>5 DEF Run, Fail, ReadStep
  <2>3. /\ \A q \in Ranks : q # r => pc'[q] = pc[q]
        /\ pc'[r] = "failed" \/ (pc[r] \in {"run", "read"} /\ pc'[r] # "answer")
    BY <1>5, <2>1 DEF Run, Fail, ReadStep
  <2> QED
    BY <1>2, <2>2, <2>3
<1>6. ASSUME NEW r \in Ranks, Skip(r) PROVE CountInv'
  <2>1. EndFrame(r, provBuf, statBuf) /\ pc[r] = "skip" /\ UNCHANGED <<local, received, offered, model, syncs>>
    BY <1>6 DEF Skip
  <2>2. UNCHANGED params /\ pc'[r] \in {"read", "end"} /\ \A q \in Ranks : q # r => pc'[q] = pc[q]
    BY <2>1, TypesAre, EndFrameIs
  <2> QED
    BY <1>2, <2>1, <2>2
<1>7. ASSUME NEW r \in Ranks, End(r) PROVE CountInv'
  <2>1. pc[r] = "end" /\ pc' = [pc EXCEPT ![r] = "returned"] /\ UNCHANGED <<params, local, received, offered, model, syncs>>
    BY <1>7, EndIs
  <2>2. \A q \in Ranks : pc'[q] = IF q = r THEN "returned" ELSE pc[q]
    BY <2>1, TypesAre
  <2> QED
    BY <1>2, <2>1, <2>2
<1>8. CASE UNCHANGED vars
  BY <1>2, <1>8
<1> QED
  BY <1>1, <1>3, <1>4, <1>5, <1>6, <1>7, <1>8 DEF Next, Frame
-----------------------------------------------------------------------------
(* The function indices.                                                    *)

(* An assignment of an index to each name of a finite set, the indices being *)
(* 0, 1, ...                                                                 *)
Indexing(m) ==
  /\ IsFiniteSet(DOMAIN m)
  /\ m \in [DOMAIN m -> 0 .. Cardinality(DOMAIN m) - 1]
  /\ \A f, g \in DOMAIN m : m[f] = m[g] => f = g

LEMMA LookupIs ==
  ASSUME NEW map, Indexing(map), NEW names, IsFiniteSet(names)
  PROVE  /\ Indexing(Lookup(map, names)) /\ DOMAIN Lookup(map, names) = DOMAIN map \cup names
         /\ \A f \in DOMAIN map : Lookup(map, names)[f] = map[f]
<1> DEFINE D == DOMAIN map
           A == D \cup names
           N == names \ D
           n == Cardinality(D)
           k == Cardinality(N)
<1>1. /\ IsFiniteSet(D) /\ n \in Nat /\ IsFiniteSet(N) /\ k \in Nat /\ ExistsBijection(1 .. k, N)
  <2>1. IsFiniteSet(D)
    BY DEF Indexing
  <2>2. N \in SUBSET names
    OBVIOUS
  <2>3. IsFiniteSet(N)
    BY <2>2, FS_Subset
  <2> QED
    BY <2>1, <2>3, FS_CardinalityType
<1>2. PICK b \in Bijection(N, 1 .. k) : TRUE
  <2>1. ExistsBijection(N, 1 .. k)
    BY <1>1, Fun_ExistsBijSymmetric
  <2> QED
    BY <2>1 DEF ExistsBijection
<1>3. b \in [N -> 1 .. k] /\ \A x, y \in N : b[x] = b[y] => x = y
  <2> HIDE DEF N, k
  <2>1. PICK T : T = 1 .. k
    OBVIOUS
  <2>2. b \in Bijection(N, T)
    BY <1>2, <2>1
  <2>3. b \in [N -> T] /\ \A x, y \in N : b[x] = b[y] => x = y
    BY <2>2, Fun_BijectionProperties
  <2> QED
    BY <2>1, <2>3
<1>4. IsFiniteSet(A) /\ Cardinality(A) = n + k
  <2>1. A = D \cup N /\ D \cap N = {}
    OBVIOUS
  <2>2. /\ IsFiniteSet(D \cup N)
        /\ Cardinality(D \cup N) = n + k - Cardinality(D \cap N)
    BY <1>1, FS_Union
  <2>3. Cardinality(D \cap N) = 0
    BY <2>1, FS_EmptySet
  <2>4. IsFiniteSet(A) /\ Cardinality(A) = n + k - Cardinality(D \cap N)
    <3>1. PICK B : B = A
      OBVIOUS
    <3>2. B = D \cup N
      BY <2>1, <3>1
    <3> HIDE DEF A, N, n, k
    <3>3. IsFiniteSet(B) /\ Cardinality(B) = n + k - Cardinality(D \cap N)
      BY <2>2, <3>2
    <3> QED
      BY <3>1, <3>3
  <2> HIDE DEF A, N, n, k
  <2> QED
    BY <1>1, <2>3, <2>4
<1> DEFINE w == [f \in A |-> IF f \in D THEN map[f] ELSE n + b[f] - 1]
<1>5. map \in [D -> 0 .. n - 1] /\ \A f, g \in D : map[f] = map[g] => f = g
  BY DEF Indexing
<1> HIDE DEF n, k
<1>6. ASSUME NEW f \in A
      PROVE  /\ w[f] \in 0 .. n + k - 1
             /\ f \in D => w[f] = map[f] /\ w[f] < n
             /\ f \notin D => w[f] = n + b[f] - 1 /\ w[f] >= n /\ b[f] \in Int
  <2>1. CASE f \in D
    <3>1. w[f] = map[f] /\ map[f] \in 0 .. n - 1
      BY <1>5, <2>1
    <3>2. PICK v : v = w[f]
      OBVIOUS
    <3>3. v \in 0 .. n - 1
      BY <3>1, <3>2
    <3>4. v \in 0 .. n + k - 1 /\ v < n
      BY <1>1, <3>3
    <3> QED
      BY <2>1, <3>1, <3>2, <3>4
  <2>2. CASE f \notin D
    <3>1. w[f] = n + b[f] - 1 /\ b[f] \in 1 .. k
      BY <1>3, <2>2
    <3>2. PICK v \in 1 .. k : v = b[f]
      BY <3>1
    <3>3. n + v - 1 \in 0 .. n + k - 1 /\ n + v - 1 >= n
      BY <1>1
    <3> QED
      BY <2>2, <3>1, <3>2, <3>3
  <2> QED
    BY <2>1, <2>2
<1>7. w \in [A -> 0 .. Cardinality(A) - 1]
  <2>1. w \in [A -> 0 .. n + k - 1]
    BY <1>6
  <2>2. 0 .. Cardinality(A) - 1 = 0 .. n + k - 1
    <3>1. PICK c : c = Cardinality(A)
      OBVIOUS
    <3>2. c = n + k
      BY <1>4, <3>1
    <3>3. 0 .. c - 1 = 0 .. n + k - 1
      BY <1>1, <3>2
    <3> HIDE DEF A
    <3> QED
      BY <3>1, <3>3
  <2> HIDE DEF w, A
  <2> QED
    BY <2>1, <2>2
<1>8. \A f \in D : w[f] = map[f]
  BY <1>6
<1>9. ASSUME NEW f \in A, NEW g \in A, w[f] = w[g] PROVE f = g
  <2> HIDE DEF w
  <2>1. CASE f \in D /\ g \in D
    BY <1>5, <1>9, <1>6, <2>1
  <2>2. CASE f \notin D /\ g \notin D
    <3>1. /\ w[f] = n + b[f] - 1 /\ b[f] \in Int
          /\ w[g] = n + b[g] - 1 /\ b[g] \in Int
      BY <1>6, <2>2
    <3>2. PICK x \in Int, y \in Int : x = b[f] /\ y = b[g]
      BY <3>1
    <3>3. n + x - 1 = n + y - 1
      BY <1>9, <3>1, <3>2
    <3>4. x = y
      BY <1>1, <3>3
    <3> QED
      BY <1>3, <2>2, <3>2, <3>4
  <2>3. PICK x, y : x = w[f] /\ y = w[g] /\ x = y
    BY <1>9
  <2>4. x \in Int
    BY <1>1, <1>6, <2>3
  <2>5. /\ (f \in D => x < n) /\ (f \notin D => x >= n)
        /\ (g \in D => x < n) /\ (g \notin D => x >= n)
    BY <1>6, <2>3
  <2>6. (f \in D) <=> (g \in D)
    BY <1>1, <2>4, <2>5
  <2> QED
    BY <2>1, <2>2, <2>6
<1> DEFINE Right(m) == /\ \A f \in DOMAIN map : m[f] = map[f]
                       /\ \A f, g \in DOMAIN m : m[f] = m[g] => f = g
           M == [DOMAIN map \cup names -> 0 .. Cardinality(DOMAIN map \cup names) - 1]
           l == CHOOSE m \in M : Right(m)
<1>10. w \in M /\ Right(w)
  <2>1. DOMAIN w = A
    OBVIOUS
  <2> QED
    BY <1>7, <1>8, <1>9, <2>1
<1>11. Lookup(map, names) = l
  BY DEF Lookup
<1>12. l \in M /\ Right(l)
  <2> HIDE DEF w, M, Right
  <2>1. \E m \in M : Right(m)
    BY <1>10
  <2> QED
    BY <2>1
<1> HIDE DEF l
<1>13. DOMAIN l = A
  BY <1>12
<1> QED
  BY <1>4, <1>11, <1>12, <1>13 DEF Indexing

IndexInv ==
  /\ Indexing(fmap)
  /\ DOMAIN idxmap = Ranks /\ idxmap = [r \in Ranks |-> idxmap[r]]
  /\ \A r \in Ranks : /\ DOMAIN idxmap[r] \subseteq DOMAIN fmap
                      /\ \A f \in DOMAIN idxmap[r] : idxmap[r][f] = fmap[f]

LEMMA IndexOne == IndexInv => OneModelPerFunction
BY DEF IndexInv, Indexing, OneModelPerFunction

LEMMA InitIndex == Init => IndexInv
<1> SUFFICES ASSUME Init PROVE IndexInv
  OBVIOUS
<1>1. fmap = <<>> /\ idxmap = [r \in Ranks |-> <<>>]
  BY DEF Init, InitComponents, InitServer
<1>2. DOMAIN <<>> = {} /\ <<>> = [x \in {} |-> x]
  OBVIOUS
<1>3. Indexing(fmap)
  <2>1. IsFiniteSet({})
    BY FS_EmptySet
  <2>2. DOMAIN fmap = {} /\ fmap \in [{} -> 0 .. Cardinality({}) - 1]
    BY <1>1, <1>2
  <2> QED
    BY <2>1, <2>2 DEF Indexing
<1> QED
  BY <1>1, <1>2, <1>3 DEF IndexInv

LEMMA LookUpIndex ==
  ASSUME IndexInv, NEW r \in Ranks, NEW F, IsFiniteSet(F), LookUp(r, F)
  PROVE  IndexInv'
<1>1. CASE UNCHANGED <<fmap, idxmap>>
  BY <1>1 DEF IndexInv, Indexing
<1>2. CASE params[r].ps
  <2>1. PICK names \in {F \ DOMAIN idxmap[r]} : \E map \in {Lookup(fmap, names)} :
         /\ fmap' = map
         /\ idxmap' = [idxmap EXCEPT ![r] = [f \in DOMAIN @ \cup names |-> map[f]]]
    BY <1>2 DEF LookUp
  <2>2. /\ fmap' = Lookup(fmap, names)
        /\ idxmap' = [idxmap EXCEPT ![r] = [f \in DOMAIN idxmap[r] \cup names |-> Lookup(fmap, names)[f]]]
    BY <2>1
  <2>3. IsFiniteSet(names)
    <3>1. names \in SUBSET F
      OBVIOUS
    <3> QED
      BY <3>1, FS_Subset
  <2>4. /\ Indexing(fmap') /\ DOMAIN fmap' = DOMAIN fmap \cup names
        /\ \A f \in DOMAIN fmap : fmap'[f] = fmap[f]
    BY <2>2, <2>3, LookupIs DEF IndexInv
  <2>5. /\ DOMAIN idxmap = Ranks /\ idxmap = [q \in Ranks |-> idxmap[q]]
        /\ \A q \in Ranks : /\ DOMAIN idxmap[q] \subseteq DOMAIN fmap
                            /\ \A f \in DOMAIN idxmap[q] : idxmap[q][f] = fmap[f]
    BY DEF IndexInv
  <2>6. idxmap' = [idxmap EXCEPT ![r] = [f \in DOMAIN idxmap[r] \cup names |-> fmap'[f]]]
    BY <2>2
  <2>7. DOMAIN idxmap' = Ranks /\ idxmap' = [q \in Ranks |-> idxmap'[q]]
    BY <2>5, <2>6
  <2>8. ASSUME NEW q \in Ranks
        PROVE  /\ DOMAIN idxmap'[q] \subseteq DOMAIN fmap'
               /\ \A f \in DOMAIN idxmap'[q] : idxmap'[q][f] = fmap'[f]
    <3>1. CASE q = r
      <4>1. idxmap'[q] = [f \in DOMAIN idxmap[r] \cup names |-> fmap'[f]]
        BY <2>5, <2>6, <3>1
      <4>2. DOMAIN idxmap[r] \subseteq DOMAIN fmap
        BY <2>5
      <4> QED
        BY <2>4, <4>1, <4>2
    <3>2. CASE q # r
      <4>1. idxmap'[q] = idxmap[q]
        BY <2>5, <2>6, <3>2
      <4> QED
        BY <2>4, <2>5, <4>1
    <3> QED
      BY <3>1, <3>2
  <2> QED
    BY <2>4, <2>7, <2>8 DEF IndexInv
<1> QED
  BY <1>1, <1>2 DEF LookUp

LEMMA NextIndex ==
  ASSUME TypeOK, IndexInv, [Next]_vars
  PROVE  IndexInv'
<1>1. ASSUME UNCHANGED <<fmap, idxmap>> PROVE IndexInv'
  BY <1>1 DEF IndexInv, Indexing
<1>2. ASSUME NEW r \in Ranks, ReadStep(r) PROVE IndexInv'
  <2>1. CASE ParserDone(r)
    BY <1>1, <2>1 DEF ParserDone
  <2>2. ASSUME NEW D, Parse(r, D) PROVE IndexInv'
    <3> DEFINE S == D \cap Calls
               F == {Func[c] : c \in S}
               h == [c \in S |-> Func[c]]
    <3>1. LookUp(r, F)
      BY <2>2 DEF Parse
    <3>2. S \in SUBSET Calls
      OBVIOUS
    <3>3. IsFiniteSet(S)
      BY <3>2, ADDriverAssumption, FS_Subset
    <3>4. h \in Surjection(S, F)
      BY DEF Surjection
    <3> HIDE DEF S, F, h
    <3>5. IsFiniteSet(F)
      BY <3>3, <3>4, FS_Surjection
    <3> QED
      BY <3>1, <3>5, LookUpIndex
  <2> QED
    BY <1>2, <2>1, <2>2 DEF ReadStep
<1>3. ASSUME NEW r \in Ranks, Collect(r) \/ Analyse(r) \/ Run(r) \/ Fail(r) \/ Skip(r) PROVE UNCHANGED <<fmap, idxmap>>
  BY <1>3 DEF Collect, Analyse, Run, Fail, Skip, input
<1>4. ASSUME NEW r \in Ranks, End(r) PROVE UNCHANGED <<fmap, idxmap>>
  BY <1>4 DEF End, input
<1>5. CASE Publish \/ Program \/ UNCHANGED vars
  BY <1>1, <1>5 DEF Publish, Program, StartRun, Leave, vars, input
<1> QED
  BY <1>1, <1>2, <1>3, <1>4, <1>5 DEF Next, Frame

(* A value is in the models as often as its call was offered, whatever the  *)
(* ranks exchange when and with whom, and a function's model is its own: in  *)
(* a name's index the ranks agree, and no two names share one.               *)
THEOREM ModelsRight == Spec => []ModelsExact
<1> DEFINE Inv == TypeOK /\ CountInv /\ IndexInv
<1>1. Init => Inv
  BY InitTypes, InitCounts, InitIndex
<1>2. Inv /\ [Next]_vars => Inv'
  BY NextTypes, NextCounts, NextIndex
<1>3. Inv => ModelsExact
  BY IndexOne DEF ModelsExact, ModelCountsExact, CountInv, CountRight, Handed
<1> QED
  BY <1>1, <1>2, <1>3, PTL DEF Spec
-----------------------------------------------------------------------------
(* What a frame with analysis does to the buffers.                          *)

AnalysisBy(r, m, res, e) ==
  /\ m = NewModel(r) /\ res \in Results(r, m) /\ e \in Stored(r, res)
  /\ model' = [model EXCEPT ![r] = m] /\ label' = Labels(r, m, res)
  /\ normals' = e.normals /\ wanted' = e.wanted
  /\ \E sent \in BOOLEAN : Moved(r, sent, With(provBuf, e.items), db, provBuf', db')
  /\ \E sent \in BOOLEAN : Moved(r, sent, With(statBuf, Statistics(r, res)), stats, statBuf', stats')
  /\ UNCHANGED params
  /\ pc'[r] \in {"read", "end"} /\ \A q \in Ranks : q # r => pc'[q] = pc[q]

LEMMA AnalysisIs ==
  ASSUME TypeOK, NEW r \in Ranks, Analyse(r)
  PROVE  \E m, res, e : AnalysisBy(r, m, res, e)
<1>1. PICK m \in {NewModel(r)} : \E res \in Results(r, m) : \E e \in Stored(r, res) :
         /\ model' = [model EXCEPT ![r] = m]
         /\ label' = Labels(r, m, res)
         /\ normals' = e.normals /\ wanted' = e.wanted
         /\ EndFrame(r, With(provBuf, e.items), With(statBuf, Statistics(r, res)))
  BY AnalyseIs
<1>2. PICK res \in Results(r, m) : \E e \in Stored(r, res) :
         /\ model' = [model EXCEPT ![r] = m]
         /\ label' = Labels(r, m, res)
         /\ normals' = e.normals /\ wanted' = e.wanted
         /\ EndFrame(r, With(provBuf, e.items), With(statBuf, Statistics(r, res)))
  BY <1>1
<1>3. PICK e \in Stored(r, res) :
         /\ model' = [model EXCEPT ![r] = m]
         /\ label' = Labels(r, m, res)
         /\ normals' = e.normals /\ wanted' = e.wanted
         /\ EndFrame(r, With(provBuf, e.items), With(statBuf, Statistics(r, res)))
  BY <1>2
<1>4. With(provBuf, e.items) \in [ProvItem -> 0 .. Many] /\ With(statBuf, Statistics(r, res)) \in [StatItem -> 0 .. Many]
  BY TypesAre, WithIs
<1>5. /\ \E sent \in BOOLEAN : Moved(r, sent, With(provBuf, e.items), db, provBuf', db')
      /\ \E sent \in BOOLEAN : Moved(r, sent, With(statBuf, Statistics(r, res)), stats, statBuf', stats')
      /\ UNCHANGED params
      /\ pc'[r] \in {"read", "end"} /\ \A q \in Ranks : q # r => pc'[q] = pc[q]
  BY <1>3, <1>4, EndFrameIs
<1>6. AnalysisBy(r, m, res, e)
  BY <1>1, <1>2, <1>3, <1>5 DEF AnalysisBy
<1> QED
  BY <1>6

(* Whether an item is somewhere does not change when buffers are sent, and  *)
(* no item that is nowhere or in one place only is counted twice.           *)
LEMMA MovedKeeps ==
  ASSUME NEW S, NEW r, NEW sent \in BOOLEAN, NEW b \in [S -> 0 .. Many], NEW t \in [S -> 0 .. Many],
         NEW b2 \in [S -> 0 .. Many], NEW t2 \in [S -> 0 .. Many], Moved(r, sent, b, t, b2, t2),
         NEW i \in S
  PROVE  /\ (b2[i] + t2[i] > 0) <=> (b[i] + t[i] > 0)
         /\ b[i] + t[i] <= 1 => b2[i] + t2[i] = b[i] + t[i]
<1>1. PICK x \in 0 .. Many, y \in 0 .. Many, u \in 0 .. Many, v \in 0 .. Many :
        x = b[i] /\ y = t[i] /\ u = b2[i] /\ v = t2[i]
  OBVIOUS
<1>2. (u = 0 /\ v = Sat(y + x)) \/ (u = x /\ v = y)
  BY <1>1 DEF Moved
<1>3. /\ (u + v > 0) <=> (x + y > 0)
      /\ x + y <= 1 => u + v = x + y
  BY <1>2 DEF Sat, Many
<1> QED
  BY <1>1, <1>3

LEMMA WithKeeps ==
  ASSUME NEW S, NEW a \in [S -> 0 .. Many], NEW t \in [S -> 0 .. Many], NEW X, NEW i \in S
  PROVE  /\ (With(a, X)[i] + t[i] > 0) <=> (a[i] + t[i] > 0 \/ i \in X)
         /\ i \notin X => With(a, X)[i] = a[i]
         /\ i \in X /\ a[i] = 0 => With(a, X)[i] = 1
<1>1. With(a, X)[i] = IF i \in X THEN Sat(a[i] + 1) ELSE a[i]
  BY WithIs
<1>2. PICK x \in 0 .. Many, y \in 0 .. Many : x = a[i] /\ y = t[i]
  OBVIOUS
<1>3. Sat(x + 1) + y > 0 /\ (x = 0 => Sat(x + 1) = 1)
  BY DEF Sat, Many
<1> QED
  BY <1>1, <1>2, <1>3

-----------------------------------------------------------------------------
(* Normal executions for anomalies.                                         *)

Noted(i) == provBuf[i] + db[i] > 0
NormalInv ==
  \A c \in Calls :
    /\ Noted(<<"anomalies", c>>) =>
         \E d \in Calls : /\ RankOf[d] = RankOf[c] /\ Func[d] = Func[c]
                          /\ Site(d) \in wanted \/ Noted(<<"normalexecs", d>>)
    /\ c \in normals => Site(c) \notin wanted

LEMMA ItemIs ==
  ASSUME NEW c \in Calls
  PROVE  <<"anomalies", c>> \in ProvItem /\ <<"normalexecs", c>> \in ProvItem
BY DEF ProvItem

(* A step that keeps what is noted, wanted and at hand.                     *)
LEMMA NormalKept ==
  ASSUME NormalInv, UNCHANGED <<normals, wanted>>,
         \A i \in ProvItem : Noted(i)' <=> Noted(i)
  PROVE  NormalInv'
<1> SUFFICES ASSUME NEW c \in Calls
             PROVE  /\ Noted(<<"anomalies", c>>)' =>
                         \E d \in Calls : /\ RankOf[d] = RankOf[c] /\ Func[d] = Func[c]
                                          /\ Site(d) \in wanted' \/ Noted(<<"normalexecs", d>>)'
                    /\ c \in normals' => Site(c) \notin wanted'
  BY DEF NormalInv
<1> QED
  BY ItemIs DEF NormalInv

LEMMA NoteIs ==
  ASSUME TypeOK, TypeOK', NEW r \in Ranks, NEW m, NEW res, NEW e, AnalysisBy(r, m, res, e), NEW i \in ProvItem
  PROVE  Noted(i)' <=> (Noted(i) \/ i \in e.items)
<1>1. /\ provBuf \in [ProvItem -> 0 .. Many] /\ db \in [ProvItem -> 0 .. Many]
      /\ provBuf' \in [ProvItem -> 0 .. Many] /\ db' \in [ProvItem -> 0 .. Many]
  BY DEF TypeOK
<1>2. With(provBuf, e.items) \in [ProvItem -> 0 .. Many]
  BY <1>1, WithIs
<1>3. PICK sent \in BOOLEAN : Moved(r, sent, With(provBuf, e.items), db, provBuf', db')
  BY DEF AnalysisBy
<1>4. (provBuf'[i] + db'[i] > 0) <=> (With(provBuf, e.items)[i] + db[i] > 0)
  <2>1. PICK b, b2, t2 : b = With(provBuf, e.items) /\ b2 = provBuf' /\ t2 = db'
    OBVIOUS
  <2>2. (b2[i] + t2[i] > 0) <=> (b[i] + db[i] > 0)
    BY <1>1, <1>2, <1>3, <2>1, MovedKeeps
  <2> QED
    BY <2>1, <2>2
<1>5. (With(provBuf, e.items)[i] + db[i] > 0) <=> (provBuf[i] + db[i] > 0 \/ i \in e.items)
  BY <1>1, WithKeeps
<1> QED
  BY <1>4, <1>5 DEF Noted
LEMMA AnalyseNormals ==
  ASSUME TypeOK, TypeOK', NormalInv, NEW r \in Ranks, Analyse(r)
  PROVE  NormalInv'
<1>1. PICK m, res, e : AnalysisBy(r, m, res, e)
  BY AnalysisIs
<1>2. /\ res \in Results(r, m) /\ e \in Stored(r, res) /\ normals' = e.normals /\ wanted' = e.wanted
      /\ \A i \in ProvItem : Noted(i)' <=> (Noted(i) \/ i \in e.items)
  BY <1>1, NoteIs DEF AnalysisBy
<1>3. CASE ~Recording(r)
  <2>1. e.normals = normals /\ e.wanted = wanted /\ e.items = {}
    BY <1>2, <1>3, StoredIs
  <2> QED
    BY <1>2, <2>1, NormalKept
<1>4. CASE Recording(r)
  <2>1. PICK new, late, asking, now : Recorded(r, res, e, new, late, asking, now)
    BY <1>2, <1>4, StoredIs
  <2>2. res.outlier \subseteq Of(r, Calls) /\ res.normal \subseteq Of(r, Calls)
    BY <1>2, TypesAre, ResultsAre DEF Of
  <2>3. /\ \A c \in new : c \in res.normal \/ c \in normals
        /\ late = {c \in new : Site(c) \in {w \in wanted : w[1] = r}}
        /\ asking \subseteq res.outlier \ Short
        /\ \A c \in res.outlier \ Short : \E d \in asking : Func[d] = Func[c]
        /\ now = {c \in new \ late : Site(c) \in Sites(asking)}
        /\ normals' = new \ (late \cup now)
        /\ wanted' = (wanted \ Sites(late)) \cup (Sites(asking) \ Sites(now))
    BY <1>2, <2>1 DEF Recorded, Update, Serving, OnePerFunction
  <2>4. /\ \A c \in Calls : <<"anomalies", c>> \in e.items => c \in res.outlier \ Short
        /\ \A c \in late \cup now : <<"normalexecs", c>> \in e.items
    BY <2>1 DEF Recorded
  <2>5. late \subseteq Calls /\ now \subseteq Calls
    BY <2>2, <2>3, TypesAre DEF Of
  <2>6. \A c, d : Site(c) = Site(d) => RankOf[c] = RankOf[d] /\ Func[c] = Func[d]
    BY DEF Site
  <2>7. \A S, s : s \in Sites(S) => \E d \in S : Site(d) = s
    BY DEF Sites
  <2>8. \A S : \A d \in S : Site(d) \in Sites(S)
    BY DEF Sites
  <2>9. ASSUME NEW c \in Calls, Noted(<<"anomalies", c>>)'
        PROVE  \E d \in Calls : /\ RankOf[d] = RankOf[c] /\ Func[d] = Func[c]
                                /\ Site(d) \in wanted' \/ Noted(<<"normalexecs", d>>)'
    <3>1. CASE Noted(<<"anomalies", c>>)
      <4>1. PICK d \in Calls : /\ RankOf[d] = RankOf[c] /\ Func[d] = Func[c]
                               /\ Site(d) \in wanted \/ Noted(<<"normalexecs", d>>)
        BY <3>1 DEF NormalInv
      <4>2. CASE Noted(<<"normalexecs", d>>)
        BY <1>2, <4>1, <4>2, ItemIs
      <4>3. CASE Site(d) \in wanted /\ Site(d) \notin Sites(late)
        BY <2>3, <4>1, <4>3
      <4>4. CASE Site(d) \in Sites(late)
        <5>1. PICK l \in late : Site(l) = Site(d)
          BY <2>7, <4>4
        <5>2. l \in Calls /\ RankOf[l] = RankOf[c] /\ Func[l] = Func[c]
          BY <2>5, <2>6, <4>1, <5>1
        <5>3. Noted(<<"normalexecs", l>>)'
          BY <1>2, <2>4, <5>1, <5>2, ItemIs
        <5> QED
          BY <5>2, <5>3
      <4> QED
        BY <4>1, <4>2, <4>3, <4>4
    <3>2. CASE c \in res.outlier \ Short
      <4>1. PICK d \in asking : Func[d] = Func[c]
        BY <2>3, <3>2
      <4>2. d \in Calls /\ RankOf[d] = RankOf[c]
        BY <2>2, <2>3, <3>2 DEF Of
      <4>3. CASE Site(d) \in Sites(now)
        <5>1. PICK l \in now : Site(l) = Site(d)
          BY <2>7, <4>3
        <5>2. l \in Calls /\ RankOf[l] = RankOf[c] /\ Func[l] = Func[c]
          BY <2>5, <2>6, <4>1, <4>2, <5>1
        <5>3. Noted(<<"normalexecs", l>>)'
          BY <1>2, <2>4, <5>1, <5>2, ItemIs
        <5> QED
          BY <5>2, <5>3
      <4>4. CASE Site(d) \notin Sites(now)
        BY <2>3, <2>8, <4>1, <4>2, <4>4
      <4> QED
        BY <4>3, <4>4
    <3> QED
      BY <1>2, <2>4, <2>9, <3>1, <3>2, ItemIs
  <2>10. ASSUME NEW c \in Calls, c \in normals', Site(c) \in wanted' PROVE FALSE
    <3>1. c \in new /\ c \notin late /\ c \notin now
      BY <2>3, <2>10
    <3>2. CASE Site(c) \in Sites(asking)
      BY <2>3, <3>1, <3>2
    <3>3. CASE Site(c) \in wanted
      <4>1. Site(c)[1] = RankOf[c]
        BY DEF Site
      <4>2. RankOf[c] # r
        BY <2>3, <3>1, <3>3, <4>1
      <4>3. c \in normals
        BY <2>2, <2>3, <3>1, <4>2 DEF Of
      <4> QED
        BY <3>3, <4>3 DEF NormalInv
    <3> QED
      BY <2>3, <2>10, <3>2, <3>3
  <2> QED
    BY <2>9, <2>10 DEF NormalInv
<1> QED
  BY <1>3, <1>4

LEMMA InitNormals == Init => NormalInv
<1> SUFFICES ASSUME Init PROVE NormalInv
  OBVIOUS
<1>1. normals = {} /\ provBuf = Nothing(ProvItem) /\ db = Nothing(ProvItem)
  BY DEF Init, InitBase, InitComponents
<1>2. \A i \in ProvItem : provBuf[i] = 0 /\ db[i] = 0
  BY <1>1 DEF Nothing
<1>3. \A i \in ProvItem : ~Noted(i)
  BY <1>2 DEF Noted
<1> QED
  BY <1>1, <1>3, ItemIs DEF NormalInv

(* Sending what is buffered keeps what is noted.                            *)
LEMMA SentNoted ==
  ASSUME TypeOK, TypeOK', NEW r, NEW sent \in BOOLEAN, Moved(r, sent, provBuf, db, provBuf', db')
  PROVE  \A i \in ProvItem : Noted(i)' <=> Noted(i)
<1>1. /\ provBuf \in [ProvItem -> 0 .. Many] /\ db \in [ProvItem -> 0 .. Many]
      /\ provBuf' \in [ProvItem -> 0 .. Many] /\ db' \in [ProvItem -> 0 .. Many]
  BY DEF TypeOK
<1>2. PICK b2, t2 : b2 = provBuf' /\ t2 = db'
  OBVIOUS
<1>3. \A i \in ProvItem : (b2[i] + t2[i] > 0) <=> (provBuf[i] + db[i] > 0)
  BY <1>1, <1>2, MovedKeeps
<1> QED
  BY <1>2, <1>3 DEF Noted

LEMMA NextNormals ==
  ASSUME TypeOK, TypeOK', NormalInv, [Next]_vars
  PROVE  NormalInv'
<1> USE DEF vars, prov, input, frame, driver, params_, psdata
<1>1. ASSUME UNCHANGED <<normals, wanted, provBuf, db>> PROVE NormalInv'
  <2>1. \A i \in ProvItem : Noted(i)' <=> Noted(i)
    BY <1>1 DEF Noted
  <2> QED
    BY <1>1, <2>1, NormalKept
<1>2. ASSUME NEW r \in Ranks, Run(r) \/ Fail(r) \/ ReadStep(r) \/ Collect(r) PROVE UNCHANGED <<normals, wanted, provBuf, db>>
  BY <1>2 DEF Run, Fail, ReadStep, Collect
<1>3. CASE Publish \/ Program \/ UNCHANGED vars
  BY <1>1, <1>3 DEF Publish, Program, StartRun, Leave
<1>4. ASSUME NEW r \in Ranks, Skip(r) PROVE NormalInv'
  <2>1. EndFrame(r, provBuf, statBuf) /\ UNCHANGED <<normals, wanted>>
    BY <1>4 DEF Skip
  <2>2. \E sent \in BOOLEAN : Moved(r, sent, provBuf, db, provBuf', db')
    BY <2>1, TypesAre, EndFrameIs
  <2> QED
    BY <2>1, <2>2, SentNoted, NormalKept
<1>5. ASSUME NEW r \in Ranks, End(r) PROVE NormalInv'
  <2>1. Moved(r, TRUE, provBuf, db, provBuf', db') /\ UNCHANGED <<normals, wanted>>
    BY <1>5, EndIs
  <2> QED
    BY <2>1, SentNoted, NormalKept
<1> QED
  BY <1>1, <1>2, <1>3, <1>4, <1>5, AnalyseNormals DEF Next, Frame

(* An anomaly is not reported without a normal execution of its function, or *)
(* a request for one, and no execution at hand is one that is wanted: however *)
(* frames with and without recording follow each other.                      *)
THEOREM NormalsFollow == Spec => []NormalForEveryAnomaly
<1>1. Init => NormalInv
  BY InitNormals
<1>2. TypeOK /\ NormalInv /\ [Next]_vars => TypeOK' /\ NormalInv'
  BY NextTypes, NextNormals
<1>3. NormalInv => NormalForEveryAnomaly
  <2> SUFFICES ASSUME NormalInv, NEW c \in Calls
               PROVE  /\ Noted(<<"anomalies", c>>) =>
                           \E d \in Of(RankOf[c], Calls) :
                              /\ Func[d] = Func[c]
                              /\ Site(d) \in wanted \/ Noted(<<"normalexecs", d>>)
                      /\ c \in normals => Site(c) \notin wanted
    BY DEF NormalForEveryAnomaly, Noted
  <2> QED
    BY DEF NormalInv, Of
<1> QED
  BY <1>1, <1>2, <1>3, InitTypes, PTL DEF Spec
-----------------------------------------------------------------------------
(* Reports of outliers.                                                     *)

InProv(i) == provBuf[i] + db[i]
InStats(i) == statBuf[i] + stats[i]
Cleared(c) ==
  /\ provBuf[<<"anomalies", c>>] = 0
  /\ params[RankOf[c]].ps => statBuf[<<"n_anomaly", c>>] = 0 /\ statBuf[<<"profile", c>>] = 0

(* A call has a label only after its data set was analysed; then, and not   *)
(* before, it is in a buffer or was sent, once.                             *)
ReportRight(c) ==
  LET r == RankOf[c]
      ok == pc[r] \notin {"failed", "aborted"} IN
  /\ InProv(<<"anomalies", c>>) <= 1
  /\ label[c] # -1 => InProv(<<"anomalies", c>>) = 0
  /\ label[c] = -1 /\ c \notin Short /\ params[r].start = -1 /\ params[r].stop = -1 =>
       InProv(<<"anomalies", c>>) = 1
  /\ InStats(<<"n_anomaly", c>>) = IF label[c] = -1 /\ params[r].ps THEN 1 ELSE 0
  /\ ok /\ label[c] # 0 /\ params[r].ps =>
       InStats(<<"profile", c>>) > 0 \/ (pc[r] = "answer" /\ c \in exec)
  /\ ok /\ c \in dset => pc[r] = "answer" /\ label[c] = 0 /\ c \in exec
  /\ pc[r] \in {"ready", "run", "returned", "exited"} => Cleared(c)
ReportInv == \A c \in Calls : ReportRight(c)

LEMMA StatItemIs ==
  ASSUME NEW c \in Calls
  PROVE  <<"n_anomaly", c>> \in StatItem /\ <<"profile", c>> \in StatItem
BY DEF StatItem, ProfileItem, AnomalyItem

LEMMA ReportTypes ==
  ASSUME TypeOK, NEW c \in Calls
  PROVE  /\ provBuf[<<"anomalies", c>>] \in 0 .. Many /\ db[<<"anomalies", c>>] \in 0 .. Many
         /\ statBuf[<<"n_anomaly", c>>] \in 0 .. Many /\ stats[<<"n_anomaly", c>>] \in 0 .. Many
         /\ statBuf[<<"profile", c>>] \in 0 .. Many /\ stats[<<"profile", c>>] \in 0 .. Many
BY ItemIs, StatItemIs DEF TypeOK

LEMMA ReportRightGives ==
  ASSUME TypeOK, NEW c \in Calls, ReportRight(c)
  PROVE  LET r == RankOf[c] IN
         /\ db[<<"anomalies", c>>] <= 1 /\ stats[<<"n_anomaly", c>>] <= 1
         /\ Returned(r) /\ label[c] = -1 /\ params[r].ps => stats[<<"n_anomaly", c>>] = 1
         /\ Returned(r) /\ label[c] # 0 /\ params[r].ps => stats[<<"profile", c>>] > 0
         /\ Returned(r) /\ label[c] = -1 /\ c \notin Short /\ params[r].start = -1 /\ params[r].stop = -1
              => db[<<"anomalies", c>>] = 1
<1>1. PICK r : r = RankOf[c]
  OBVIOUS
<1>2. PICK x \in 0 .. Many, y \in 0 .. Many, u \in 0 .. Many, v \in 0 .. Many, s \in 0 .. Many, t \in 0 .. Many :
        /\ x = provBuf[<<"anomalies", c>>] /\ y = db[<<"anomalies", c>>]
        /\ u = statBuf[<<"n_anomaly", c>>] /\ v = stats[<<"n_anomaly", c>>]
        /\ s = statBuf[<<"profile", c>>] /\ t = stats[<<"profile", c>>]
  BY ReportTypes
<1>3. /\ x + y <= 1
      /\ label[c] = -1 /\ c \notin Short /\ params[r].start = -1 /\ params[r].stop = -1 => x + y = 1
      /\ u + v = IF label[c] = -1 /\ params[r].ps THEN 1 ELSE 0
  BY <1>1, <1>2 DEF ReportRight, InProv, InStats
<1>4. Returned(r) => pc[r] \notin {"failed", "aborted", "answer"} /\ pc[r] \in {"ready", "run", "returned", "exited"}
  BY DEF Returned
<1>5. /\ Returned(r) /\ label[c] # 0 /\ params[r].ps => s + t > 0
      /\ Returned(r) => x = 0 /\ (params[r].ps => u = 0 /\ s = 0)
  BY <1>1, <1>2, <1>4 DEF ReportRight, InStats, Cleared
<1>6. y <= 1 /\ v <= 1
  BY <1>3 DEF Many
<1>7. ASSUME Returned(r), label[c] = -1, params[r].ps PROVE v = 1
  BY <1>3, <1>5, <1>7
<1>8. ASSUME Returned(r), label[c] # 0, params[r].ps PROVE t > 0
  BY <1>5, <1>8
<1>9. ASSUME Returned(r), label[c] = -1, c \notin Short, params[r].start = -1, params[r].stop = -1 PROVE y = 1
  BY <1>3, <1>5, <1>9
<1> QED
  BY <1>1, <1>2, <1>6, <1>7, <1>8, <1>9

LEMMA InitReports == Init => ReportInv
<1> SUFFICES ASSUME Init, NEW c \in Calls PROVE ReportRight(c)
  BY DEF ReportInv
<1> USE DEF Init, InitBase, InitComponents
<1>1. /\ provBuf[<<"anomalies", c>>] = 0 /\ db[<<"anomalies", c>>] = 0
      /\ statBuf[<<"n_anomaly", c>>] = 0 /\ stats[<<"n_anomaly", c>>] = 0
      /\ statBuf[<<"profile", c>>] = 0
  BY ItemIs, StatItemIs DEF Nothing
<1>2. label[c] = 0 /\ c \notin dset /\ pc[RankOf[c]] = "ready"
  BY RankIs DEF Nothing
<1>3. InProv(<<"anomalies", c>>) = 0 /\ InStats(<<"n_anomaly", c>>) = 0
  BY <1>1 DEF InProv, InStats
<1>4. Cleared(c)
  BY <1>1 DEF Cleared
<1> QED
  BY <1>2, <1>3, <1>4 DEF ReportRight

(* A step that moves nothing of a call, or only what was buffered.          *)
LEMMA ReportKept ==
  ASSUME NEW c \in Calls, ReportRight(c), UNCHANGED params, label'[c] = label[c],
         InProv(<<"anomalies", c>>)' = InProv(<<"anomalies", c>>),
         InStats(<<"n_anomaly", c>>)' = InStats(<<"n_anomaly", c>>),
         (InStats(<<"profile", c>>) > 0) => (InStats(<<"profile", c>>)' > 0),
         c \in dset' => c \in dset,
         c \in exec => c \in exec',
         \/ pc'[RankOf[c]] = pc[RankOf[c]]
         \/ pc'[RankOf[c]] \in {"failed", "aborted"}
         \/ pc[RankOf[c]] \notin {"answer", "failed", "aborted"},
         pc'[RankOf[c]] \in {"ready", "run", "returned", "exited"} => Cleared(c)'
  PROVE  ReportRight(c)'
BY DEF ReportRight

LEMMA ClearedKept ==
  ASSUME NEW c \in Calls, Cleared(c), UNCHANGED params,
         provBuf'[<<"anomalies", c>>] = provBuf[<<"anomalies", c>>],
         statBuf'[<<"n_anomaly", c>>] = statBuf[<<"n_anomaly", c>>],
         statBuf'[<<"profile", c>>] = statBuf[<<"profile", c>>]
  PROVE  Cleared(c)'
BY DEF Cleared

(* What sending leaves alone.                                               *)
LEMMA SentReports ==
  ASSUME TypeOK, TypeOK', NEW r, NEW b \in [ProvItem -> 0 .. Many], NEW s \in [StatItem -> 0 .. Many],
         \E sent \in BOOLEAN : Moved(r, sent, b, db, provBuf', db'),
         \E sent \in BOOLEAN : Moved(r, sent, s, stats, statBuf', stats'),
         NEW c \in Calls
  PROVE  /\ b[<<"anomalies", c>>] + db[<<"anomalies", c>>] <= 1 =>
              InProv(<<"anomalies", c>>)' = b[<<"anomalies", c>>] + db[<<"anomalies", c>>]
         /\ s[<<"n_anomaly", c>>] + stats[<<"n_anomaly", c>>] <= 1 =>
              InStats(<<"n_anomaly", c>>)' = s[<<"n_anomaly", c>>] + stats[<<"n_anomaly", c>>]
         /\ (InStats(<<"profile", c>>)' > 0) <=> (s[<<"profile", c>>] + stats[<<"profile", c>>] > 0)
         /\ RankOf[c] # r =>
              /\ provBuf'[<<"anomalies", c>>] = b[<<"anomalies", c>>]
              /\ statBuf'[<<"n_anomaly", c>>] = s[<<"n_anomaly", c>>]
              /\ statBuf'[<<"profile", c>>] = s[<<"profile", c>>]
<1>1. /\ db \in [ProvItem -> 0 .. Many] /\ provBuf' \in [ProvItem -> 0 .. Many] /\ db' \in [ProvItem -> 0 .. Many]
      /\ stats \in [StatItem -> 0 .. Many] /\ statBuf' \in [StatItem -> 0 .. Many] /\ stats' \in [StatItem -> 0 .. Many]
  BY DEF TypeOK
<1>2. PICK b2, t2, s2, u2 : b2 = provBuf' /\ t2 = db' /\ s2 = statBuf' /\ u2 = stats'
  OBVIOUS
<1>3. /\ b2 \in [ProvItem -> 0 .. Many] /\ t2 \in [ProvItem -> 0 .. Many]
      /\ s2 \in [StatItem -> 0 .. Many] /\ u2 \in [StatItem -> 0 .. Many]
  BY <1>1, <1>2
<1>4. PICK sent \in BOOLEAN : Moved(r, sent, b, db, b2, t2)
  BY <1>2
<1>5. PICK sent2 \in BOOLEAN : Moved(r, sent2, s, stats, s2, u2)
  BY <1>2
<1>6. \A i \in ProvItem : b[i] + db[i] <= 1 => b2[i] + t2[i] = b[i] + db[i]
  BY <1>1, <1>3, <1>4, MovedKeeps
<1>7. \A i \in StatItem : /\ s[i] + stats[i] <= 1 => s2[i] + u2[i] = s[i] + stats[i]
                          /\ (s2[i] + u2[i] > 0) <=> (s[i] + stats[i] > 0)
  BY <1>1, <1>3, <1>5, MovedKeeps
<1>8. /\ \A i \in ProvItem : RankOf[i[2]] # r => b2[i] = b[i]
      /\ \A i \in StatItem : RankOf[i[2]] # r => s2[i] = s[i]
  BY <1>4, <1>5 DEF Moved
<1>9. /\ <<"anomalies", c>>[2] = c /\ <<"n_anomaly", c>>[2] = c /\ <<"profile", c>>[2] = c
  OBVIOUS
<1> QED
  BY <1>2, <1>6, <1>7, <1>8, <1>9, ItemIs, StatItemIs DEF InProv, InStats
LEMMA CollectReports ==
  ASSUME TypeOK, ReportInv, NEW r \in Ranks, Collect(r)
  PROVE  ReportInv'
<1> SUFFICES ASSUME NEW c \in Calls PROVE ReportRight(c)'
  BY DEF ReportInv
<1>0. ReportRight(c)
  BY DEF ReportInv
<1>1. /\ pc[r] = "outlier" /\ pc' = [pc EXCEPT ![r] = "answer"]
      /\ UNCHANGED <<params, exec, prov, psdata>>
  BY CollectIs
<1>2. PICK F \in SUBSET Unlabelled(r) : \E data \in SUBSET Unlabelled(r) :
         /\ label' = [d \in Calls |-> IF d \in F THEN 1 ELSE label[d]]
         /\ data = Unlabelled(r) \ F
         /\ dset' = (dset \ Of(r, dset)) \cup data
  BY CollectIs
<1>3. PICK data \in SUBSET Unlabelled(r) :
         data = Unlabelled(r) \ F /\ dset' = (dset \ Of(r, dset)) \cup data
  BY <1>2
<1>4. /\ InProv(<<"anomalies", c>>)' = InProv(<<"anomalies", c>>)
      /\ InStats(<<"n_anomaly", c>>)' = InStats(<<"n_anomaly", c>>)
      /\ InStats(<<"profile", c>>)' = InStats(<<"profile", c>>)
  BY <1>1 DEF InProv, InStats, prov, psdata
<1>5. \A d \in Unlabelled(r) : RankOf[d] = r /\ label[d] = 0 /\ d \in exec
  BY DEF Unlabelled, Of
<1>6. label'[c] = IF c \in F THEN 1 ELSE label[c]
  BY <1>2
<1>7. CASE RankOf[c] # r
  <2>1. c \notin F /\ c \notin data
    BY <1>5, <1>7
  <2>2. pc'[RankOf[c]] = pc[RankOf[c]]
    BY <1>1, <1>7, TypesAre
  <2>3. Cleared(c)' <=> Cleared(c)
    BY <1>1 DEF Cleared, prov, psdata
  <2>4. pc'[RankOf[c]] \in {"ready", "run", "returned", "exited"} => Cleared(c)'
    BY <1>0, <2>2, <2>3 DEF ReportRight
  <2>5. c \in dset' => c \in dset
    BY <1>3, <2>1
  <2> QED
    BY <1>0, <1>1, <1>4, <1>6, <2>1, <2>2, <2>4, <2>5, ReportKept
<1>8. CASE RankOf[c] = r
  <2>1. pc'[r] = "answer"
    BY <1>1, TypesAre
  <2>2. /\ InProv(<<"anomalies", c>>) <= 1
        /\ label[c] # -1 => InProv(<<"anomalies", c>>) = 0
        /\ label[c] = -1 /\ c \notin Short /\ params[r].start = -1 /\ params[r].stop = -1 =>
             InProv(<<"anomalies", c>>) = 1
        /\ InStats(<<"n_anomaly", c>>) = IF label[c] = -1 /\ params[r].ps THEN 1 ELSE 0
        /\ label[c] # 0 /\ params[r].ps => InStats(<<"profile", c>>) > 0
    BY <1>0, <1>1, <1>8 DEF ReportRight
  <2>3. c \in dset' => c \in data
    BY <1>3, <1>8 DEF Of
  <2>4. c \in data => c \in exec /\ label'[c] = 0
    BY <1>3, <1>5, <1>6
  <2>5. CASE c \in F
    BY <1>1, <1>2, <1>4, <1>5, <1>6, <1>8, <2>1, <2>2, <2>3, <2>4, <2>5 DEF ReportRight
  <2>6. CASE c \notin F
    BY <1>1, <1>4, <1>6, <1>8, <2>1, <2>2, <2>3, <2>4, <2>6 DEF ReportRight
  <2> QED
    BY <2>5, <2>6
<1> QED
  BY <1>7, <1>8

(* What goes to the buffers for an outlier, and for nothing else.           *)
LEMMA RecordsOutliers ==
  ASSUME NEW r, NEW res, NEW e \in Stored(r, res), NEW c \in Calls
  PROVE  <<"anomalies", c>> \in e.items <=> (Recording(r) /\ c \in res.outlier \ Short)
<1>1. CASE ~Recording(r)
  BY <1>1, StoredIs
<1>2. CASE Recording(r)
  <2>1. PICK new, late, asking, now : Recorded(r, res, e, new, late, asking, now)
    BY <1>2, StoredIs
  <2>2. e.items = ({"anomalies"} \X (res.outlier \ Short)) \cup ({"normalexecs"} \X (late \cup now))
                    \cup ({"metadata"} \X Of(r, newMeta))
    BY <2>1 DEF Recorded
  <2>3. <<"anomalies", c>> \in e.items <=> c \in res.outlier \ Short
    BY <2>2
  <2> QED
    BY <1>2, <2>3
<1> QED
  BY <1>1, <1>2

LEMMA CountsOutliers ==
  ASSUME NEW r, NEW res, NEW c \in Calls
  PROVE  /\ <<"n_anomaly", c>> \in Statistics(r, res) <=> (params[r].ps /\ c \in res.outlier)
         /\ <<"profile", c>> \in Statistics(r, res) <=> (params[r].ps /\ c \in Of(r, exec))
BY DEF Statistics, Profile, Anomalies, CounterStatistics

LEMMA AnalyseReports ==
  ASSUME TypeOK, TypeOK', ReportInv, NEW r \in Ranks, Analyse(r)
  PROVE  ReportInv'
<1> SUFFICES ASSUME NEW c \in Calls PROVE ReportRight(c)'
  BY DEF ReportInv
<1>0. ReportRight(c)
  BY DEF ReportInv
<1>1. PICK m, res, e : AnalysisBy(r, m, res, e)
  BY AnalysisIs
<1>2. /\ pc[r] = "answer" /\ exec' = exec \ {d \in Of(r, exec) : label'[d] # 0} /\ dset' = dset \ Of(r, dset)
      /\ UNCHANGED params /\ label' = Labels(r, m, res) /\ res \in Results(r, m) /\ e \in Stored(r, res)
      /\ pc'[r] \in {"read", "end"} /\ \A q \in Ranks : q # r => pc'[q] = pc[q]
  BY <1>1, AnalyseIs DEF AnalysisBy
<1>3. PICK b, s : b = With(provBuf, e.items) /\ s = With(statBuf, Statistics(r, res))
  OBVIOUS
<1>4. b \in [ProvItem -> 0 .. Many] /\ s \in [StatItem -> 0 .. Many]
  BY <1>3, TypesAre, WithIs
<1>5. /\ \E sent \in BOOLEAN : Moved(r, sent, b, db, provBuf', db')
      /\ \E sent \in BOOLEAN : Moved(r, sent, s, stats, statBuf', stats')
  BY <1>1, <1>3 DEF AnalysisBy
<1>6. /\ b[<<"anomalies", c>>] + db[<<"anomalies", c>>] <= 1 =>
           InProv(<<"anomalies", c>>)' = b[<<"anomalies", c>>] + db[<<"anomalies", c>>]
      /\ s[<<"n_anomaly", c>>] + stats[<<"n_anomaly", c>>] <= 1 =>
           InStats(<<"n_anomaly", c>>)' = s[<<"n_anomaly", c>>] + stats[<<"n_anomaly", c>>]
      /\ (InStats(<<"profile", c>>)' > 0) <=> (s[<<"profile", c>>] + stats[<<"profile", c>>] > 0)
      /\ RankOf[c] # r =>
           /\ provBuf'[<<"anomalies", c>>] = b[<<"anomalies", c>>]
           /\ statBuf'[<<"n_anomaly", c>>] = s[<<"n_anomaly", c>>]
           /\ statBuf'[<<"profile", c>>] = s[<<"profile", c>>]
  BY <1>4, <1>5, SentReports
<1>7. /\ <<"anomalies", c>> \in e.items <=> (Recording(r) /\ c \in res.outlier \ Short)
      /\ <<"n_anomaly", c>> \in Statistics(r, res) <=> (params[r].ps /\ c \in res.outlier)
      /\ <<"profile", c>> \in Statistics(r, res) <=> (params[r].ps /\ c \in Of(r, exec))
  BY <1>2, RecordsOutliers, CountsOutliers
<1>8. /\ <<"anomalies", c>> \notin e.items => b[<<"anomalies", c>>] = provBuf[<<"anomalies", c>>]
      /\ <<"anomalies", c>> \in e.items /\ provBuf[<<"anomalies", c>>] = 0 => b[<<"anomalies", c>>] = 1
  <2>1. /\ provBuf \in [ProvItem -> 0 .. Many] /\ db \in [ProvItem -> 0 .. Many]
        /\ <<"anomalies", c>> \in ProvItem
    BY TypesAre, ItemIs
  <2>2. ASSUME NEW i \in ProvItem
        PROVE  /\ i \notin e.items => b[i] = provBuf[i]
               /\ i \in e.items /\ provBuf[i] = 0 => b[i] = 1
    BY <1>3, <2>1, WithKeeps
  <2> QED
    BY <2>1, <2>2
<1>9. /\ <<"n_anomaly", c>> \notin Statistics(r, res) => s[<<"n_anomaly", c>>] = statBuf[<<"n_anomaly", c>>]
      /\ <<"n_anomaly", c>> \in Statistics(r, res) /\ statBuf[<<"n_anomaly", c>>] = 0 => s[<<"n_anomaly", c>>] = 1
      /\ <<"profile", c>> \notin Statistics(r, res) => s[<<"profile", c>>] = statBuf[<<"profile", c>>]
      /\ (s[<<"profile", c>>] + stats[<<"profile", c>>] > 0) <=>
           (InStats(<<"profile", c>>) > 0 \/ <<"profile", c>> \in Statistics(r, res))
  BY <1>3, TypesAre, WithKeeps, StatItemIs DEF InStats
<1>10. /\ res.outlier \subseteq Evaluated(r, m) /\ Evaluated(r, m) \subseteq Of(r, dset)
       /\ label'[c] = IF c \in res.outlier THEN -1 ELSE IF c \in Evaluated(r, m) THEN 1 ELSE label[c]
  BY <1>2, ResultsAre DEF Labels
<1>11. CASE RankOf[c] # r
  <2>1. c \notin res.outlier /\ c \notin Evaluated(r, m) /\ c \notin Of(r, exec)
    BY <1>10, <1>11 DEF Of
  <2>2. label'[c] = label[c] /\ (c \in exec => c \in exec') /\ (c \in dset' => c \in dset)
    BY <1>2, <1>10, <2>1
  <2>3. /\ b[<<"anomalies", c>>] = provBuf[<<"anomalies", c>>]
        /\ s[<<"n_anomaly", c>>] = statBuf[<<"n_anomaly", c>>]
        /\ s[<<"profile", c>>] = statBuf[<<"profile", c>>]
    BY <1>7, <1>8, <1>9, <2>1
  <2>4. InProv(<<"anomalies", c>>) <= 1 /\ InStats(<<"n_anomaly", c>>) <= 1
    BY <1>0 DEF ReportRight
  <2>5. /\ InProv(<<"anomalies", c>>)' = InProv(<<"anomalies", c>>)
        /\ InStats(<<"n_anomaly", c>>)' = InStats(<<"n_anomaly", c>>)
        /\ (InStats(<<"profile", c>>)' > 0) <=> (InStats(<<"profile", c>>) > 0)
    BY <1>6, <2>3, <2>4 DEF InProv, InStats
  <2>6. pc'[RankOf[c]] = pc[RankOf[c]]
    BY <1>2, <1>11, RankIs
  <2>7. pc'[RankOf[c]] \in {"ready", "run", "returned", "exited"} => Cleared(c)'
    <3>1. pc'[RankOf[c]] \in {"ready", "run", "returned", "exited"} => Cleared(c)
      BY <1>0, <2>6 DEF ReportRight
    <3> QED
      BY <1>2, <1>6, <1>11, <2>3, <3>1, ClearedKept
  <2> QED
    BY <1>0, <1>2, <2>2, <2>5, <2>6, <2>7, ReportKept
<1>12. CASE RankOf[c] = r
  <2>1. /\ InProv(<<"anomalies", c>>) <= 1
        /\ label[c] # -1 => InProv(<<"anomalies", c>>) = 0
        /\ label[c] = -1 /\ c \notin Short /\ params[r].start = -1 /\ params[r].stop = -1 =>
             InProv(<<"anomalies", c>>) = 1
        /\ InStats(<<"n_anomaly", c>>) = IF label[c] = -1 /\ params[r].ps THEN 1 ELSE 0
        /\ label[c] # 0 /\ params[r].ps => InStats(<<"profile", c>>) > 0 \/ c \in exec
        /\ c \in dset => label[c] = 0 /\ c \in exec
    BY <1>0, <1>2, <1>12 DEF ReportRight
  <2>2. c \in Evaluated(r, m) => label[c] = 0 /\ c \in exec
    BY <1>10, <2>1 DEF Of
  <2>3. c \notin dset'
    BY <1>2, <1>12 DEF Of
  <2>4. (params[r].start = -1 /\ params[r].stop = -1) => Recording(r)
    BY DEF Recording
  <2>5. label'[c] # 0 /\ params[r].ps => InStats(<<"profile", c>>)' > 0
    <3>1. c \in exec => c \in Of(r, exec)
      BY <1>12 DEF Of
    <3> QED
      BY <1>6, <1>7, <1>9, <1>10, <2>1, <2>2, <3>1
  <2>6. /\ InProv(<<"anomalies", c>>)' <= 1
        /\ label'[c] # -1 => InProv(<<"anomalies", c>>)' = 0
        /\ label'[c] = -1 /\ c \notin Short /\ params[r].start = -1 /\ params[r].stop = -1 =>
             InProv(<<"anomalies", c>>)' = 1
    <3>1. CASE <<"anomalies", c>> \in e.items
      <4>1. c \in res.outlier /\ label[c] = 0
        BY <1>7, <1>10, <2>2, <3>1
      <4>2. InProv(<<"anomalies", c>>) = 0
        BY <2>1, <4>1
      <4>3. provBuf[<<"anomalies", c>>] = 0 /\ db[<<"anomalies", c>>] = 0
        <5>1. PICK x \in 0 .. Many, y \in 0 .. Many : x = provBuf[<<"anomalies", c>>] /\ y = db[<<"anomalies", c>>]
          BY ReportTypes
        <5>2. x + y = 0
          BY <4>2, <5>1 DEF InProv
        <5>3. x = 0 /\ y = 0
          BY <5>2
        <5> QED
          BY <5>1, <5>3
      <4>4. InProv(<<"anomalies", c>>)' = 1
        BY <1>6, <1>8, <3>1, <4>3
      <4> QED
        BY <1>10, <4>1, <4>4
    <3>2. CASE <<"anomalies", c>> \notin e.items
      <4>1. InProv(<<"anomalies", c>>)' = InProv(<<"anomalies", c>>)
        BY <1>6, <1>8, <2>1, <3>2 DEF InProv
      <4>2. label'[c] # -1 => label[c] # -1
        BY <1>10, <2>2
      <4>3. label'[c] = -1 /\ c \notin Short /\ params[r].start = -1 /\ params[r].stop = -1 => label[c] = -1
        BY <1>7, <1>10, <2>4, <3>2
      <4> QED
        BY <2>1, <4>1, <4>2, <4>3
    <3> QED
      BY <3>1, <3>2
  <2>7. InStats(<<"n_anomaly", c>>)' = IF label'[c] = -1 /\ params[r].ps THEN 1 ELSE 0
    <3>1. CASE <<"n_anomaly", c>> \in Statistics(r, res)
      <4>1. c \in res.outlier /\ label[c] = 0 /\ params[r].ps
        BY <1>7, <1>10, <2>2, <3>1
      <4>2. InStats(<<"n_anomaly", c>>) = 0
        BY <2>1, <4>1
      <4>3. statBuf[<<"n_anomaly", c>>] = 0 /\ stats[<<"n_anomaly", c>>] = 0
        <5>1. PICK x \in 0 .. Many, y \in 0 .. Many : x = statBuf[<<"n_anomaly", c>>] /\ y = stats[<<"n_anomaly", c>>]
          BY ReportTypes
        <5>2. x + y = 0
          BY <4>2, <5>1 DEF InStats
        <5>3. x = 0 /\ y = 0
          BY <5>2
        <5> QED
          BY <5>1, <5>3
      <4>4. InStats(<<"n_anomaly", c>>)' = 1
        BY <1>6, <1>9, <3>1, <4>3
      <4> QED
        BY <1>10, <4>1, <4>4
    <3>2. CASE <<"n_anomaly", c>> \notin Statistics(r, res)
      <4>1. InStats(<<"n_anomaly", c>>)' = InStats(<<"n_anomaly", c>>)
        BY <1>6, <1>9, <2>1, <3>2 DEF InStats
      <4>2. params[r].ps => (label'[c] = -1 <=> label[c] = -1)
        BY <1>7, <1>10, <2>2, <3>2
      <4> QED
        BY <2>1, <4>1, <4>2
    <3> QED
      BY <3>1, <3>2
  <2> QED
    BY <1>2, <1>12, <2>3, <2>5, <2>6, <2>7 DEF ReportRight
<1> QED
  BY <1>11, <1>12
LEMMA NextReports ==
  ASSUME TypeOK, TypeOK', ReportInv, [Next]_vars
  PROVE  ReportInv'
<1> USE DEF vars, prov, input, frame, driver, params_, psdata
<1>0. pc \in [Ranks -> PCs]
  BY TypesAre
<1>1. ASSUME UNCHANGED <<params, label, dset, provBuf, db, statBuf, stats>>, exec \subseteq exec',
             \A q \in Ranks :
               /\ \/ pc'[q] = pc[q]
                  \/ pc'[q] \in {"failed", "aborted"}
                  \/ pc[q] \notin {"answer", "failed", "aborted"}
               /\ pc'[q] \in {"ready", "run", "returned", "exited"} =>
                    pc[q] \in {"ready", "run", "returned", "exited"}
      PROVE  ReportInv'
  <2> SUFFICES ASSUME NEW c \in Calls PROVE ReportRight(c)'
    BY DEF ReportInv
  <2>0. ReportRight(c)
    BY DEF ReportInv
  <2>1. /\ InProv(<<"anomalies", c>>)' = InProv(<<"anomalies", c>>)
        /\ InStats(<<"n_anomaly", c>>)' = InStats(<<"n_anomaly", c>>)
        /\ InStats(<<"profile", c>>)' = InStats(<<"profile", c>>)
    BY <1>1 DEF InProv, InStats
  <2>2. pc'[RankOf[c]] \in {"ready", "run", "returned", "exited"} => Cleared(c)'
    BY <1>1, <2>0, RankIs DEF ReportRight, Cleared
  <2>3. \/ pc'[RankOf[c]] = pc[RankOf[c]]
        \/ pc'[RankOf[c]] \in {"failed", "aborted"}
        \/ pc[RankOf[c]] \notin {"answer", "failed", "aborted"}
    BY <1>1, RankIs
  <2>4. label'[c] = label[c] /\ (c \in dset' => c \in dset) /\ (c \in exec => c \in exec') /\ UNCHANGED params
    BY <1>1
  <2> QED
    BY <2>0, <2>1, <2>2, <2>3, <2>4, ReportKept
<1>2. CASE Publish \/ UNCHANGED vars
  BY <1>1, <1>2 DEF Publish
<1>3. CASE Program
  BY <1>0, <1>1, <1>3 DEF Program, StartRun, Leave, Finalized
<1>4. ASSUME NEW r \in Ranks, Run(r) \/ Fail(r) PROVE ReportInv'
  <2>1. /\ UNCHANGED <<params, label, dset, provBuf, db, statBuf, stats, exec>>
        /\ \A q \in Ranks : q # r => pc'[q] = pc[q]
        /\ (pc[r] = "run" /\ pc'[r] \in {"returned", "read"}) \/ pc'[r] = "failed"
    BY <1>0, <1>4 DEF Run, Fail
  <2> QED
    BY <1>1, <2>1
<1>5. ASSUME NEW r \in Ranks, ReadStep(r) PROVE ReportInv'
  <2>1. UNCHANGED <<params, label, dset, provBuf, db, statBuf, stats>> /\ exec \subseteq exec'
    BY <1>5 DEF ReadStep, Parse, ParserDone
  <2>2. /\ \A q \in Ranks : q # r => pc'[q] = pc[q]
        /\ pc[r] = "read" /\ pc'[r] \in {"end", "outlier", "skip"}
    BY <1>0, <1>5 DEF ReadStep
  <2> QED
    BY <1>1, <2>1, <2>2
<1>6. ASSUME NEW r \in Ranks, Skip(r) \/ End(r) PROVE ReportInv'
  <2>1. /\ \E sent \in BOOLEAN : Moved(r, sent, provBuf, db, provBuf', db')
        /\ \E sent \in BOOLEAN : Moved(r, sent, statBuf, stats, statBuf', stats')
        /\ UNCHANGED <<params, label, dset, exec>> /\ pc[r] \in {"skip", "end"}
        /\ \A q \in Ranks : q # r => pc'[q] = pc[q]
        /\ pc'[r] \in {"read", "end", "returned"}
        /\ pc'[r] = "returned" =>
             /\ Moved(r, TRUE, provBuf, db, provBuf', db')
             /\ params[r].ps => Moved(r, TRUE, statBuf, stats, statBuf', stats')
    <3>1. CASE Skip(r)
      <4>1. EndFrame(r, provBuf, statBuf) /\ pc[r] = "skip" /\ UNCHANGED <<label, dset, exec>>
        BY <3>1 DEF Skip
      <4>2. /\ \E sent \in BOOLEAN : Moved(r, sent, provBuf, db, provBuf', db')
            /\ \E sent \in BOOLEAN : Moved(r, sent, statBuf, stats, statBuf', stats')
            /\ pc'[r] \in {"read", "end"} /\ (\A q \in Ranks : q # r => pc'[q] = pc[q]) /\ UNCHANGED params
        BY <4>1, TypesAre, EndFrameIs
      <4> QED
        BY <4>1, <4>2
    <3>2. CASE End(r)
      <4>1. /\ Moved(r, TRUE, provBuf, db, provBuf', db')
            /\ \E sent \in BOOLEAN : Moved(r, sent, statBuf, stats, statBuf', stats')
            /\ params[r].ps => Moved(r, TRUE, statBuf, stats, statBuf', stats')
            /\ pc' = [pc EXCEPT ![r] = "returned"] /\ pc[r] = "end"
            /\ UNCHANGED <<params, label, dset, exec>>
        BY <3>2, EndIs
      <4>2. pc'[r] = "returned" /\ \A q \in Ranks : q # r => pc'[q] = pc[q]
        BY <1>0, <4>1
      <4> QED
        BY <4>1, <4>2
    <3> QED
      BY <1>6, <3>1, <3>2
  <2> SUFFICES ASSUME NEW c \in Calls PROVE ReportRight(c)'
    BY DEF ReportInv
  <2>2. ReportRight(c)
    BY DEF ReportInv
  <2>3. /\ provBuf[<<"anomalies", c>>] + db[<<"anomalies", c>>] <= 1
        /\ statBuf[<<"n_anomaly", c>>] + stats[<<"n_anomaly", c>>] <= 1
    BY <2>2 DEF ReportRight, InProv, InStats
  <2>4. provBuf \in [ProvItem -> 0 .. Many] /\ statBuf \in [StatItem -> 0 .. Many]
    BY TypesAre
  <2>5. /\ InProv(<<"anomalies", c>>)' = InProv(<<"anomalies", c>>)
        /\ InStats(<<"n_anomaly", c>>)' = InStats(<<"n_anomaly", c>>)
        /\ (InStats(<<"profile", c>>)' > 0) <=> (InStats(<<"profile", c>>) > 0)
        /\ RankOf[c] # r =>
             /\ provBuf'[<<"anomalies", c>>] = provBuf[<<"anomalies", c>>]
             /\ statBuf'[<<"n_anomaly", c>>] = statBuf[<<"n_anomaly", c>>]
             /\ statBuf'[<<"profile", c>>] = statBuf[<<"profile", c>>]
    BY <2>1, <2>3, <2>4, SentReports DEF InProv, InStats
  <2>6. pc'[RankOf[c]] \in {"ready", "run", "returned", "exited"} => Cleared(c)'
    <3>1. CASE RankOf[c] # r
      BY <2>1, <2>2, <2>5, <3>1, RankIs, ClearedKept DEF ReportRight
    <3>2. CASE RankOf[c] = r
      <4>1. SUFFICES ASSUME pc'[r] = "returned" PROVE Cleared(c)'
        BY <2>1, <3>2
      <4>2. <<"anomalies", c>>[2] = c /\ <<"n_anomaly", c>>[2] = c /\ <<"profile", c>>[2] = c
        OBVIOUS
      <4>3. provBuf'[<<"anomalies", c>>] = 0
        BY <2>1, <2>4, <3>2, <4>1, <4>2, ItemIs DEF Moved
      <4>4. params[r].ps => statBuf'[<<"n_anomaly", c>>] = 0 /\ statBuf'[<<"profile", c>>] = 0
        BY <2>1, <2>4, <3>2, <4>1, <4>2, StatItemIs DEF Moved
      <4> QED
        BY <2>1, <3>2, <4>3, <4>4 DEF Cleared
    <3> QED
      BY <3>1, <3>2
  <2>7. pc'[RankOf[c]] = pc[RankOf[c]] \/ pc[RankOf[c]] \notin {"answer", "failed", "aborted"}
    BY <2>1, RankIs
  <2>8. label'[c] = label[c] /\ (c \in dset' => c \in dset) /\ (c \in exec => c \in exec') /\ UNCHANGED params
    BY <2>1
  <2> QED
    BY <2>2, <2>5, <2>6, <2>7, <2>8, ReportKept
<1>7. ASSUME NEW r \in Ranks, Collect(r) \/ Analyse(r) PROVE ReportInv'
  BY <1>7, CollectReports, AnalyseReports
<1> QED
  BY <1>2, <1>3, <1>4, <1>5, <1>6, <1>7 DEF Next, Frame

(* When run has returned, each outlier is once in the database and once in  *)
(* the server's counts, and each labelled call is in a profile, for all       *)
(* periods of sending, delays of labelling and interleavings of the ranks.    *)
THEOREM OutliersAreReported == Spec => []OutliersReportedOnce
<1>1. Init => TypeOK /\ ReportInv
  BY InitTypes, InitReports
<1>2. TypeOK /\ ReportInv /\ [Next]_vars => TypeOK' /\ ReportInv'
  BY NextTypes, NextReports
<1>3. TypeOK /\ ReportInv => OutliersReportedOnce
  BY ReportRightGives DEF ReportInv, OutliersReportedOnce
<1> QED
  BY <1>1, <1>2, <1>3, PTL DEF Spec
=============================================================================
