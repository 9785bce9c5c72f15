------------------------------- MODULE ADDriver -------------------------------
(***************************************************************************)
(* The program of the AD ranks (driver.cpp): its barriers, the frame loop   *)
(* (ChimbukoBase::run and runFrame with the performance-analysis module's   *)
(* readStep), the outlier detection run in it and the parameter server at   *)
(* the other end of its synchronization.                                    *)
(*                                                                          *)
(* A frame reads an IO step, offers every call that has no label to the     *)
(* outlier algorithm, which adds the values to the parameters it has not    *)
(* sent yet, exchanges those for the global model and labels what the model *)
(* knows enough about.  Provenance and statistics of the labelled calls are *)
(* buffered and sent every few steps, by force when the run returns.        *)
(*                                                                          *)
(* Abstracted: a value is the call it belongs to, parameters count how      *)
(* often each call's value went into them, and which values are outliers is *)
(* a choice.  All counts saturate at Many, which no test of the code tells  *)
(* from more.  An Item belongs to one rank, so that what the ranks hold is  *)
(* kept in one variable for all of them.                                    *)
(***************************************************************************)
EXTENDS Integers, FiniteSets, FiniteSetsExt, Functions

CONSTANTS
  Calls, Metadata, Samples,  \* what the streams contain: completed calls, metadata, counter samples
  RankOf,                    \* RankOf[x]: the rank in whose stream x is
  Func, Thread,              \* Func[c], Thread[c]: the function's name and the thread of call c
  Short,                     \* calls shorter than prov_min_anom_time
  Configs                    \* choices of the ranks' parameters, of what the streams contain and
                             \* of whether the program was built with MPI

Ranks == {RankOf[x] : x \in Calls}
Many == 2
Of(r, S) == {x \in S : RankOf[x] = r}
Site(c) == <<RankOf[c], Thread[c], Func[c]>>
Sites(S) == {Site(c) : c \in S}

ASSUME ADDriverAssumption ==
  /\ Ranks \subseteq Nat
  /\ IsFiniteSet(Calls)
  /\ \A cf \in Configs :
       /\ cf.stream \subseteq Calls \cup Metadata \cup Samples
       /\ \A r \in Ranks : LET p == cf.params[r] IN
            /\ {p.analysis, p.prov, p.stats, p.sync, p.min, p.period} \subseteq Nat \ {0}
            /\ {p.start, p.stop} \subseteq Nat \cup {-1}
       /\ cf.mpi \in BOOLEAN

\* What goes to the provenance buffer and to the statistics buffer.
ProvItem == ({"anomalies", "normalexecs"} \X Calls) \cup ({"metadata"} \X Metadata)
ProfileItem == {"profile"} \X Calls
AnomalyItem == {"n_anomaly"} \X Calls
CounterItem == {"counter"} \X Samples
StatItem == ProfileItem \cup AnomalyItem \cup CounterItem

VARIABLES
  params,     \* m_base_params of every rank
  mpi,        \* the ranks are processes of one MPI program
  pc,         \* where a rank is in the program
  step,       \* m_step, counted up to a bound and then modulo the frequencies
  frames,     \* frames of run
  status,     \* ADParser::getStatus: the stream has not ended or timed out
  pending,    \* what the streams have not delivered
  newMeta,    \* ADParser::m_new_metadata
  counters,   \* ADCounter::m_counters
  exec,       \* the calls in ADEvent::m_execDataMap
  label,      \* ExecData_t::m_label: 0, 1 normal, -1 outlier
  seen,       \* m_func_seen, the functions whose first call on a thread was skipped
  dset,       \* the data sets of the ADExecDataInterface of this frame
  local,      \* m_local_param
  model,      \* m_param
  syncs,      \* m_sync_call_count
  idxmap,     \* ADglobalFunctionIndexMap::m_idxmap
  fmap,       \* PSglobalFunctionIndexMap::m_fmap, m_idx is its size
  received,   \* the server's parameters of all workers together
  published,  \* the server's global model
  normals,    \* ADNormalEventProvenance::m_normal_events
  wanted,     \* ADNormalEventProvenance::m_outstanding_normal_events
  provBuf,    \* m_provdata_buf
  statBuf,    \* m_funcstats_buf, m_countstats_buf, m_anom_metrics_buf
  db,         \* what was given to the provenance database client
  stats,      \* what was sent to the parameter server
  offered     \* history: how often a call's value was added to m_local_param

driver == <<params, mpi, pc, step, frames>>
input  == <<status, pending, newMeta, counters, exec, seen, idxmap, fmap>>
frame  == <<label, dset>>
params_ == <<local, model, syncs, received, published, offered>>
prov   == <<normals, wanted, provBuf, db>>
psdata == <<statBuf, stats>>
vars == <<driver, input, frame, params_, prov, psdata>>

-----------------------------------------------------------------------------
(* Tallies: how often each of a set of things is there. *)

Nothing(S) == [x \in S |-> 0]
Sat(n) == IF n > Many THEN Many ELSE n
Plus(a, b) == [x \in DOMAIN a |-> Sat(a[x] + b[x])]
With(a, S) == [x \in DOMAIN a |-> IF x \in S THEN Sat(a[x] + 1) ELSE a[x]]
Only(r, a) == [x \in DOMAIN a |-> IF RankOf[x] = r THEN a[x] ELSE 0]
Except(r, a) == [x \in DOMAIN a |-> IF RankOf[x] = r THEN 0 ELSE a[x]]
ItemsOf(r, a) == [i \in DOMAIN a |-> IF RankOf[i[2]] = r THEN a[i] ELSE 0]
ItemsExcept(r, a) == [i \in DOMAIN a |-> IF RankOf[i[2]] = r THEN 0 ELSE a[i]]

-----------------------------------------------------------------------------
(* Which steps do what *)

Due(n, r, freq) == (n + r) % freq = 0
DoAnalysis(r) == step[r] % params[r].analysis = 0
NextStep(r) == LET p == params[r] IN
  IF step[r] = Max({p.start, p.stop}) + p.period THEN step[r] + 1 - p.period ELSE step[r] + 1
NextCount(r) == IF syncs[r] = params[r].period THEN 1 ELSE syncs[r] + 1
DoSync(r) == syncs[r] = 0 \/ Due(syncs[r], r, params[r].sync)
Recording(r) == LET p == params[r] IN
  (p.start = -1 \/ step[r] >= p.start) /\ (p.stop = -1 \/ step[r] <= p.stop)

-----------------------------------------------------------------------------
(* The index of a function in the models: the server hands out one per name, *)
(* a rank asks for those it does not know; without a server the rank's own.  *)

Lookup(map, names) ==
  CHOOSE m \in [DOMAIN map \cup names -> 0 .. Cardinality(DOMAIN map \cup names) - 1] :
    /\ \A f \in DOMAIN map : m[f] = map[f]
    /\ \A f, g \in DOMAIN m : m[f] = m[g] => f = g

Key(r, f) == IF params[r].ps THEN idxmap[r][f] ELSE f
Count(r, m, f) ==
  LET same(c) == LET s == RankOf[c] IN 
                   IF params[s].ps THEN Func[c] \in DOMAIN idxmap[s] /\ Key(s, Func[c]) = Key(r, f)
                                   ELSE s = r /\ Func[c] = f
  IN  SumFunctionOnSet(m, {c \in Calls : same(c)})

-----------------------------------------------------------------------------
(* The program *)

\* The pre-run barrier: the ranks wait for each other.  (Without MPI they do not,
\* but each may be delayed as long.)
StartRun ==
  /\ \A r \in Ranks : pc[r] = "ready"
  /\ pc' = [r \in Ranks |-> "run"]
  /\ UNCHANGED <<params, mpi, step, frames, input, frame, params_, prov, psdata>>

\* run returns at once if no frame is allowed.
Run(r) ==
  /\ pc[r] = "run"
  /\ pc' = [pc EXCEPT ![r] = IF params[r].maxFrames = 0 THEN "returned" ELSE "read"]
  /\ UNCHANGED <<params, mpi, step, frames, input, frame, params_, prov, psdata>>

InRun == {"read", "outlier", "answer", "skip", "end"}

\* An exception in run is caught in main, which goes on without the barrier;
\* what was buffered is not sent.
Fail(r) ==
  /\ pc[r] \in InRun /\ params[r].mayFail
  /\ pc' = [pc EXCEPT ![r] = "failed"]
  /\ UNCHANGED <<params, mpi, step, frames, input, frame, params_, prov, psdata>>

\* finalize and finalizeBase: the components are deleted, the last made first.
Finalized(p) == CASE p = "returned" -> "exited" [] p = "failed" -> "aborted" [] OTHER -> p

\* The post-run barrier and the reduction of the report, for which all must have
\* returned, and the end of the program, which MPI_Finalize makes collective.
Leave ==
  /\ \/ ~mpi /\ \E r \in Ranks : pc[r] \in {"returned", "failed"}
     \/ \A r \in Ranks : pc[r] = "returned"
     \/ \A r \in Ranks : pc[r] = "failed"
  /\ pc' = [r \in Ranks |-> Finalized(pc[r])]
  /\ UNCHANGED <<params, mpi, step, frames, input, frame, params_, prov, psdata>>

\* A rank asks the server for the indices of the functions F that it does not
\* know, and remembers them.
LookUp(r, F) ==
  IF ~params[r].ps THEN UNCHANGED <<fmap, idxmap>>
  ELSE \E names \in {F \ DOMAIN idxmap[r]} : \E map \in {Lookup(fmap, names)} :
         /\ fmap' = map
         /\ idxmap' = [idxmap EXCEPT ![r] = [f \in DOMAIN @ \cup names |-> map[f]]]

\* readStep: the IO step with the items D, or none once the parser has given up.
\* A frame without a completed call ends the run.
Parse(r, D) ==
  /\ pending' = pending \ D
  /\ newMeta' = (newMeta \ Of(r, newMeta)) \cup (D \cap Metadata)
  /\ counters' = counters \cup (D \cap Samples)
  /\ exec' = exec \cup (D \cap Calls)
  /\ LookUp(r, {Func[c] : c \in D \cap Calls})
  /\ UNCHANGED status

ParserDone(r) ==
  /\ status' = [status EXCEPT ![r] = FALSE]
  /\ UNCHANGED <<pending, newMeta, counters, exec, fmap, idxmap>>

ReadStep(r) ==
  /\ pc[r] = "read"
  /\ \/ status[r] /\ \E D \in SUBSET Of(r, pending) : Parse(r, D)
     \/ ParserDone(r)
  /\ pc' = [pc EXCEPT ![r] = IF Of(r, exec') = {} THEN "end"
                             ELSE IF DoAnalysis(r) THEN "outlier" ELSE "skip"]
  /\ UNCHANGED <<params, mpi, step, frames, seen, frame, params_, prov, psdata>>

-----------------------------------------------------------------------------
(* ADOutlier::run *)

\* Mutant: a call is offered in one frame only.
Unlabelled_Once(r) == {c \in Of(r, exec) : label[c] = 0 /\ offered[c] = 0}

Unlabelled(r) == {c \in Of(r, exec) : label[c] = 0}

\* The calls labelled as normal unseen: the first of each function on each thread
\* if JIT compilation is taken into account (m_ignore_first_func_call).
FirstCalls(r, U) ==
  IF ~params[r].jit THEN {{}}
  ELSE LET new == Sites(U) \ seen IN
       {F \in SUBSET U : Sites(F) = new /\ Cardinality(F) = Cardinality(new)}

\* The values that no model contains yet are added to the local parameters,
\* with those of all calls offered before and not labelled; these are sent if
\* this is a frame to synchronize in.
Collect(r) ==
  /\ pc[r] = "outlier"
  /\ \E F \in FirstCalls(r, Unlabelled(r)) :
       LET data == Unlabelled(r) \ F
           sum == With(local, data) IN
       /\ label' = [c \in Calls |-> IF c \in F THEN 1 ELSE label[c]]
       /\ seen' = seen \cup Sites(F)
       /\ dset' = (dset \ Of(r, dset)) \cup data
       /\ local' = sum
       /\ offered' = With(offered, data)
       /\ received' = IF params[r].ps /\ DoSync(r) THEN Plus(received, Only(r, sum)) ELSE received
  /\ pc' = [pc EXCEPT ![r] = "answer"]
  /\ UNCHANGED <<params, mpi, step, frames, status, pending, newMeta, counters, exec,
                 idxmap, fmap, model, syncs, published, prov, psdata>>

\* The server's aggregator makes a new global model.
Publish ==
  /\ published # received
  /\ published' = received
  /\ UNCHANGED <<driver, input, frame, local, model, syncs, received, offered, prov, psdata>>

\* The rest of updateGlobalModel once the server has answered: its global model
\* replaces what the rank knew, without a server the local parameters are added.
NewModel(r) ==
  IF ~DoSync(r) THEN model[r]
  ELSE IF params[r].ps THEN published ELSE Plus(model[r], Only(r, local))

\* Mutant: the local parameters are not flushed when they were handed over.
NewLocal_Kept(r) == local

NewLocal(r) == IF DoSync(r) THEN Except(r, local) ELSE local

\* labelData: a function the model m knows too little of keeps its data for the
\* next frame.  recordDataSetLabels keeps one normal call of a data set.
Evaluated(r, m) == {c \in Of(r, dset) : Count(r, m, Func[c]) >= params[r].min}
OnePerFunction(S) ==
  {N \in SUBSET S : /\ \A c, d \in N : Func[c] = Func[d] => c = d
                    /\ \A c \in S : \E d \in N : Func[d] = Func[c]}
Results(r, m) ==
  UNION {{[outlier |-> out, normal |-> norm] : norm \in OnePerFunction(Evaluated(r, m) \ out)} :
           out \in SUBSET Evaluated(r, m)}
Labels(r, m, res) ==
  [c \in Calls |-> IF c \in res.outlier THEN -1 ELSE IF c \in Evaluated(r, m) THEN 1 ELSE label[c]]

-----------------------------------------------------------------------------
(* Provenance of the frame *)

\* getProvenanceEntries: new normal executions replace the stored ones, pay for
\* requests of earlier frames, and what is left is for the anomalies of this
\* frame, of which one per function asks for the normal execution of its thread.
Update(N, S) == {c \in N : Site(c) \notin Sites(S)} \cup S
Serving(N, W) == {c \in N : Site(c) \in W}

\* Mutant: an anomaly without a normal execution at hand is not noted.
ProvenanceEntries_Forgets(r, res) ==
  LET new  == Update(normals, res.normal)
      late == Serving(new, {w \in wanted : w[1] = r})
      anom == res.outlier \ Short IN
  {LET now == Serving(new \ late, Sites(asking)) IN
   [normals |-> new \ (late \cup now),
    wanted  |-> wanted \ Sites(late),
    items   |-> ({"anomalies"} \X anom) \cup ({"normalexecs"} \X (late \cup now))
                \cup ({"metadata"} \X Of(r, newMeta))] : asking \in OnePerFunction(anom)}

ProvenanceEntries(r, res) ==
  LET new  == Update(normals, res.normal)
      late == Serving(new, {w \in wanted : w[1] = r})
      anom == res.outlier \ Short IN
  {LET now == Serving(new \ late, Sites(asking)) IN
   [normals |-> new \ (late \cup now),
    wanted  |-> (wanted \ Sites(late)) \cup (Sites(asking) \ Sites(now)),
    items   |-> ({"anomalies"} \X anom) \cup ({"normalexecs"} \X (late \cup now))
                \cup ({"metadata"} \X Of(r, newMeta))] : asking \in OnePerFunction(anom)}

\* bufferStoreProvenanceData
Stored(r, res) ==
  IF Recording(r) THEN ProvenanceEntries(r, res)
  ELSE {[normals |-> normals, wanted |-> wanted, items |-> {}]}

\* gatherStatistics adds every call in m_execDataMap to its function's profile,
\* those that have no label yet again in the next frame.
Profile(r) == {"profile"} \X Of(r, exec)

\* gatherAnomalies and ADLocalAnomalyMetrics.
Anomalies(res) == {"n_anomaly"} \X res.outlier

\* ADLocalCounterStatistics: what was collected since the last analysis.
CounterStatistics(r) == {"counter"} \X Of(r, counters)

\* bufferStorePSdata
Statistics(r, res) ==
  IF ~params[r].ps THEN {} ELSE Profile(r) \cup Anomalies(res) \cup CounterStatistics(r)

-----------------------------------------------------------------------------
(* Sending *)

\* Mutant: the buffer is not cleared when it was sent.
SendProvenance_Kept(r, force, b) ==
  IF force \/ Due(step[r], r, params[r].prov)
  THEN [sent |-> Plus(db, ItemsOf(r, b)), buf |-> b]
  ELSE [sent |-> db, buf |-> b]

\* The buffer b is handed to the database client (and written to files, which
\* is left out).
SendProvenance(r, force, b) ==
  IF force \/ Due(step[r], r, params[r].prov)
  THEN [sent |-> Plus(db, ItemsOf(r, b)), buf |-> ItemsExcept(r, b)]
  ELSE [sent |-> db, buf |-> b]

\* ADcombinedPSdataArray::send
SentStats(r, b) == Plus(stats, ItemsOf(r, b))

SendPSdata(r, force, b) ==
  IF params[r].ps /\ (force \/ Due(step[r], r, params[r].stats))
  THEN [sent |-> SentStats(r, b), buf |-> ItemsExcept(r, b)]
  ELSE [sent |-> stats, buf |-> b]

\* The end of runFrame: the buffers pb and sb may be due, and run goes on or has all the frames it wants.
EndFrame(r, pb, sb) ==
  /\ \E p \in {SendProvenance(r, FALSE, pb)}, s \in {SendPSdata(r, FALSE, sb)} :
       /\ db' = p.sent /\ provBuf' = p.buf
       /\ stats' = s.sent /\ statBuf' = s.buf
  /\ step' = [step EXCEPT ![r] = NextStep(r)]
  /\ frames' = [frames EXCEPT ![r] = IF params[r].maxFrames > 0 THEN @ + 1 ELSE @]
  /\ pc' = [pc EXCEPT ![r] = IF frames[r] + 1 = params[r].maxFrames THEN "end" ELSE "read"]
  /\ UNCHANGED <<params, mpi>>

\* performEndStepAction: labelled calls are purged (see ADEvent), counters flushed.
EndStep(r) ==
  /\ exec' = exec \ {c \in Of(r, exec) : label'[c] # 0}
  /\ counters' = counters \ Of(r, counters)

\* The end of a frame with analysis: the model is synchronized, the data sets are
\* labelled, provenance and statistics gathered.
Analyse(r) ==
  /\ pc[r] = "answer"
  /\ \E m \in {NewModel(r)} : \E res \in Results(r, m) : \E e \in Stored(r, res) :
       /\ model' = [model EXCEPT ![r] = m]
       /\ label' = Labels(r, m, res)
       /\ normals' = e.normals /\ wanted' = e.wanted
       /\ EndFrame(r, With(provBuf, e.items), With(statBuf, Statistics(r, res)))
  /\ local' = NewLocal(r)
  /\ syncs' = [syncs EXCEPT ![r] = NextCount(r)]
  /\ EndStep(r)
  /\ dset' = dset \ Of(r, dset)
  /\ UNCHANGED <<status, pending, newMeta, seen, idxmap, fmap, received, published, offered>>

\* A frame without analysis.
Skip(r) ==
  /\ pc[r] = "skip"
  /\ EndFrame(r, provBuf, statBuf)
  /\ UNCHANGED <<input, frame, params_, normals, wanted>>

\* The end of run: everything is sent that is still buffered.
End(r) ==
  /\ pc[r] = "end"
  /\ \E p \in {SendProvenance(r, TRUE, provBuf)}, s \in {SendPSdata(r, TRUE, statBuf)} :
       /\ db' = p.sent /\ provBuf' = p.buf
       /\ stats' = s.sent /\ statBuf' = s.buf
  /\ pc' = [pc EXCEPT ![r] = "returned"]
  /\ UNCHANGED <<params, mpi, step, frames, input, frame, params_, normals, wanted>>

-----------------------------------------------------------------------------
\* initializeBase, with the components of the core
InitBase ==
  /\ \E cf \in Configs : params = cf.params /\ pending = cf.stream /\ mpi = cf.mpi
  /\ pc = [r \in Ranks |-> "ready"]
  /\ step = [r \in Ranks |-> 0] /\ frames = step /\ syncs = step
  /\ local = Nothing(Calls) /\ offered = Nothing(Calls)
  /\ model = [r \in Ranks |-> Nothing(Calls)]
  /\ provBuf = Nothing(ProvItem) /\ db = provBuf

\* initialize, with the components of the module
InitComponents ==
  /\ status = [r \in Ranks |-> TRUE]
  /\ newMeta = {} /\ counters = {} /\ exec = {} /\ seen = {} /\ dset = {}
  /\ label = Nothing(Calls)
  /\ idxmap = [r \in Ranks |-> <<>>]
  /\ normals = {} /\ wanted = {}
  /\ statBuf = Nothing(StatItem) /\ stats = statBuf

InitServer ==
  received = Nothing(Calls) /\ published = Nothing(Calls) /\ fmap = <<>>

Init == InitBase /\ InitComponents /\ InitServer

Frame(r) ==
  Run(r) \/ ReadStep(r) \/ Collect(r) \/ Analyse(r) \/ Skip(r) \/ End(r)

Program == StartRun \/ Leave

Next == Publish \/ Program \/ \E r \in Ranks : Frame(r) \/ Fail(r)

\* The loop runs on, and the aggregator of the server makes a new global model
\* once per period.
Spec ==
  /\ Init /\ [][Next]_vars
  /\ WF_vars(Publish) /\ WF_vars(Program) /\ \A r \in Ranks : WF_vars(Frame(r))

-----------------------------------------------------------------------------
(* Properties *)

Tally == [Calls -> 0 .. Many]
TypeOK ==
  /\ params \in {cf.params : cf \in Configs}
  /\ mpi \in BOOLEAN
  /\ pc \in [Ranks -> InRun \cup {"ready", "run", "returned", "failed", "exited", "aborted"}]
  /\ {step, frames, syncs} \subseteq [Ranks -> Nat]
  /\ status \in [Ranks -> BOOLEAN]
  /\ pending \subseteq Calls \cup Metadata \cup Samples
  /\ newMeta \subseteq Metadata /\ counters \subseteq Samples
  /\ {exec, dset, normals} \subseteq SUBSET Calls
  /\ label \in [Calls -> -1 .. 1]
  /\ seen \subseteq Sites(Calls) /\ wanted \subseteq Sites(Calls)
  /\ {local, received, published, offered} \subseteq Tally
  /\ model \in [Ranks -> Tally]
  /\ {provBuf, db} \subseteq [ProvItem -> 0 .. Many]
  /\ {statBuf, stats} \subseteq [StatItem -> 0 .. Many]

Returned(r) == pc[r] \in {"returned", "exited"}

\* A value goes into the models once for every frame its call was offered in:
\* the local parameters are flushed when, and only when, they were handed over.
ModelCountsExact ==
  \A c \in Calls : LET r == RankOf[c]
                       handed == IF params[r].ps THEN received[c] ELSE model[r][c] IN
    pc[r] \notin {"answer", "failed", "aborted"} => Sat(local[c] + handed) = offered[c]

\* Ranks that use the server agree on the model of a function, and no two
\* functions share one, whatever order the ranks met them in.
OneModelPerFunction ==
  \A r, s \in Ranks : \A f \in DOMAIN idxmap[r], g \in DOMAIN idxmap[s] :
    (idxmap[r][f] = idxmap[s][g]) <=> (f = g)

\* What a model is made of is exactly the values of one function.
ModelsExact == ModelCountsExact /\ OneModelPerFunction

\* When run has returned, every outlier found is once in the database and once
\* in the counts of the server, however labelling was delayed and sends staggered,
\* and no labelled call is missing from the server's profile of its function.
OutliersReportedOnce ==
  \A c \in Calls : LET r == RankOf[c] IN
    /\ db[<<"anomalies", c>>] <= 1 /\ stats[<<"n_anomaly", c>>] <= 1
    /\ Returned(r) /\ label[c] = -1 /\ params[r].ps => stats[<<"n_anomaly", c>>] = 1
    /\ Returned(r) /\ label[c] # 0 /\ params[r].ps => stats[<<"profile", c>>] > 0
    /\ Returned(r) /\ label[c] = -1 /\ c \notin Short /\ params[r].start = -1
         /\ params[r].stop = -1
       => db[<<"anomalies", c>>] = 1

\* The function of an anomaly that was reported has a normal execution
\* reported, too, or one is wanted, and none is at hand of those wanted.
NormalForEveryAnomaly ==
  \A c \in Calls : LET r == RankOf[c] IN
    /\ provBuf[<<"anomalies", c>>] + db[<<"anomalies", c>>] > 0 =>
         \E d \in Of(r, Calls) : 
            /\ Func[d] = Func[c]
            /\ \/ Site(d) \in wanted
               \/ provBuf[<<"normalexecs", d>>] + db[<<"normalexecs", d>>] > 0
    /\ c \in normals => Site(c) \notin wanted

\* After the ends of the streams every rank exits, and leaves no completed call
\* unlabelled unless its number of frames was limited.  Under MPI a rank waits for
\* the others at the post-run barrier, for ever if one failed in run.
Exits ==
  []<>(\A r \in Ranks :
         /\ ~status[r] /\ pc[r] \notin {"failed", "aborted"} =>
              Returned(r) /\ (params[r].maxFrames < 0 => Of(r, exec) = {})
         /\ pc[r] \in {"returned", "failed"} =>
              mpi /\ \E q \in Ranks : ~Returned(q))
=============================================================================
