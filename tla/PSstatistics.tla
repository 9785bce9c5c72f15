----------------------------- MODULE PSstatistics -----------------------------
(***************************************************************************)
(* The statistics of the parameter server, from the workers that receive    *)
(* them to the packets for the visualization and the final data for the     *)
(* provenance database (PSmoduleDataManager, GlobalAnomalyStats,            *)
(* GlobalCounterStats, GlobalAnomalyMetrics, PSstatSender, pserver's main). *)
(*                                                                          *)
(* Every worker adds what the ranks send to objects of its own, one section *)
(* under a lock after the other.  The sender's thread merges the objects of *)
(* all workers, flushes what is sent only once, sends a packet and sleeps.  *)
(* When the network has ended, main stops the sender and merges all objects *)
(* again for the database.                                                  *)
(*                                                                          *)
(* Abstracted: statistics are tallies of the data they were made from,      *)
(* saturating at 2; the model is the set of indices it was trained for      *)
(* (PSparamManager has the rest), and a rank asks for the index of one      *)
(* function at a time (ADDriver has batches).                               *)
(***************************************************************************)
EXTENDS Integers, Sequences, FiniteSets, FiniteSetsExt, Functions

CONSTANTS
  N,            \* number of worker threads
  Data,         \* the statistics that ranks send: one function in one step each
  RankOf, Func, \* RankOf[d], Func[d]: where datum d comes from
  Anomalous,    \* the data that contain anomalies
  Restored      \* the function index maps that the server may start from

ASSUME PSstatisticsAssumption ==
  /\ N \in Nat \ {0} /\ Anomalous \subseteq Data /\ <<>> \in Restored
  /\ \A map \in Restored :  \* written by a server, to a file: see serialize
       /\ IsInjective(map) /\ Range(map) \subseteq Nat
       /\ map # <<>> => \E i \in Range(map) : \A j \in Range(map) : i >= j

Workers == 1 .. N
Ranks == {RankOf[d] : d \in Data}
Idle == <<>>

\* The parts of the statistics objects: m_stats and m_data of the anomaly
\* statistics, the function statistics, the counter statistics, and the full and
\* the recent metrics.
Part == {"stats", "data", "func", "counter", "full", "recent"}
Flushed == {"data", "recent"}

VARIABLES
  main,     \* what main does: "serve", "stop", "join", "final", "end"
  store,    \* store[w]: the statistics objects of worker w
  doing,    \* doing[w]: the datum worker w adds and the sections left to do
  todo,     \* data not sent yet
  handled,  \* data that were added completely
  sender,   \* the sender: "collect", "send", "sleep", "ended"
  plan,     \* the merges left to do for the present packet
  comb,     \* the merged objects of the present packet
  stop,     \* m_stop_sender
  bad,      \* m_bad
  viz,      \* what the packets sent so far have shown
  fmap,     \* m_fmap of the PSglobalFunctionIndexMap
  nextIdx,  \* m_idx
  known,    \* known[r]: the functions whose index rank r has
  trained,  \* the indices in the global model, with the function they are for
  final     \* what was sent to the provenance database at the end

serving == <<store, doing, todo, handled>>
packets == <<sender, plan, comb, bad, viz>>
index == <<fmap, nextIdx, known, trained>>
vars == <<main, serving, packets, stop, index, final>>

-----------------------------------------------------------------------------
None == [d \in Data |-> 0]
Sat(n) == IF n > 2 THEN 2 ELSE n
Plus(a, b) == [d \in Data |-> Sat(a[d] + b[d])]
One(d) == [None EXCEPT ![d] = 1]
Empty == [p \in Part |-> None]
Only(a, S) == [d \in Data |-> IF d \in S THEN a[d] ELSE 0]
Those(a) == {d \in Data : a[d] > 0}
\* a for the data of S, otherwise b
Override(a, b, S) == [d \in Data |-> IF d \in S THEN a[d] ELSE b[d]]

-----------------------------------------------------------------------------
(* Workers *)

\* The sections under a lock in which a datum is added.
Sections_DataFirst == <<{"data"}, {"stats"}, {"func"}, {"counter"}, {"full"}, {"recent"}>>
Sections == <<{"stats", "data"}, {"func"}, {"counter"}, {"full"}, {"recent"}>>

\* There are metrics only of functions with anomalies.
PartsOf(d) == IF d \in Anomalous THEN Part ELSE Part \ {"full", "recent"}

\* A rank sends a datum once it knows the function's index, one at a time.
Receive(w, d) ==
  /\ main = "serve"
  /\ doing[w] = Idle /\ d \in todo /\ Func[d] \in known[RankOf[d]]
  /\ \A v \in Workers : doing[v] # Idle => RankOf[doing[v].datum] # RankOf[d]
  /\ todo' = todo \ {d}
  /\ doing' = [doing EXCEPT ![w] = [datum |-> d, left |-> Sections]]
  /\ UNCHANGED <<main, store, handled, packets, stop, index, final>>

AddSection(w) ==
  /\ doing[w] # Idle
  /\ LET d == doing[w].datum  left == doing[w].left IN
       /\ store' = [store EXCEPT ![w] =
                      [p \in Part |-> IF p \in Head(left) \cap PartsOf(d)
                                      THEN Plus(@[p], One(d)) ELSE @[p]]]
       /\ IF Len(left) = 1
          THEN doing' = [doing EXCEPT ![w] = Idle] /\ handled' = handled \cup {d}
          ELSE doing' = [doing EXCEPT ![w].left = Tail(left)] /\ UNCHANGED handled
  /\ UNCHANGED <<main, todo, packets, stop, index, final>>

\* A rank asks for the index of a function and sends parameters under it.
LookUp(r, f) ==
  /\ main = "serve"
  /\ f \notin known[r] /\ \E d \in todo : RankOf[d] = r /\ Func[d] = f
  /\ known' = [known EXCEPT ![r] = @ \cup {f}]
  /\ IF f \in DOMAIN fmap THEN UNCHANGED <<fmap, nextIdx>>
     ELSE /\ fmap' = [g \in DOMAIN fmap \cup {f} |-> IF g = f THEN nextIdx ELSE fmap[g]]
          /\ nextIdx' = nextIdx + 1
  /\ trained' = trained \cup {<<fmap'[f], f>>}
  /\ UNCHANGED <<main, serving, packets, stop, final>>

-----------------------------------------------------------------------------
(* The sender's thread *)

\* One payload after the other merges the objects of all workers, the anomaly
\* statistics of one under two locks in turn.
Merges_ExceptLast ==
  [i \in 1 .. N - 1 |-> [worker |-> i, parts |-> {"stats", "data", "func"}]]
  \o [i \in Workers |-> [worker |-> i, parts |-> {"counter"}]]
  \o [i \in Workers |-> [worker |-> i, parts |-> {"full", "recent"}]]
Merges ==
  [i \in 1 .. 2 * N |-> [worker |-> (i + 1) \div 2,
                         parts |-> IF i % 2 = 1 THEN {"stats", "data"} ELSE {"func"}]]
  \o [i \in Workers |-> [worker |-> i, parts |-> {"counter"}]]
  \o [i \in Workers |-> [worker |-> i, parts |-> {"full", "recent"}]]

StartPacket ==
  /\ sender = "sleep"
  /\ sender' = IF stop THEN "ended" ELSE "collect"
  /\ comb' = Empty
  /\ plan' = IF stop THEN <<>> ELSE Merges
  /\ UNCHANGED <<main, serving, stop, bad, viz, index, final>>

\* merge_and_flush, and operator+= for the counters
Merge ==
  /\ sender = "collect"
  /\ LET w == Head(plan).worker  parts == Head(plan).parts IN
       /\ comb' = [p \in Part |-> IF p \in parts THEN Plus(comb[p], store[w][p]) ELSE comb[p]]
       /\ store' = [store EXCEPT ![w] =
                      [p \in Part |-> IF p \in parts \cap Flushed THEN None ELSE @[p]]]
  /\ plan' = Tail(plan)
  /\ sender' = IF Len(plan) = 1 THEN "send" ELSE "collect"
  /\ UNCHANGED <<main, doing, todo, handled, stop, bad, viz, index, final>>

\* What belongs together in a packet: ranks, and functions of ranks.
SameRank(S) == {d \in Data : \E e \in S : RankOf[d] = RankOf[e]}
SameKey(S) == {d \in Data : \E e \in S : RankOf[d] = RankOf[e] /\ Func[d] = Func[e]}

\* GlobalAnomalyMetrics::get_json ends in an error if recent metrics have no
\* full ones to go with.
Unaccompanied == ~(Those(comb["recent"]) \subseteq SameKey(Those(comb["full"])))

\* The anomaly statistics show the data with anomalies, the statistics of their
\* ranks, and those of all functions if there is such a datum.
ShownStats(v) ==
  LET new == Those(comb["data"]) \cap Anomalous IN
  [v EXCEPT !["data"]  = Plus(@, Only(comb["data"], new)),
            !["stats"] = Override(comb["stats"], @, SameRank(new)),
            !["func"]  = IF new = {} THEN @ ELSE comb["func"]]

ShownCounters(v) == [v EXCEPT !["counter"] = comb["counter"]]

\* The metrics that are new, with those to date of the same functions.
ShownMetrics(v) ==
  [v EXCEPT !["recent"] = Plus(@, comb["recent"]),
            !["full"]   = Override(comb["full"], @, SameKey(Those(comb["recent"])))]

Shown(v) == ShownMetrics(ShownCounters(ShownStats(v)))

Send ==
  /\ sender = "send" /\ ~Unaccompanied
  /\ viz' = Shown(viz)
  /\ comb' = Empty
  /\ sender' = "sleep"
  /\ UNCHANGED <<main, serving, plan, stop, bad, index, final>>

\* An exception: the transfer fails, or the packet cannot be built.
SendFails ==
  /\ sender = "send"
  /\ bad' = TRUE
  /\ sender' = "ended"
  /\ comb' = Empty
  /\ UNCHANGED <<main, serving, plan, stop, viz, index, final>>

-----------------------------------------------------------------------------
(* The end of main *)

\* net.run returns when every request has been answered, so that the workers are
\* idle (StopsSafely of ZMQNet).  Its end by a signal, after which a worker may still
\* be in a payload and add to what the final data leave out, is not modelled.
ServiceEnds ==
  /\ main = "serve" /\ \A w \in Workers : doing[w] = Idle
  /\ main' = "stop"
  /\ UNCHANGED <<serving, packets, stop, index, final>>

\* stop_stat_sender, after a time
StopSender ==
  /\ main = "stop"
  /\ stop' = TRUE /\ main' = "join"
  /\ UNCHANGED <<serving, packets, index, final>>

Join ==
  /\ main = "join" /\ sender = "ended"
  /\ main' = "final"
  /\ UNCHANGED <<serving, packets, stop, index, final>>

\* The sum of what the workers have.
Total(p) ==
  [d \in Data |->
     LET have == {w \in Workers : store[w][p][d] > 0} IN
     IF have = {} THEN 0
     ELSE IF \E w \in have : have = {w} /\ store[w][p][d] = 1 THEN 1 ELSE 2]

\* get_profile_data: what all ranks have of a function, together
DataOf(f) == {d \in Data : Func[d] = f}
RuntimeOf(f) == Only(Total("func"), DataOf(f))
MetricsOf(f) == Only(Total("full"), DataOf(f))
Profile ==
  [f \in {Func[d] : d \in Those(Total("func")) \cup Those(Total("full"))} |->
     [runtime |-> RuntimeOf(f), metrics |-> MetricsOf(f)]]

\* sendFinalModuleDataToProvDB: the models are sent under the names that the
\* inverted index map has for their indices, an error if one has none.
SendFinal ==
  /\ main = "final"
  /\ \E name \in {n \in [Range(fmap) -> DOMAIN fmap] : \A i \in Range(fmap) : fmap[n[i]] = i} :
       final' = [profile |-> Profile, counters |-> Total("counter"),
                 named |-> {<<i, name[i]>> : i \in {t[1] : t \in trained} \cap Range(fmap)},
                 failed |-> ~({t[1] : t \in trained} \subseteq Range(fmap))]
  /\ main' = "end"
  /\ UNCHANGED <<serving, packets, stop, index>>

-----------------------------------------------------------------------------
\* restoreModel: the model holds functions of the map, and the next index is one
\* more than the largest in the map.
NextIndex_Size(map) == Cardinality(DOMAIN map)
NextIndex(map) == IF map = <<>> THEN 0 ELSE Max(Range(map)) + 1

Init ==
  /\ main = "serve"
  /\ store = [w \in Workers |-> Empty]
  /\ doing = [w \in Workers |-> Idle]
  /\ todo = Data /\ handled = {}
  /\ sender = "sleep" /\ plan = <<>> /\ comb = Empty /\ stop = FALSE /\ bad = FALSE
  /\ viz = Empty
  /\ fmap \in Restored
  /\ nextIdx = NextIndex(fmap)
  /\ known = [r \in Ranks |-> {}]
  /\ trained = {<<fmap[f], f>> : f \in DOMAIN fmap}
  /\ final = <<>>

Worker(w) == (\E d \in Data : Receive(w, d)) \/ AddSection(w)
Sender == StartPacket \/ Merge \/ Send
Main == ServiceEnds \/ StopSender \/ Join \/ SendFinal
Rank(r) == \E f \in {Func[d] : d \in Data} : LookUp(r, f)

Next ==
  \/ \E w \in Workers : Worker(w)
  \/ Sender \/ SendFails \/ Main
  \/ \E r \in Ranks : Rank(r)

\* Threads run; a packet need not fail, and nobody has to end the service.
Spec ==
  /\ Init /\ [][Next]_vars
  /\ \A w \in Workers : WF_vars(AddSection(w))
  /\ WF_vars(Sender)
  /\ WF_vars(StopSender \/ Join \/ SendFinal)

-----------------------------------------------------------------------------
(* Properties *)

Tally == [Data -> 0 .. 2]
TypeOK ==
  /\ main \in {"serve", "stop", "join", "final", "end"}
  /\ store \in [Workers -> [Part -> Tally]]
  /\ \A w \in Workers : doing[w] # Idle => doing[w].datum \in Data
  /\ handled \cup todo \subseteq Data
  /\ sender \in {"collect", "send", "sleep", "ended"}
  /\ {comb, viz} \subseteq [Part -> Tally]
  /\ stop \in BOOLEAN /\ bad \in BOOLEAN
  /\ known \in [Ranks -> SUBSET {Func[d] : d \in Data}]

\* The data that part p has of those received.
Added(p) ==
  handled \cup {doing[w].datum : w \in {v \in Workers : 
     doing[v] # Idle /\ \A i \in DOMAIN doing[v].left : p \notin doing[v].left[i]}}

\* What is flushed is neither lost nor shown twice, although workers add data
\* while the sender merges: unless a transfer failed, each datum received waits
\* in one place or was in one packet.
NewDataOnce ==
  ~bad => \A d \in Data :
    /\ d \in Anomalous => Sat(Total("data")[d] + comb["data"][d] + viz["data"][d])
                            = IF d \in Added("data") THEN 1 ELSE 0
    /\ Sat(Total("recent")[d] + comb["recent"][d] + viz["recent"][d])
         = IF d \in Added("recent") \cap Anomalous THEN 1 ELSE 0

\* The totals that packets have shown contain the new data they have shown.
TotalsCoverNew ==
  /\ Those(viz["data"]) \subseteq Those(viz["stats"])
  /\ Those(viz["recent"]) \subseteq Those(viz["full"])

\* What the visualization was sent is right: new data once, with totals to match.
PacketsExact == NewDataOnce /\ TotalsCoverNew

\* The final data count what was received once, whatever was flushed or lost on
\* the way to the visualization.
FinalExact ==
  LET once(S) == [d \in Data |-> IF d \in S THEN 1 ELSE 0] IN
  main = "end" =>
    /\ ~final.failed
    /\ final.counters = once(handled)
    /\ final.profile = [f \in {Func[d] : d \in handled} |->
         [runtime |-> once(handled \cap DataOf(f)), metrics |-> once(handled \cap DataOf(f) \cap Anomalous)]]

\* The final data name every model after the function that it was trained with,
\* in this run of the server or the one restored from.
ModelsNamedRight == main = "end" => final.named = trained

\* What the database was sent at the end is right.
FinalDataExact == FinalExact /\ ModelsNamedRight

\* What is received is shown while the service goes on and no packet fails, and
\* a service that ends gets to its end.
AllShown ==
  /\ \A d \in Anomalous : d \in handled ~> (viz["data"][d] = 1 \/ stop \/ bad)
  /\ main = "stop" ~> main = "end"
=============================================================================
