----------------------------- MODULE ADMonitoring -----------------------------
(***************************************************************************)
(* The counters of a rank outside of its calls: ADCounter collects the      *)
(* counters of every IO step until the next analysis, and ADMonitoring      *)
(* keeps the latest value of each counter on its watch list (or with its     *)
(* prefix), the node state that goes into the provenance of an anomaly.     *)
(*                                                                          *)
(* A row's type is the counter it belongs to, its id stands for its value.   *)
(* Abstracted: the time of the node state, which is that of any one of the  *)
(* counters updated last ("all monitoring data in a dump should arrive at   *)
(* the same time"), and names that are not known (update_attributes comes   *)
(* before the counters of a step are fetched).                              *)
(***************************************************************************)
EXTENDS SequencesExt

CONSTANT Watched   \* the counters of m_counter_watchlist, or with the prefix

(* The rows that are in the set S, in their order: SelectSeq for a set, as a *)
(* recursive function.                                                      *)
Only(rows, S) ==
  LET kept[i \in 0 .. Len(rows)] ==
        IF i = 0 THEN <<>>
        ELSE IF rows[i] \in S THEN Append(kept[i - 1], rows[i]) ELSE kept[i - 1]
  IN  kept[Len(rows)]

ByIndex(counters, cid) == Only(counters, {r \in Range(counters) : r.type = cid})

(* addCounter, for the rows of a table; kept here are those monitoring reads *)
AddCounters(counters, table) ==
  counters \o Only(table, {r \in Range(table) : r.type \in Watched})

Unassigned == 0
NoState == [cid \in Watched |-> Unassigned]

(* Mutant: takes the oldest sample collected. *)
ExtractCounters_Oldest(state, counters) ==
  [cid \in Watched |->
     LET samples == ByIndex(counters, cid)
     IN IF samples = <<>> THEN state[cid] ELSE Head(samples).id]

(* "If there are more than 1 entry we should take the most recent (end of    *)
(* list)": the samples may be of several IO steps.                          *)
ExtractCounters(state, counters) ==
  [cid \in Watched |->
     LET samples == ByIndex(counters, cid)
     IN IF samples = <<>> THEN state[cid] ELSE Last(samples).id]

(* "tell the event manager to ignore them so they don't get attached to any *)
(* function execution"                                                      *)
NotIgnored(rows) == Only(rows, {r \in Range(rows) : r.type \notin Watched})

=============================================================================
