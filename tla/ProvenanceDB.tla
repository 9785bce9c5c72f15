---------------------------- MODULE ProvenanceDB ----------------------------
(***************************************************************************)
(* The provenance database from the start of its server instances to their  *)
(* end: provdb_admin with the programs that are attached to it, the AD      *)
(* ranks (ADProvenanceDBclient), the parameter server (its global client,   *)
(* and the shard clients that prune at the end) and the committers.         *)
(*                                                                          *)
(* Clients say hello and goodbye with calls that nobody answers, records    *)
(* are stored with calls that are waited for before the goodbye only, and   *)
(* an instance ends by itself when everybody has said goodbye.  The clients *)
(* that prune say nothing.                                                  *)
(*                                                                          *)
(* Abstracted: a record is a name, and what the final model says of it is   *)
(* given; statistics are the bag of records they were made of; the remote   *)
(* calls of one client arrive in order, those of two in any; commits to     *)
(* disk, queries, SIGTERM (which ends an instance whoever is connected) and *)
(* the other contents of the global database are left out.                  *)
(***************************************************************************)
EXTENDS Integers, Sequences, FiniteSets

CONSTANTS
  Setups,   \* the choices of ranks, shards, instances, auto, prune to start with
  Records, RankOf,  \* the records that ranks find, RankOf[x] the rank
  FuncOf,    \* FuncOf[x]: the function of which record x is
  Anomalies, \* the records of "anomalies", the others are of "normalexecs"
  Stays      \* those of which the final model says what their collection does

\* There is a rank, a shard and an instance ("Number of instances must be >=1").
ASSUME SetupsAssumption ==
  \A s \in Setups : {s.ranks, s.shards, s.instances} \subseteq Nat \ {0}

\* "no" is no record: {"no"} says that there is no set of records.
ASSUME RecordsAssumption == "no" \notin Records /\ Anomalies \subseteq Records

VARIABLES
  setup,    \* command line of the programs
  inst,     \* inst[i]: "off", "up", "ended", "failed" or "unneeded"
  reg,      \* reg[i]: connected, pserver_connected, committer_connected
  had,      \* had[i]: those that have ever been in reg[i]
  stopCmd,  \* cmd_shutdown of every instance
  client,   \* client[c]: "start", "on", "left", "gone" or "failed"
  chan,     \* chan[c]: calls of client c that its instance has not handled
  db,       \* db[x]: "none", "flight", "stored", "kept" or "erased"
  shard, coll,  \* the shard and its collection that are to be pruned next
  loaded,   \* m_data: those it has read and not labelled yet, or {"no"} before it
  update,   \* to_update of the function in hand
  regen,    \* m_anom_metrics: regen[f][x] is how often x was counted for f
  funcStats \* "func_stats" of the global database, [function -> count of each x]

server == <<inst, reg, had, stopCmd>>
pruning == <<shard, coll, loaded, update, regen, funcStats>>
vars == <<setup, server, client, chan, db, pruning>>

-----------------------------------------------------------------------------
(* ProvDBsetup: how shards are divided over instances *)

PerInstance == (setup.shards + setup.instances - 1) \div setup.instances
ShardInstance(s) == s \div PerInstance
NShards(i) ==
  IF i = setup.instances - 1 THEN setup.shards - PerInstance * i ELSE PerInstance
ShardsOf(i) == {PerInstance * i + k : k \in 0 .. NShards(i) - 1}
Provider(s) ==
  LET off == s % PerInstance IN IF ShardInstance(s) = 0 THEN off + 1 ELSE off
Instances == 0 .. setup.instances - 1

-----------------------------------------------------------------------------
Ranks == {<<"rank", r>> : r \in 0 .. setup.ranks - 1}
PS == <<"pserver", 0>>
Committers == {<<"committer", i>> : i \in Instances}
Clients == Ranks \cup {PS} \cup Committers

ShardOf(x) == RankOf[x] % setup.shards
InstanceOf(c) == IF c \in Ranks THEN ShardInstance(c[2] % setup.shards) ELSE c[2]
Of(c) == {x \in Records : <<"rank", RankOf[x]>> = c}

No == {"no"}
Is(c, s) == client[c] = s
Become(c, s) == client' = [client EXCEPT ![c] = s]
Call(c, name) == chan' = [chan EXCEPT ![c] = Append(@, name)]
InFlight(c) == {x \in Of(c) : db[x] = "flight"}

\* The records that ranks have found, and those that are in the database.
Found == {x \in Records : db[x] # "none"}
InDatabase == {x \in Records : db[x] \in {"stored", "kept"}}
CollectionOf(x) == IF x \in Anomalies THEN "anomalies" ELSE "normalexecs"

\* ProvDBpruneGlobalStats: new ones, and push of a record of S each.
Functions == {FuncOf[x] : x \in Records}
Blank == [x \in Records |-> 0]
Pushed(stats, S) == [x \in Records |-> stats[x] + (IF x \in S THEN 1 ELSE 0)]

-----------------------------------------------------------------------------
(* provdb_admin *)

\* An instance creates its shards; one that is asked for a shard that does not
\* exist, or for a negative number of them, ends with an error.
Serviceable(i) == NShards(i) >= 0 /\ ShardsOf(i) \subseteq 0 .. setup.shards - 1
StartInstance(i) ==
  /\ inst[i] = "off"
  /\ inst' = [inst EXCEPT ![i] = IF NShards(i) = 0 /\ i # 0 THEN "unneeded"
                                 ELSE IF Serviceable(i) THEN "up" ELSE "failed"]
  /\ UNCHANGED <<setup, reg, had, stopCmd, client, chan, db, pruning>>

\* The handlers of client_hello, pserver_hello, committer_hello, of the goodbyes.
Handle(c) ==
  LET i == InstanceOf(c)  name == Head(chan[c]) IN
  /\ chan[c] # <<>> /\ inst[i] = "up"
  /\ chan' = [chan EXCEPT ![c] = Tail(@)]
  /\ reg' = [reg EXCEPT ![i] = IF name = "hello" THEN @ \cup {c} ELSE @ \ {c}]
  /\ had' = [had EXCEPT ![i] = IF name = "hello" THEN @ \cup {c} ELSE @]
  /\ UNCHANGED <<setup, inst, stopCmd, client, db, pruning>>

Store(x) ==
  /\ db[x] = "flight" /\ inst[ShardInstance(ShardOf(x))] = "up"
  /\ db' = [db EXCEPT ![x] = "stored"]
  /\ UNCHANGED <<setup, server, client, chan, pruning>>

\* The loop of main, every second.
EndInstance_Alone(i) ==
  /\ inst[i] = "up" /\ reg[i] \cap Ranks = {}
  /\ stopCmd[i] \/ (setup.auto /\ had[i] \cap Ranks # {})
  /\ inst' = [inst EXCEPT ![i] = "ended"]
  /\ UNCHANGED <<setup, reg, had, stopCmd, client, chan, db, pruning>>
EndInstance(i) ==
  /\ inst[i] = "up" /\ reg[i] = {}
  /\ stopCmd[i] \/ (setup.auto /\ had[i] \cap Ranks # {})
  /\ inst' = [inst EXCEPT ![i] = "ended"]
  /\ UNCHANGED <<setup, reg, had, stopCmd, client, chan, db, pruning>>

-----------------------------------------------------------------------------
(* Clients *)

\* connect: a client waits for the address file, opens its database, says hello.
Connect(c) ==
  LET i == InstanceOf(c) IN
  /\ Is(c, "start") /\ inst[i] # "off"
  /\ IF inst[i] = "up" THEN Become(c, "on") /\ Call(c, "hello")
     ELSE Become(c, "failed") /\ UNCHANGED chan
  /\ UNCHANGED <<setup, server, db, pruning>>

\* sendMultipleDataAsync without a request of one's own
SendRecord(c, x) ==
  /\ Is(c, "on") /\ x \in Of(c) /\ db[x] = "none"
  /\ db' = [db EXCEPT ![x] = "flight"]
  /\ UNCHANGED <<setup, server, client, chan, pruning>>

\* After the run and the barrier of all ranks, a rank leaves the parameter
\* server.  Every hello has been handled by then: the runs last long enough.
Attached == \A c \in Clients : Is(c, "on") => chan[c] = <<>>
LeavePS(c) ==
  /\ c \in Ranks /\ Is(c, "on")
  /\ \A d \in Ranks \cup {PS} : ~Is(d, "start")
  /\ Attached
  /\ Become(c, "left")
  /\ UNCHANGED <<setup, server, chan, db, pruning>>

\* disconnect: all outstanding sends are waited for, then comes the goodbye.
Disconnect_NoWait(c) ==
  /\ c \in Ranks /\ Is(c, "left")
  /\ Become(c, "gone") /\ Call(c, "goodbye")
  /\ UNCHANGED <<setup, server, db, pruning>>
Disconnect(c) ==
  /\ c \in Ranks /\ Is(c, "left") /\ InFlight(c) = {}
  /\ Become(c, "gone") /\ Call(c, "goodbye")
  /\ UNCHANGED <<setup, server, db, pruning>>

\* exit_check of a committer: the instance answers connection_status.
Done_All(i) == had[i] \cap Ranks # {} /\ reg[i] = {}
Done(i) == had[i] \cap Ranks # {} /\ reg[i] \cap (Ranks \cup {PS}) = {}
CommitterChecks(c) ==
  LET i == c[2] IN
  /\ c \in Committers /\ Is(c, "on")
  /\ \/ inst[i] = "up" /\ Done(i) /\ Become(c, "gone") /\ Call(c, "goodbye")
     \/ inst[i] # "up" /\ Become(c, "failed") /\ UNCHANGED chan
  /\ UNCHANGED <<setup, server, db, pruning>>

\* provdb_shutdown, which needs no hello: it is run when all are attached.
StopServer(i) ==
  /\ inst[i] = "up" /\ ~stopCmd[i]
  /\ Attached /\ \A c \in Clients : ~Is(c, "start")
  /\ stopCmd' = [stopCmd EXCEPT ![i] = TRUE]
  /\ UNCHANGED <<setup, inst, reg, had, client, chan, db, pruning>>

-----------------------------------------------------------------------------
(* The parameter server *)

\* sendFinalModuleDataToProvDB writes what the ranks reported; the network is
\* finalized, and main goes on to prune or to disconnect.
ServiceEnds ==
  /\ Is(PS, "on") /\ \A c \in Ranks : ~Is(c, "start") /\ ~Is(c, "on")
  /\ Become(PS, "left")
  /\ funcStats' = [f \in {FuncOf[x] : x \in Found} |->
                      Pushed(Blank, {x \in Found \cap Anomalies : FuncOf[x] = f})]
  /\ shard' = IF setup.prune THEN 0 ELSE setup.shards
  /\ UNCHANGED <<setup, server, chan, db, coll, loaded, update, regen>>

\* A remote call to an instance that has ended throws, out of main.
Reached == inst[ShardInstance(shard)] = "up"
PruneFails ==
  /\ Is(PS, "left") /\ shard < setup.shards /\ ~Reached
  /\ loaded = No \/ loaded # {} \/ update # {}
  /\ Become(PS, "failed")
  /\ UNCHANGED <<setup, server, chan, db, pruning>>

\* connectShard without a hello, and the query of ProvDBpruneInterface: all records
\* of one of the two collections.
LoadShard_NewPruner ==
  /\ Is(PS, "left") /\ shard < setup.shards /\ loaded = No /\ Reached
  /\ loaded' = {x \in InDatabase : ShardOf(x) = shard /\ CollectionOf(x) = coll}
  /\ regen' = [f \in Functions |-> Blank]
  /\ UNCHANGED <<setup, server, client, chan, db, shard, coll, update, funcStats>>
LoadShard ==
  /\ Is(PS, "left") /\ shard < setup.shards /\ loaded = No /\ Reached
  /\ loaded' = {x \in InDatabase : ShardOf(x) = shard /\ CollectionOf(x) = coll}
  /\ UNCHANGED <<setup, server, client, chan, db, shard, coll, update, regen, funcStats>>

\* recordDataSetLabelsInternal for a function: first the records that are labelled
\* otherwise now are erased,
EraseRecords(f) ==
  LET data == {x \in loaded : FuncOf[x] = f} IN
  /\ Is(PS, "left") /\ loaded # No /\ update = {} /\ data # {} /\ Reached
  /\ db' = [x \in Records |-> IF x \in data \ Stays THEN "erased" ELSE db[x]]
  /\ update' = data \cap Stays
  /\ loaded' = loaded \ data
  /\ UNCHANGED <<setup, server, client, chan, shard, coll, regen, funcStats>>

\* then the others are amended (batchAmendRecords), and counted if they are anomalies.
AmendRecords ==
  /\ Is(PS, "left") /\ update # {} /\ Reached
  /\ db' = [x \in Records |-> IF x \in update THEN "kept" ELSE db[x]]
  /\ regen' = IF coll # "anomalies" THEN regen
              ELSE [f \in Functions |-> Pushed(regen[f], {x \in update : FuncOf[x] = f})]
  /\ update' = {}
  /\ UNCHANGED <<setup, server, client, chan, shard, coll, loaded, funcStats>>

\* pruneImplementation: "anomalies", then "normalexecs", then main's next shard.
NextCollection ==
  /\ Is(PS, "left") /\ loaded = {} /\ update = {}
  /\ loaded' = No
  /\ IF coll = "anomalies" THEN coll' = "normalexecs" /\ UNCHANGED shard
                            ELSE coll' = "anomalies" /\ shard' = shard + 1
  /\ UNCHANGED <<setup, server, client, chan, db, update, regen, funcStats>>

Prune == LoadShard \/ (\E f \in Functions : EraseRecords(f)) \/ AmendRecords \/ NextCollection \/ PruneFails

\* finalize replaces the statistics of every function that has an entry, also by
\* blank ones; then the goodbye.
PSDisconnects ==
  /\ Is(PS, "left") /\ shard = setup.shards
  /\ funcStats' = IF setup.prune THEN [f \in DOMAIN funcStats |-> regen[f]] ELSE funcStats
  /\ Become(PS, "gone") /\ Call(PS, "goodbye")
  /\ UNCHANGED <<setup, server, db, shard, coll, loaded, update, regen>>

-----------------------------------------------------------------------------
Init ==
  /\ setup \in Setups
  /\ inst = [i \in Instances |-> "off"]
  /\ reg = [i \in Instances |-> {}] /\ had = reg
  /\ stopCmd = [i \in Instances |-> FALSE]
  /\ client = [c \in Clients |-> "start"]
  /\ chan = [c \in Clients |-> <<>>]
  /\ db = [x \in Records |-> "none"]
  /\ shard = 0 /\ coll = "anomalies" /\ loaded = No /\ update = {}
  /\ regen = [f \in Functions |-> Blank] /\ funcStats = [f \in {} |-> Blank]

Instance(i) == StartInstance(i) \/ EndInstance(i)
Client(c) == Connect(c) \/ LeavePS(c) \/ Disconnect(c) \/ CommitterChecks(c)
PServer == ServiceEnds \/ Prune \/ PSDisconnects

Next ==
  \/ \E i \in Instances : Instance(i) \/ StopServer(i)
  \/ \E c \in Clients : Handle(c) \/ Client(c) \/ \E x \in Records : SendRecord(c, x)
  \/ \E x \in Records : Store(x)
  \/ PServer

\* Programs are started and run, calls arrive; nobody has to send a record or the
\* stop command.
Spec ==
  /\ Init /\ [][Next]_vars
  /\ \A i \in 0 .. 1 : WF_vars(i \in Instances /\ Instance(i))
  /\ \A c \in UNION {{<<"rank", i>>, <<"pserver", i>>, <<"committer", i>>} : i \in 0 .. 1} :
       WF_vars(c \in Clients /\ (Handle(c) \/ Client(c)))
  /\ \A x \in Records : WF_vars(Store(x))
  /\ WF_vars(PServer)

-----------------------------------------------------------------------------
(* Properties *)

\* No instance ends, by itself or when told to, between the connection of a rank
\* or of the parameter server's global client and its goodbye.  As the clients that
\* prune say no hello, this keeps the prune from failing at the shards of the
\* instance that has the global database, and at no others.
NobodyCutOff ==
  /\ \A c \in Ranks \cup {PS} : client[c] \in {"on", "left"} => inst[InstanceOf(c)] = "up"
  /\ Is(PS, "failed") => ShardInstance(shard) # InstanceOf(PS)

\* No shard that is still to be pruned has lost its instance: "it is assumed these
\* clients are used prior to the pserver global database client being disconnected".
PruneFindsShards ==
  Is(PS, "left") => \A s \in shard .. setup.shards - 1 : inst[ShardInstance(s)] # "ended"

\* No record is under way to an instance that is gone, and the records of a rank
\* that is gone are in the database or were pruned.
RecordsArrive ==
  \A x \in Records :
    /\ db[x] = "flight" => inst[ShardInstance(ShardOf(x))] = "up"
    /\ Is(<<"rank", RankOf[x]>>, "gone") => db[x] # "flight"

\* When the parameter server has pruned and gone, the statistics of each function
\* in the global database count once each of its anomalies that was evaluated
\* again and is left, whichever shards they are in and however late others came,
\* and nothing else; no such anomaly is of a function without statistics.
StatisticsOfKept ==
  Is(PS, "gone") /\ setup.prune =>
    /\ \A f \in DOMAIN funcStats, x \in Records :
         funcStats[f][x] = IF FuncOf[x] = f /\ x \in Anomalies /\ db[x] = "kept" THEN 1 ELSE 0
    /\ \A x \in Anomalies : db[x] = "kept" => FuncOf[x] \in DOMAIN funcStats

\* What is left after the prune has been evaluated with the final model ("Post-prune
\* the provenance database").
PrunedAll == Is(PS, "gone") /\ setup.prune => \A x \in Records : db[x] \notin {"flight", "stored"}

\* The shards of the instances are the shards there are, each served once, and no
\* two databases of an instance have the same provider.
ShardsServed ==
  /\ UNION {ShardsOf(i) : i \in Instances} = 0 .. setup.shards - 1
  /\ \A i \in Instances : inst[i] # "failed"
  /\ \A i, j \in Instances : i # j => ShardsOf(i) \cap ShardsOf(j) = {}
  /\ \A s, t \in 0 .. setup.shards - 1 :
       s # t /\ ShardInstance(s) = ShardInstance(t) => Provider(s) # Provider(t)

\* All programs end: ranks, the parameter server and the committers, and each
\* instance that ends by itself.  Only if the prune has failed do the instance with
\* the global database and its committer wait for the parameter server's goodbye.
Deserted(i) == i = InstanceOf(PS) /\ Is(PS, "failed")
AllEnd ==
  <>(/\ \A c \in Clients : client[c] \in {"gone", "failed"} \/ (c \in Committers /\ Deserted(c[2]))
     /\ setup.auto => \A i \in Instances : inst[i] \in {"ended", "unneeded"} \/ Deserted(i))
=============================================================================
