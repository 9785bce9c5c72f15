----------------------------- MODULE ServerProofs -----------------------------
(***************************************************************************)
(* Theorems about the two components that keep what all ranks have found:   *)
(* the model of the parameter server (PSparamManager), for any number of    *)
(* worker threads, and the provenance database (ProvenanceDB), for any      *)
(* number of ranks, shards, instances and records, shards that do not       *)
(* divide over the instances included.                                      *)
(***************************************************************************)
EXTENDS PSparamManager, ProvenanceDB, TLAPS

-----------------------------------------------------------------------------
(* The model of the parameter server.                                       *)

State == {"starting", "serving", "stopping", "joining", "idle", "merging",
          "answering", "ticking", "gone"}

LEMMA ConstantFacts ==
  /\ NWorkers \in Nat \ {0}
  /\ MaxUpdates \in Nat
  /\ Restored \in Nat
  /\ Worker \subseteq Nat
  /\ 0 \in Worker
  /\ Worker \subseteq Thread
  /\ Main \in Thread \ Worker
  /\ Updater \in Thread \ Worker
  /\ Main # Updater
  /\ Thread = Worker \cup {Main, Updater}
  /\ \A i \in 0 .. NWorkers : i < NWorkers => i \in Worker /\ i + 1 \in 0 .. NWorkers
  BY PSparamManagerAssumption DEF Worker, Main, Updater, Thread

LEMMA ModelFacts ==
  /\ Zero \in [Worker -> Nat]
  /\ RestoredWorkers \in [Worker -> Nat]
  <1>1. Zero \in [Worker -> Nat]
    BY DEF Zero
  <1>2. \A w \in Worker : (IF w = 0 THEN Restored ELSE 0) \in Nat
    BY PSparamManagerAssumption
  <1>3. RestoredWorkers \in [Worker -> Nat]
    BY <1>2 DEF RestoredWorkers
  <1>4. QED BY <1>1, <1>3

-----------------------------------------------------------------------------
(* Types.                                                                   *)

LEMMA TypeInit == ManagerInit => TypeOK
  <1> SUFFICES ASSUME ManagerInit
               PROVE  TypeOK
    OBVIOUS
  <1> USE ConstantFacts, ModelFacts
  <1>1. nUpdates \in [Worker -> 0 .. MaxUpdates]
    BY DEF ManagerInit, Zero
  <1>2. next \in [Thread -> 0 .. NWorkers]
    BY DEF ManagerInit
  <1>3. QED BY <1>1, <1>2 DEF ManagerInit, TypeOK

LEMMA TypeNext == TypeOK /\ [ManagerNext]_managerVars => TypeOK'
  <1> SUFFICES ASSUME TypeOK, [ManagerNext]_managerVars
               PROVE  TypeOK'
    OBVIOUS
  <1> USE ConstantFacts, ModelFacts
  <1>1. CASE Start
    <2>1. global' \in [Worker -> Nat]
      BY <1>1 DEF Start
    <2>2. QED BY <1>1, <2>1 DEF Start, TypeOK
  <1>2. ASSUME NEW t \in Thread, Merge(t)
        PROVE  TypeOK'
    <2>1. next[t] \in Worker /\ next[t] + 1 \in 0 .. NWorkers
      BY <1>2 DEF Merge, TypeOK
    <2>2. worker[next[t]] \in Nat
      BY <2>1 DEF TypeOK
    <2>3. new' \in [Thread -> [Worker -> Nat]]
      BY <1>2, <2>2 DEF Merge, TypeOK
    <2>4. next' \in [Thread -> 0 .. NWorkers]
      BY <1>2, <2>1 DEF Merge, TypeOK
    <2>5. QED BY <1>2, <2>3, <2>4 DEF Merge, TypeOK
  <1>3. ASSUME NEW t \in Thread, Swap(t)
        PROVE  TypeOK'
    <2>1. AfterSwap(t) \in {"answering", "stopping", "ticking"}
      <3>1. t \in Worker \/ t = Main \/ t = Updater
        OBVIOUS
      <3>2. QED BY <3>1 DEF AfterSwap
    <2>2. QED BY <1>3, <2>1 DEF Swap, Merged, TypeOK
  <1>4. CASE Tick
    BY <1>4 DEF Tick, TypeOK
  <1>5. ASSUME NEW w \in Worker, UpdateWorker(w)
        PROVE  TypeOK'
    BY <1>5 DEF UpdateWorker, Updated, TypeOK
  <1>6. ASSUME NEW w \in Worker, Answer(w)
        PROVE  TypeOK'
    BY <1>6 DEF Answer, TypeOK
  <1>7. CASE EndOfService
    BY <1>7 DEF EndOfService, TypeOK
  <1>8. CASE StopUpdater
    BY <1>8 DEF StopUpdater, ExitRaised, TypeOK
  <1>9. CASE Join
    BY <1>9 DEF Join, TypeOK
  <1>10. CASE UNCHANGED managerVars
    BY <1>10 DEF managerVars, TypeOK
  <1>11. QED
    BY <1>1, <1>2, <1>3, <1>4, <1>5, <1>6, <1>7, <1>8, <1>9, <1>10
       DEF ManagerNext, UpdaterStep, WorkerStep, MainStep

(* The variables keep their types, for any number of workers and updates.   *)
THEOREM TypeCorrect == ManagerSpec => []TypeOK
  BY TypeInit, TypeNext, PTL DEF ManagerSpec

-----------------------------------------------------------------------------
(* NothingInvented, with what holds before the start too.                   *)

Bounded ==
  /\ IF state[Main] = "starting" THEN worker = Zero /\ nUpdates = Zero
                                 ELSE worker = Received
  /\ AtMost(global, worker)
  /\ \A t \in Thread : AtMost(new[t], worker)
  /\ \A w \in Worker : AtMost(answer[w], worker)

LEMMA BoundedInit == ManagerInit => Bounded
  BY ConstantFacts, ModelFacts DEF ManagerInit, Bounded, AtMost

(* What is at most the workers' parameters stays so while they grow. *)
LEMMA BoundedGrows ==
  ASSUME TypeOK, TypeOK', AtMost(worker, worker'),
         NEW f \in [Worker -> Nat], AtMost(f, worker)
  PROVE  AtMost(f, worker')
  BY DEF TypeOK, AtMost

LEMMA BoundedNext == TypeOK /\ TypeOK' /\ Bounded /\ [ManagerNext]_managerVars => Bounded'
  <1> SUFFICES ASSUME TypeOK, TypeOK', Bounded, [ManagerNext]_managerVars
               PROVE  Bounded'
    OBVIOUS
  <1> USE ConstantFacts, ModelFacts
  <1>1. CASE Start
    <2>1. worker' = Received' /\ state'[Main] = "serving"
      <3>1. state'[Main] = "serving" /\ nUpdates' = Zero /\ worker' = RestoredWorkers
        BY <1>1 DEF Start, Bounded, TypeOK
      <3>2. \A w \in Worker : RestoredWorkers[w] = Received'[w]
        BY <3>1 DEF RestoredWorkers, Received, Zero
      <3>3. QED BY <3>1, <3>2 DEF RestoredWorkers, Received
    <2>2. AtMost(worker, worker')
      BY <1>1 DEF Start, Bounded, AtMost, Zero, TypeOK
    <2>3. \A t \in Thread : AtMost(new'[t], worker')
      BY <1>1, <2>2, BoundedGrows DEF Start, Bounded, TypeOK
    <2>4. \A w \in Worker : AtMost(answer'[w], worker')
      BY <1>1, <2>2, BoundedGrows DEF Start, Bounded, TypeOK
    <2>5. AtMost(global', worker')
      BY <1>1 DEF Start, RestoredWorkers, AtMost, TypeOK
    <2>6. QED BY <2>1, <2>3, <2>4, <2>5 DEF Bounded
  <1>2. ASSUME NEW t \in Thread, Merge(t)
        PROVE  Bounded'
    <2>1. AtMost(new'[t], worker)
      BY <1>2 DEF Merge, Bounded, AtMost, TypeOK
    <2>2. \A u \in Thread : AtMost(new'[u], worker)
      BY <1>2, <2>1 DEF Merge, Bounded, TypeOK
    <2>3. QED BY <1>2, <2>2 DEF Merge, Bounded, Received, AtMost
  <1>3. ASSUME NEW t \in Thread, Swap(t)
        PROVE  Bounded'
    <2>1. AtMost(Zero, worker)
      BY DEF AtMost, Zero, TypeOK
    <2>2. \A u \in Thread : AtMost(new'[u], worker)
      BY <1>3, <2>1 DEF Swap, Bounded, TypeOK
    <2>3. state[Main] # "starting" => state'[Main] # "starting"
      BY <1>3 DEF Swap, AfterSwap, TypeOK
    <2>4. state[Main] = "starting" => state'[Main] = "starting"
      BY <1>3 DEF Swap, TypeOK
    <2>5. AtMost(global', worker)
      BY <1>3 DEF Swap, Merged, Bounded
    <2>6. QED BY <1>3, <2>2, <2>3, <2>4, <2>5 DEF Swap, Bounded, Received, AtMost
  <1>4. CASE Tick
    BY <1>4 DEF Tick, Bounded, Received, AtMost, TypeOK
  <1>5. ASSUME NEW w \in Worker, UpdateWorker(w)
        PROVE  Bounded'
    <2>1. worker = Received /\ state'[Main] = "serving"
      BY <1>5 DEF UpdateWorker, Bounded, TypeOK
    <2>2. worker' = Received'
      <3>1. \A v \in Worker : worker'[v] = Received'[v]
        BY <1>5, <2>1 DEF UpdateWorker, Updated, Received, TypeOK
      <3>2. QED BY <3>1 DEF Received, TypeOK
    <2>3. AtMost(worker, worker')
      BY <1>5 DEF UpdateWorker, Updated, AtMost, TypeOK
    <2>4. \A t \in Thread : AtMost(new'[t], worker')
      BY <1>5, <2>3, BoundedGrows DEF UpdateWorker, Bounded, TypeOK
    <2>5. \A v \in Worker : AtMost(answer'[v], worker')
      BY <1>5, <2>3, BoundedGrows DEF UpdateWorker, Bounded, TypeOK
    <2>6. AtMost(global', worker')
      BY <1>5, <2>3, BoundedGrows DEF UpdateWorker, Bounded, TypeOK
    <2>7. QED BY <2>1, <2>2, <2>4, <2>5, <2>6 DEF Bounded
  <1>6. ASSUME NEW w \in Worker, Answer(w)
        PROVE  Bounded'
    <2>1. \A v \in Worker : AtMost(answer'[v], worker)
      BY <1>6 DEF Answer, Bounded, TypeOK
    <2>2. state'[Main] = state[Main]
      BY <1>6 DEF Answer, TypeOK
    <2>3. QED BY <1>6, <2>1, <2>2 DEF Answer, Bounded, Received, AtMost
  <1>7. CASE EndOfService
    BY <1>7 DEF EndOfService, Bounded, Received, AtMost, TypeOK
  <1>8. CASE StopUpdater
    BY <1>8 DEF StopUpdater, Bounded, Received, AtMost, TypeOK
  <1>9. CASE Join
    BY <1>9 DEF Join, Bounded, Received, AtMost, TypeOK
  <1>10. CASE UNCHANGED managerVars
    BY <1>10 DEF managerVars, Bounded, Received, AtMost
  <1>11. QED
    BY <1>1, <1>2, <1>3, <1>4, <1>5, <1>6, <1>7, <1>8, <1>9, <1>10
       DEF ManagerNext, UpdaterStep, WorkerStep, MainStep

(* However the merges of the updater, the workers and the main thread       *)
(* overlap, no model that is made, published or sent to a rank contains     *)
(* more than the workers have received.                                     *)
THEOREM ModelsOnlyOfReceived == ManagerSpec => []NothingInvented
  <1>1. ManagerInit => TypeOK /\ Bounded
    BY TypeInit, BoundedInit
  <1>2. TypeOK /\ Bounded /\ [ManagerNext]_managerVars => (TypeOK /\ Bounded)'
    BY TypeNext, BoundedNext
  <1>3. TypeOK /\ Bounded => NothingInvented
    BY DEF Bounded, NothingInvented
  <1>4. QED BY <1>1, <1>2, <1>3, PTL DEF ManagerSpec

-----------------------------------------------------------------------------
(* GlobalNeverRegresses.                                                    *)

(* No merge before the server is set up. *)
UpdaterIdleBeforeStart == state[Main] = "starting" => state[Updater] = "idle"

LEMMA IdleInit == ManagerInit => UpdaterIdleBeforeStart
  BY ConstantFacts DEF ManagerInit, UpdaterIdleBeforeStart

LEMMA IdleNext == TypeOK /\ UpdaterIdleBeforeStart /\ [ManagerNext]_managerVars => UpdaterIdleBeforeStart'
  <1> SUFFICES ASSUME TypeOK, UpdaterIdleBeforeStart, [ManagerNext]_managerVars, state'[Main] = "starting"
               PROVE  state'[Updater] = "idle"
    BY DEF UpdaterIdleBeforeStart
  <1> USE ConstantFacts DEF UpdaterIdleBeforeStart, TypeOK
  <1>1. CASE Start \/ Tick \/ EndOfService \/ StopUpdater \/ Join
    BY <1>1 DEF Start, Tick, EndOfService, StopUpdater, Join
  <1>2. ASSUME NEW t \in Thread, Merge(t) \/ Swap(t)
        PROVE  state'[Updater] = "idle"
    BY <1>2 DEF Merge, Swap, AfterSwap
  <1>3. ASSUME NEW w \in Worker, UpdateWorker(w) \/ Answer(w)
        PROVE  state'[Updater] = "idle"
    BY <1>3 DEF UpdateWorker, Answer
  <1>4. CASE UNCHANGED managerVars
    BY <1>4 DEF managerVars
  <1>5. QED
    BY <1>1, <1>2, <1>3, <1>4 DEF ManagerNext, UpdaterStep, WorkerStep, MainStep

(* Without forced updates and until the server ends, the updater is the     *)
(* only thread that merges, and what it has merged so far is no older than  *)
(* the model it is going to replace.                                        *)
OnlyUpdaterMerges ==
  ~force =>
    /\ \A w \in Worker : state[w] # "merging"
    /\ state[Main] = "starting" => next[Updater] = 0
    /\ state[Main] \in {"starting", "serving"} =>
         \A w \in Worker : w < next[Updater] => global[w] <= new[Updater][w]

LEMMA OneMergerInit == ManagerInit => OnlyUpdaterMerges
  BY ConstantFacts, ModelFacts DEF ManagerInit, OnlyUpdaterMerges

LEMMA OneMergerNext ==
  ASSUME TypeOK, Bounded, OnlyUpdaterMerges, UpdaterIdleBeforeStart, [ManagerNext]_managerVars
  PROVE  /\ OnlyUpdaterMerges'
         /\ ~force /\ state[Main] = "serving" => AtMost(global, global')
  <1> DEFINE Goal == /\ OnlyUpdaterMerges'
                     /\ ~force /\ state[Main] = "serving" => AtMost(global, global')
  <1> USE ConstantFacts, ModelFacts
  <1>0. force' = force
    BY DEF ManagerNext, UpdaterStep, WorkerStep, MainStep, Start, Merge, Swap, Tick, UpdateWorker,
           Answer, EndOfService, StopUpdater, Join, managerVars
  <1>1. CASE Start
    <2>1. state[Main] = "starting" /\ next' = next
      BY <1>1 DEF Start
    <2>2. \A w \in Worker : state'[w] = state[w]
      BY <1>1 DEF Start, TypeOK
    <2>3. state'[Main] = "serving"
      BY <1>1 DEF Start, TypeOK
    <2>4. ~force => \A w \in Worker : ~(w < next'[Updater])
      BY <2>1 DEF OnlyUpdaterMerges
    <2>5. QED BY <1>0, <2>1, <2>2, <2>3, <2>4 DEF OnlyUpdaterMerges
  <1>2. ASSUME NEW t \in Thread, Merge(t)
        PROVE  Goal
    <2>1. state' = state /\ global' = global
      BY <1>2 DEF Merge
    <2>2. AtMost(global, global')
      BY <2>1 DEF AtMost, TypeOK
    <2>3. CASE t # Updater
      BY <1>0, <1>2, <2>1, <2>2, <2>3 DEF Merge, OnlyUpdaterMerges, TypeOK
    <2>4. CASE t = Updater
      <3>1. next'[Updater] = next[Updater] + 1 /\ next[Updater] \in Worker
        BY <1>2, <2>4 DEF Merge, TypeOK
      <3>2. \A w \in Worker :
              new'[Updater][w] = IF w = next[Updater] THEN worker[w] ELSE new[Updater][w]
        BY <1>2, <2>4 DEF Merge, TypeOK
      <3>3. ASSUME ~force, state[Main] \in {"starting", "serving"},
                   NEW w \in Worker, w < next'[Updater]
            PROVE  global[w] <= new'[Updater][w]
        <4>1. CASE w = next[Updater]
          BY <4>1, <3>2 DEF Bounded, AtMost
        <4>2. CASE w # next[Updater]
          <5>1. w \in Nat /\ next[Updater] \in Nat
            BY <3>1
          <5>2. w < next[Updater] + 1
            BY <3>1, <3>3
          <5>3. \A a, b \in Nat : a < b + 1 /\ a # b => a < b
            OBVIOUS
          <5>4. w < next[Updater]
            BY <5>1, <5>2, <5>3, <4>2
          <5>5. QED BY <4>2, <5>4, <3>2, <3>3 DEF OnlyUpdaterMerges
        <4>3. QED BY <4>1, <4>2
      <3>4. state[Main] # "starting"
        BY <1>2, <2>4 DEF Merge, UpdaterIdleBeforeStart
      <3>5. QED BY <1>0, <2>1, <2>2, <3>3, <3>4 DEF OnlyUpdaterMerges
    <2>5. QED BY <2>3, <2>4
  <1>3. ASSUME NEW t \in Thread, Swap(t)
        PROVE  Goal
    <2>1. \A w \in Worker : state'[w] = "merging" => state[w] = "merging"
      BY <1>3 DEF Swap, AfterSwap, TypeOK
    <2>2. ~force => t \notin Worker
      BY <1>3 DEF Swap, OnlyUpdaterMerges
    <2>3. CASE t = Updater
      <3>1. global' = new[Updater] /\ next'[Updater] = 0
        BY <1>3, <2>3 DEF Swap, Merged, TypeOK
      <3>2. next[Updater] = NWorkers /\ \A w \in Worker : w < NWorkers
        BY <1>3, <2>3 DEF Swap, Worker
      <3>3. ~force /\ state[Main] = "serving" => AtMost(global, global')
        BY <3>1, <3>2 DEF OnlyUpdaterMerges, AtMost
      <3>4. \A w \in Worker : ~(w < next'[Updater])
        BY <3>1
      <3>5. QED BY <1>0, <2>1, <3>1, <3>3, <3>4 DEF OnlyUpdaterMerges
    <2>4. CASE t = Main
      <3>1. state[Main] = "merging" /\ state'[Main] = "stopping"
        BY <1>3, <2>4 DEF Swap, AfterSwap, TypeOK
      <3>2. QED BY <1>0, <2>1, <3>1 DEF OnlyUpdaterMerges
    <2>5. CASE t \in Worker
      BY <1>0, <2>2, <2>5 DEF OnlyUpdaterMerges
    <2>6. QED BY <2>3, <2>4, <2>5
  <1>4. ASSUME UNCHANGED <<global, new, next>>,
               ~force => \A w \in Worker : state'[w] = "merging" => state[w] = "merging",
               state'[Main] \in {"starting", "serving"} => state[Main] = state'[Main]
        PROVE  Goal
    <2>1. AtMost(global, global')
      BY <1>4 DEF AtMost, TypeOK
    <2>2. QED BY <1>0, <1>4, <2>1 DEF OnlyUpdaterMerges
  <1>5. CASE Tick
    BY <1>4, <1>5 DEF Tick, TypeOK
  <1>6. ASSUME NEW w \in Worker, UpdateWorker(w)
        PROVE  Goal
    BY <1>4, <1>6 DEF UpdateWorker, TypeOK
  <1>7. ASSUME NEW w \in Worker, Answer(w)
        PROVE  Goal
    BY <1>4, <1>7 DEF Answer, TypeOK
  <1>8. CASE EndOfService
    BY <1>4, <1>8 DEF EndOfService, TypeOK
  <1>9. CASE StopUpdater
    BY <1>4, <1>9 DEF StopUpdater, TypeOK
  <1>10. CASE Join
    BY <1>4, <1>10 DEF Join, TypeOK
  <1>11. CASE UNCHANGED managerVars
    BY <1>4, <1>11 DEF managerVars
  <1>12. QED
    BY <1>1, <1>2, <1>3, <1>5, <1>6, <1>7, <1>8, <1>9, <1>10, <1>11
       DEF ManagerNext, UpdaterStep, WorkerStep, MainStep

(* While nobody but the updater thread makes global models, none is         *)
(* replaced by an older one.  (With forced updates one can be: see          *)
(* AnswerHasOwnUpdate.)                                                     *)
THEOREM OneMergerNeverRegresses == ManagerSpec => GlobalNeverRegresses
  <1>1. ManagerInit => TypeOK /\ Bounded /\ OnlyUpdaterMerges /\ UpdaterIdleBeforeStart
    BY TypeInit, BoundedInit, OneMergerInit, IdleInit
  <1>2. TypeOK /\ Bounded /\ OnlyUpdaterMerges /\ UpdaterIdleBeforeStart /\ [ManagerNext]_managerVars
        => (TypeOK /\ Bounded /\ OnlyUpdaterMerges /\ UpdaterIdleBeforeStart)'
    BY TypeNext, BoundedNext, OneMergerNext, IdleNext
  <1>3. TypeOK /\ Bounded /\ OnlyUpdaterMerges /\ UpdaterIdleBeforeStart /\ [ManagerNext]_managerVars
        => [~force /\ state[Main] = "serving" => AtMost(global, global')]_managerVars
    BY OneMergerNext
  <1>4. QED BY <1>1, <1>2, <1>3, PTL DEF ManagerSpec, GlobalNeverRegresses

-----------------------------------------------------------------------------
(* The provenance database.  Whether an instance ends depends on who is     *)
(* registered with it, and a client is registered only when its hello has   *)
(* arrived.  The invariant says where the hello of each writer is           *)
(* (Registered), and that once a rank has left the parameter server, an     *)
(* instance has been told to stop or has ended, no writer is still to come  *)
(* and no hello is under way (Order); where records can be (Data); and how far  *)
(* the prune is (InHand), what it has counted (Counts) and for which        *)
(* functions there are statistics to be replaced (Entries).                 *)

(* Those whose calls must not be cut off. *)
Writers == Ranks \cup {PS}
Rank0 == <<"rank", 0>>
Present(c) == client[c] \in {"on", "left"}

Types ==
  /\ setup \in Setups
  /\ inst \in [Instances -> {"off", "up", "ended", "failed", "unneeded"}]
  /\ reg \in [Instances -> SUBSET Clients] /\ had \in [Instances -> SUBSET Clients]
  /\ stopCmd \in [Instances -> BOOLEAN]
  /\ client \in [Clients -> {"start", "on", "left", "gone", "failed"}]
  /\ chan \in [Clients -> Seq({"hello", "goodbye"})]
  /\ db \in [Records -> {"none", "flight", "stored", "kept", "erased"}]
  /\ shard \in Nat /\ coll \in {"anomalies", "normalexecs"}
  /\ loaded = No \/ loaded \in SUBSET Records
  /\ update \in SUBSET Records
  /\ regen \in [Functions -> [Records -> Nat]]
  /\ funcStats \in UNION {[F -> [Records -> Nat]] : F \in SUBSET Functions}

(* The hello of a writer is still to come, under way, or has registered it  *)
(* with an instance that is up.                                             *)
Written(c) ==
  /\ client[c] \in {"start", "failed"} /\ (c = PS => client[c] = "start") =>
       chan[c] = <<>> /\ c \notin had[InstanceOf(c)]
  /\ Present(c) =>
       /\ inst[InstanceOf(c)] = "up"
       /\ \/ chan[c] = <<"hello">> /\ c \notin had[InstanceOf(c)]
          \/ chan[c] = <<>> /\ c \in reg[InstanceOf(c)]

Registered ==
  /\ \A c \in Writers : Written(c)
  /\ \A i \in Instances : \A c \in had[i] : InstanceOf(c) = i

(* No writer is still to come, and no hello of one is under way. *)
Arrived == \A c \in Writers : client[c] # "start" /\ (Present(c) => chan[c] = <<>>)

RankLeft == \E c \in Ranks : client[c] \in {"left", "gone"}

Order ==
  /\ RankLeft => Arrived
  /\ \A i \in Instances : stopCmd[i] \/ inst[i] = "ended" => Arrived
  /\ client[PS] = "left" => RankLeft
  /\ client[Rank0] # "failed"
  /\ inst[0] \notin {"failed", "unneeded"}
  /\ client[PS] = "failed" => ShardInstance(shard) # 0

(* Records are under way only while their rank is there.                    *)
Data ==
  \A x \in Records :
    /\ db[x] # "none" => <<"rank", RankOf[x]>> \in Ranks
    /\ db[x] = "flight" => Present(<<"rank", RankOf[x]>>)

(* The records that the pruner has in hand have not been evaluated yet, and *)
(* those that it has evaluated are of a collection that it has read.        *)
ToEvaluate == {x \in Records : db[x] = "stored" /\ ShardOf(x) = shard /\ CollectionOf(x) = coll}
Read(x) ==
  \/ ShardOf(x) < shard
  \/ ShardOf(x) = shard /\ CollectionOf(x) = "anomalies" /\ coll = "normalexecs"
  \/ ShardOf(x) = shard /\ CollectionOf(x) = coll /\ loaded # No

InHand ==
  /\ loaded = No => update = {}
  /\ loaded # No => loaded \cup update \subseteq ToEvaluate /\ loaded \cap update = {}
  /\ \A x \in Records : db[x] = "kept" => Read(x)
  /\ client[PS] \in {"start", "on"} => loaded = No /\ \A x \in Records : db[x] # "kept"

(* What the pruner has counted is what it has kept.                         *)
Counted(f, x) == IF FuncOf[x] = f /\ x \in Anomalies /\ db[x] = "kept" THEN 1 ELSE 0
Counts == \A f \in Functions, x \in Records : regen[f][x] = Counted(f, x)

(* The statistics that it replaces when it is done have an entry for every  *)
(* function of which there is a record.                                     *)
Entries ==
  /\ client[PS] \in {"left", "gone"} =>
       /\ \A c \in Ranks : client[c] \notin {"start", "on"}
       /\ \A x \in Found : FuncOf[x] \in DOMAIN funcStats
  /\ client[PS] = "gone" /\ setup.prune => \A f \in DOMAIN funcStats : funcStats[f] = regen[f]

IInv == Types /\ Registered /\ Order /\ Data /\ InHand /\ Counts /\ Entries

-----------------------------------------------------------------------------
(* How shards are divided.                                                  *)

LEMMA Division ==
  ASSUME NEW a \in Int, NEW b \in Nat \ {0}
  PROVE  /\ a \div b \in Int /\ a % b \in 0 .. b - 1
         /\ a = (b * (a \div b)) + (a % b)
  OBVIOUS

LEMMA NothingDivided ==
  ASSUME NEW b \in Nat \ {0}
  PROVE  0 \div b = 0 /\ 0 % b = 0
<1> DEFINE d == 0 \div b
           r == 0 % b
<1>1. d \in Int /\ r \in 0 .. b - 1 /\ 0 = (b * d) + r
  BY Division
<1> HIDE DEF d, r
<1>2. d = 0
  BY <1>1
<1>3. r = 0
  BY <1>1, <1>2
<1> QED
  BY <1>2, <1>3 DEF d, r

(* The quotient that is rounded up. *)
LEMMA RoundedUp ==
  ASSUME NEW S \in Nat \ {0}, NEW I \in Nat \ {0}, NEW q \in Int, NEW r \in 0 .. I - 1,
         S + I - 1 = (I * q) + r
  PROVE  q \in 1 .. S /\ S <= q * I
<1>1. q > 0
  OBVIOUS
<1>2. q <= S
  OBVIOUS
<1>3. S <= q * I
  OBVIOUS
<1> QED
  BY <1>1, <1>2, <1>3

LEMMA QuotientBound ==
  ASSUME NEW S \in Nat \ {0}, NEW I \in Nat \ {0}, NEW q \in Nat \ {0}, S <= q * I,
         NEW s \in 0 .. S - 1, NEW d \in Int, NEW r \in 0 .. q - 1, s = (q * d) + r
  PROVE  d \in 0 .. I - 1
<1>1. d >= 0
  OBVIOUS
<1>2. d < I
  OBVIOUS
<1> QED
  BY <1>1, <1>2

LEMMA SetupFacts ==
  ASSUME setup \in Setups
  PROVE  /\ setup.ranks \in Nat \ {0} /\ setup.shards \in Nat \ {0} /\ setup.instances \in Nat \ {0}
         /\ PerInstance \in 1 .. setup.shards /\ setup.shards <= PerInstance * setup.instances
<1>1. setup.ranks \in Nat \ {0} /\ setup.shards \in Nat \ {0} /\ setup.instances \in Nat \ {0}
  BY SetupsAssumption
<1> DEFINE n == setup.shards + setup.instances - 1
<1>2. n \in Int
  BY <1>1
<1> HIDE DEF n
<1>3. /\ n \div setup.instances \in Int /\ n % setup.instances \in 0 .. setup.instances - 1
      /\ n = (setup.instances * (n \div setup.instances)) + (n % setup.instances)
  BY <1>1, <1>2, Division
<1>4. PerInstance = n \div setup.instances
  BY DEF PerInstance, n
<1>5. setup.shards + setup.instances - 1 = (setup.instances * PerInstance) + (n % setup.instances)
  BY <1>3, <1>4 DEF n
<1> QED
  BY <1>1, <1>3, <1>4, <1>5, RoundedUp

(* Every shard has an instance. *)
LEMMA ShardHasInstance ==
  ASSUME setup \in Setups, NEW s \in 0 .. setup.shards - 1
  PROVE  ShardInstance(s) \in Instances
<1>1. /\ setup.shards \in Nat \ {0} /\ setup.instances \in Nat \ {0}
      /\ PerInstance \in Nat \ {0} /\ setup.shards <= PerInstance * setup.instances
  BY SetupFacts
<1>2. s \in Int
  BY <1>1
<1>3. /\ s \div PerInstance \in Int /\ s % PerInstance \in 0 .. PerInstance - 1
      /\ s = (PerInstance * (s \div PerInstance)) + (s % PerInstance)
  BY <1>1, <1>2, Division
<1>4. s \div PerInstance \in 0 .. setup.instances - 1
  BY <1>1, <1>3, QuotientBound
<1> QED
  BY <1>4 DEF ShardInstance, Instances

(* The first shard is the first instance's, which never fails. *)
LEMMA FirstInstance ==
  ASSUME setup \in Setups
  PROVE  0 \in Instances /\ ShardInstance(0) = 0 /\ Serviceable(0)
<1>1. /\ setup.shards \in Nat \ {0} /\ setup.instances \in Nat \ {0}
      /\ PerInstance \in 1 .. setup.shards
  BY SetupFacts
<1> DEFINE P == PerInstance
           n == NShards(0)
<1>2. P \in Nat \ {0} /\ P <= setup.shards /\ P * 0 = 0
  BY <1>1
<1>3. n \in 0 .. setup.shards
  BY <1>1, <1>2 DEF NShards
<1>4. ShardsOf(0) = {P * 0 + k : k \in 0 .. n - 1}
  BY DEF ShardsOf
<1>5. ShardsOf(0) \subseteq 0 .. setup.shards - 1
  BY <1>1, <1>2, <1>3, <1>4
<1>6. 0 \div P = 0
  BY <1>2, NothingDivided
<1> QED
  BY <1>1, <1>3, <1>5, <1>6 DEF Instances, ShardInstance, Serviceable

-----------------------------------------------------------------------------
(* Who there is, and the instance of each.                                  *)

LEMMA Population ==
  ASSUME setup \in Setups
  PROVE  /\ 0 \in Instances /\ Serviceable(0)
         /\ Rank0 \in Ranks /\ PS \notin Ranks /\ Writers \subseteq Clients
         /\ Committers \subseteq Clients /\ Committers \cap Writers = {}
         /\ InstanceOf(PS) = 0 /\ InstanceOf(Rank0) = 0
         /\ \A c \in Clients : InstanceOf(c) \in Instances
<1>1. 0 \in Instances /\ Serviceable(0) /\ ShardInstance(0) = 0
  BY FirstInstance
<1>2. setup.ranks \in Nat \ {0} /\ setup.shards \in Nat \ {0}
  BY SetupFacts
<1>3. 0 \in 0 .. setup.ranks - 1 /\ 0 % setup.shards = 0
  BY <1>2, NothingDivided
<1>4. Rank0 \in Ranks
  BY <1>3 DEF Ranks, Rank0
<1>5. PS \notin Ranks /\ Committers \cap Writers = {}
  BY DEF Ranks, PS, Committers, Writers
<1>6. InstanceOf(PS) = 0
  BY <1>5 DEF InstanceOf, PS
<1>7. InstanceOf(Rank0) = 0
  BY <1>1, <1>3, <1>4 DEF InstanceOf, Rank0
<1>8. ASSUME NEW c \in Clients PROVE InstanceOf(c) \in Instances
  <2>1. CASE c \in Ranks
    <3>1. PICK r \in 0 .. setup.ranks - 1 : c = <<"rank", r>>
      BY <2>1 DEF Ranks
    <3>2. c[2] \in Int
      BY <1>2, <3>1
    <3>3. c[2] % setup.shards \in 0 .. setup.shards - 1
      BY <1>2, <3>2, Division
    <3> QED
      BY <2>1, <3>3, ShardHasInstance DEF InstanceOf
  <2>2. CASE c = PS
    BY <1>1, <1>6, <2>2
  <2>3. CASE c \in Committers
    <3>1. PICK i \in Instances : c = <<"committer", i>>
      BY <2>3 DEF Committers
    <3>2. c \notin Ranks
      BY <1>5, <2>3 DEF Writers
    <3> QED
      BY <3>1, <3>2 DEF InstanceOf
  <2> QED
    BY <2>1, <2>2, <2>3 DEF Clients
<1> QED
  BY <1>1, <1>4, <1>5, <1>6, <1>7, <1>8 DEF Clients, Writers

(* The command line does not change, nor what follows from it. *)
LEMMA SetupKept ==
  ASSUME setup' = setup
  PROVE  /\ Instances' = Instances /\ Ranks' = Ranks /\ Clients' = Clients /\ Writers' = Writers
         /\ Committers' = Committers
         /\ \A c : InstanceOf(c)' = InstanceOf(c)
  BY DEF Instances, Ranks, Clients, Writers, Committers, InstanceOf, ShardInstance, PerInstance

LEMMA NextKeepsSetup ==
  ASSUME [Next]_vars
  PROVE  setup' = setup
  BY DEF Next, vars, server, pruning, Instance, Client, PServer, StartInstance, EndInstance,
         StopServer, Handle, Connect, LeavePS, Disconnect, CommitterChecks, SendRecord, Store,
         ServiceEnds, Prune, LoadShard, EraseRecords, AmendRecords, NextCollection, PruneFails,
         PSDisconnects

(* The steps of clients, of instances and of the parameter server, one by one. *)
LEMMA Steps ==
  ASSUME Next
  PROVE  \/ \E i \in Instances : StartInstance(i) \/ EndInstance(i) \/ StopServer(i)
         \/ \E c \in Clients : Handle(c) \/ Connect(c) \/ CommitterChecks(c)
         \/ \E c \in Clients : LeavePS(c) \/ Disconnect(c)
         \/ \E c \in Clients : \E x \in Records : SendRecord(c, x)
         \/ \E x \in Records : Store(x)
         \/ ServiceEnds \/ LoadShard \/ AmendRecords \/ NextCollection \/ PruneFails \/ PSDisconnects
         \/ \E f \in Functions : EraseRecords(f)
  BY DEF Next, Instance, Client, PServer, Prune

-----------------------------------------------------------------------------
(* Types.                                                                   *)

LEMMA InitInv == Init => IInv
<1> SUFFICES ASSUME Init PROVE IInv
  OBVIOUS
<1>0. setup \in Setups
  BY DEF Init
<1>1. Types
  <2>1. Blank \in [Records -> Nat]
    BY DEF Blank
  <2>2. funcStats \in [{} -> [Records -> Nat]]
    BY DEF Init
  <2>3. funcStats \in UNION {[F -> [Records -> Nat]] : F \in SUBSET Functions}
    BY <2>2
  <2>4. regen \in [Functions -> [Records -> Nat]]
    BY <2>1 DEF Init
  <2>5. /\ shard \in Nat /\ coll \in {"anomalies", "normalexecs"}
        /\ loaded = No /\ update \in SUBSET Records
    BY DEF Init
  <2>6. \A c \in Clients : chan[c] \in Seq({"hello", "goodbye"})
    BY DEF Init
  <2>7. chan \in [Clients -> Seq({"hello", "goodbye"})]
    BY <2>6 DEF Init
  <2>8. /\ inst \in [Instances -> {"off", "up", "ended", "failed", "unneeded"}]
        /\ reg \in [Instances -> SUBSET Clients] /\ had \in [Instances -> SUBSET Clients]
        /\ stopCmd \in [Instances -> BOOLEAN]
        /\ client \in [Clients -> {"start", "on", "left", "gone", "failed"}]
        /\ db \in [Records -> {"none", "flight", "stored", "kept", "erased"}]
    BY DEF Init
  <2> QED
    BY <1>0, <2>3, <2>4, <2>5, <2>7, <2>8 DEF Types
<1>2. /\ 0 \in Instances /\ Rank0 \in Clients /\ PS \in Clients /\ Writers \subseteq Clients
      /\ \A c \in Clients : InstanceOf(c) \in Instances
  BY <1>0, Population DEF Writers
<1>3. /\ \A c \in Clients : client[c] = "start" /\ chan[c] = <<>>
      /\ \A i \in Instances : had[i] = {} /\ inst[i] = "off" /\ ~stopCmd[i]
  BY DEF Init
<1>4. Registered
  BY <1>2, <1>3 DEF Registered, Written, Present
<1>5. Order
  BY <1>2, <1>3 DEF Order, RankLeft, Clients
<1>6. Data
  BY DEF Init, Data
<1>7. InHand
  BY DEF Init, InHand
<1>8. Counts
  BY DEF Init, Counts, Counted, Blank
<1>9. Entries
  BY <1>2, <1>3 DEF Entries
<1> QED
  BY <1>1, <1>4, <1>5, <1>6, <1>7, <1>8, <1>9 DEF IInv

LEMMA HeadTail ==
  ASSUME NEW S, NEW s \in Seq(S), s # <<>>
  PROVE  Head(s) \in S /\ Tail(s) \in Seq(S)
  OBVIOUS

LEMMA Messages ==
  /\ \A s \in Seq({"hello", "goodbye"}) :
       Append(s, "hello") \in Seq({"hello", "goodbye"}) /\ Append(s, "goodbye") \in Seq({"hello", "goodbye"})
  /\ Append(<<>>, "hello") = <<"hello">>
  /\ <<"hello">> # <<>> /\ Head(<<"hello">>) = "hello" /\ Tail(<<"hello">>) = <<>>
  OBVIOUS

LEMMA PushedType ==
  /\ Blank \in [Records -> Nat]
  /\ \A stats \in [Records -> Nat] : \A S : Pushed(stats, S) \in [Records -> Nat]
  BY DEF Blank, Pushed

LEMMA TypesStep ==
  ASSUME Types, [Next]_vars
  PROVE  Types'
<1>0. /\ setup' = setup /\ setup \in Setups
      /\ Instances' = Instances /\ Clients' = Clients
      /\ \A c \in Clients : InstanceOf(c) \in Instances
      /\ PS \in Clients
  BY NextKeepsSetup, SetupKept, Population DEF Types, Writers
<1> USE <1>0 DEF Types, server, pruning
<1>1. ASSUME NEW i \in Instances, StartInstance(i) PROVE Types'
  BY <1>1 DEF StartInstance
<1>2. ASSUME NEW i \in Instances, EndInstance(i) PROVE Types'
  BY <1>2 DEF EndInstance
<1>3. ASSUME NEW i \in Instances, StopServer(i) PROVE Types'
  BY <1>3 DEF StopServer
<1>4. ASSUME NEW c \in Clients, Handle(c) PROVE Types'
  <2>1. Tail(chan[c]) \in Seq({"hello", "goodbye"})
    BY <1>4, HeadTail DEF Handle
  <2>2. chan' \in [Clients -> Seq({"hello", "goodbye"})]
    BY <1>4, <2>1 DEF Handle
  <2>3. reg' \in [Instances -> SUBSET Clients] /\ had' \in [Instances -> SUBSET Clients]
    BY <1>4 DEF Handle
  <2> QED
    BY <1>4, <2>2, <2>3 DEF Handle
<1>5. ASSUME NEW c \in Clients, Connect(c) PROVE Types'
  <2>1. CASE inst[InstanceOf(c)] = "up"
    <3>1. Become(c, "on") /\ Call(c, "hello")
      BY <1>5, <2>1 DEF Connect
    <3>2. chan' \in [Clients -> Seq({"hello", "goodbye"})]
      BY <3>1, Messages DEF Call
    <3>3. client' \in [Clients -> {"start", "on", "left", "gone", "failed"}]
      BY <3>1 DEF Become
    <3> QED
      BY <1>5, <3>2, <3>3 DEF Connect
  <2>2. CASE inst[InstanceOf(c)] # "up"
    BY <1>5, <2>2 DEF Connect, Become
  <2> QED
    BY <2>1, <2>2
<1>6. ASSUME NEW c \in Clients, CommitterChecks(c) PROVE Types'
  <2>1. CASE Become(c, "gone") /\ Call(c, "goodbye")
    BY <1>6, <2>1, Messages DEF CommitterChecks, Become, Call
  <2>2. CASE Become(c, "failed") /\ UNCHANGED chan
    BY <1>6, <2>2 DEF CommitterChecks, Become
  <2> QED
    BY <1>6, <2>1, <2>2 DEF CommitterChecks
<1>7. ASSUME NEW c \in Clients, LeavePS(c) PROVE Types'
  BY <1>7 DEF LeavePS, Become
<1>8. ASSUME NEW c \in Clients, Disconnect(c) PROVE Types'
  BY <1>8, Messages DEF Disconnect, Become, Call
<1>9. ASSUME NEW c \in Clients, NEW x \in Records, SendRecord(c, x) PROVE Types'
  BY <1>9 DEF SendRecord
<1>10. ASSUME NEW x \in Records, Store(x) PROVE Types'
  BY <1>10 DEF Store
<1>11. CASE ServiceEnds
  <2> DEFINE F == {FuncOf[x] : x \in Found}
  <2>1. F \subseteq Functions
    BY DEF Found, Functions
  <2>2. funcStats' \in [F -> [Records -> Nat]]
    BY <1>11, PushedType DEF ServiceEnds
  <2>3. shard' \in Nat /\ client' \in [Clients -> {"start", "on", "left", "gone", "failed"}]
    BY <1>11, SetupFacts DEF ServiceEnds, Become
  <2> HIDE DEF F
  <2>4. funcStats' \in UNION {[G -> [Records -> Nat]] : G \in SUBSET Functions}
    BY <2>1, <2>2
  <2> QED
    BY <1>11, <2>3, <2>4 DEF ServiceEnds
<1>12. CASE LoadShard
  <2>1. loaded' \in SUBSET Records
    BY <1>12 DEF LoadShard, InDatabase
  <2> QED
    BY <1>12, <2>1 DEF LoadShard
<1>13. ASSUME NEW f \in Functions, EraseRecords(f) PROVE Types'
  <2>1. loaded' \in SUBSET Records /\ update' \in SUBSET Records
    BY <1>13 DEF EraseRecords
  <2>2. db' \in [Records -> {"none", "flight", "stored", "kept", "erased"}]
    BY <1>13 DEF EraseRecords
  <2> QED
    BY <1>13, <2>1, <2>2 DEF EraseRecords
<1>14. CASE AmendRecords
  <2>1. db' \in [Records -> {"none", "flight", "stored", "kept", "erased"}]
    BY <1>14 DEF AmendRecords
  <2>2. regen' \in [Functions -> [Records -> Nat]]
    BY <1>14, PushedType DEF AmendRecords
  <2> QED
    BY <1>14, <2>1, <2>2 DEF AmendRecords
<1>15. CASE NextCollection
  BY <1>15 DEF NextCollection
<1>16. CASE PruneFails
  BY <1>16 DEF PruneFails, Become
<1>17. CASE PSDisconnects
  <2>1. PICK F \in SUBSET Functions : funcStats \in [F -> [Records -> Nat]]
    OBVIOUS
  <2>2. funcStats' \in [F -> [Records -> Nat]]
    BY <1>17, <2>1 DEF PSDisconnects
  <2>3. /\ client' \in [Clients -> {"start", "on", "left", "gone", "failed"}]
        /\ chan' \in [Clients -> Seq({"hello", "goodbye"})]
    BY <1>17, Messages DEF PSDisconnects, Become, Call
  <2>4. funcStats' \in UNION {[G -> [Records -> Nat]] : G \in SUBSET Functions}
    BY <2>2
  <2> QED
    BY <1>17, <2>3, <2>4 DEF PSDisconnects
<1>18. CASE UNCHANGED vars
  BY <1>18 DEF vars
<1> QED
  BY <1>1, <1>2, <1>3, <1>4, <1>5, <1>6, <1>7, <1>8, <1>9, <1>10, <1>11, <1>12, <1>13, <1>14,
     <1>15, <1>16, <1>17, <1>18, Steps

-----------------------------------------------------------------------------
(* What any step does to a client and to an instance.                       *)

LEMMA Becomes ==
  ASSUME Types, NEW c \in Clients, NEW s, Become(c, s)
  PROVE  client'[c] = s /\ \A d \in Clients : d # c => client'[d] = client[d]
  BY DEF Types, Become

LEMMA Calls ==
  ASSUME Types, NEW c \in Clients, NEW name, Call(c, name)
  PROVE  chan'[c] = Append(chan[c], name) /\ \A d \in Clients : d # c => chan'[d] = chan[d]
  BY DEF Types, Call

(* A client takes its course, one step at a time. *)
LEMMA ClientCourse ==
  ASSUME Types, [Next]_vars, NEW c \in Clients
  PROVE  \/ client'[c] = client[c] /\ (chan'[c] = chan[c] \/ Handle(c))
         \/ /\ Connect(c) /\ client[c] = "start" /\ inst[InstanceOf(c)] # "off"
            /\ \/ inst[InstanceOf(c)] = "up" /\ client'[c] = "on"
               \/ inst[InstanceOf(c)] # "up" /\ client'[c] = "failed"
         \/ LeavePS(c) /\ client[c] = "on" /\ client'[c] = "left" /\ chan'[c] = chan[c]
         \/ Disconnect(c) /\ client[c] = "left" /\ client'[c] = "gone"
         \/ c = PS /\ ServiceEnds /\ client[c] = "on" /\ client'[c] = "left" /\ chan'[c] = chan[c]
         \/ c = PS /\ PSDisconnects /\ client[c] = "left" /\ client'[c] = "gone"
         \/ c = PS /\ PruneFails /\ client[c] = "left" /\ client'[c] = "failed"
         \/ c \in Committers
<1> USE DEF server, pruning
<1>0. PS \in Clients
  BY DEF Clients
<1>1. ASSUME NEW i \in Instances, StartInstance(i) \/ EndInstance(i) \/ StopServer(i)
      PROVE  client' = client /\ chan' = chan
  BY <1>1 DEF StartInstance, EndInstance, StopServer
<1>2. ASSUME NEW d \in Clients, Handle(d)
      PROVE  client' = client /\ (chan'[c] = chan[c] \/ d = c)
  BY <1>2 DEF Handle, Types
<1>3. ASSUME NEW d \in Clients, Connect(d)
      PROVE  \/ client'[c] = client[c] /\ chan'[c] = chan[c]
             \/ /\ d = c /\ client[c] = "start" /\ inst[InstanceOf(c)] # "off"
                /\ \/ inst[InstanceOf(c)] = "up" /\ client'[c] = "on"
                   \/ inst[InstanceOf(c)] # "up" /\ client'[c] = "failed"
  <2>1. CASE inst[InstanceOf(d)] = "up"
    BY <1>3, <2>1, Becomes, Calls DEF Connect, Is
  <2>2. CASE inst[InstanceOf(d)] # "up"
    BY <1>3, <2>2, Becomes DEF Connect, Is
  <2> QED
    BY <2>1, <2>2
<1>4. ASSUME NEW d \in Clients, CommitterChecks(d)
      PROVE  c \in Committers \/ (client'[c] = client[c] /\ chan'[c] = chan[c])
  BY <1>4, Becomes, Calls DEF CommitterChecks
<1>5. ASSUME NEW d \in Clients, LeavePS(d)
      PROVE  \/ client'[c] = client[c] /\ chan'[c] = chan[c]
             \/ d = c /\ client[c] = "on" /\ client'[c] = "left" /\ chan'[c] = chan[c]
  BY <1>5, Becomes DEF LeavePS, Is
<1>6. ASSUME NEW d \in Clients, Disconnect(d)
      PROVE  \/ client'[c] = client[c] /\ chan'[c] = chan[c]
             \/ d = c /\ client[c] = "left" /\ client'[c] = "gone"
  BY <1>6, Becomes, Calls DEF Disconnect, Is
<1>7. ASSUME NEW d \in Clients, NEW x \in Records, SendRecord(d, x)
      PROVE  client' = client /\ chan' = chan
  BY <1>7 DEF SendRecord
<1>8. ASSUME NEW x \in Records, Store(x)
      PROVE  client' = client /\ chan' = chan
  BY <1>8 DEF Store
<1>9. CASE ServiceEnds
  BY <1>0, <1>9, Becomes DEF ServiceEnds, Is
<1>10. CASE PruneFails
  BY <1>0, <1>10, Becomes DEF PruneFails, Is
<1>11. CASE LoadShard \/ AmendRecords \/ NextCollection \/ \E f \in Functions : EraseRecords(f)
  BY <1>11 DEF LoadShard, EraseRecords, AmendRecords, NextCollection
<1>12. CASE PSDisconnects
  BY <1>0, <1>12, Becomes, Calls DEF PSDisconnects, Is
<1>13. CASE UNCHANGED vars
  BY <1>13 DEF vars
<1> QED
  BY <1>1, <1>2, <1>3, <1>4, <1>5, <1>6, <1>7, <1>8, <1>9, <1>10, <1>11, <1>12, <1>13, Steps

LEMMA InstanceCourse ==
  ASSUME Types, [Next]_vars, NEW i \in Instances
  PROVE  /\ inst'[i] = inst[i] \/ StartInstance(i) \/ EndInstance(i)
         /\ stopCmd'[i] = stopCmd[i] \/ StopServer(i)
<1> USE DEF server, pruning, Types
<1>1. ASSUME NEW j \in Instances, StartInstance(j) \/ EndInstance(j) \/ StopServer(j)
      PROVE  /\ inst'[i] = inst[i] \/ (j = i /\ (StartInstance(j) \/ EndInstance(j)))
             /\ stopCmd'[i] = stopCmd[i] \/ (j = i /\ StopServer(j))
  BY <1>1 DEF StartInstance, EndInstance, StopServer
<1>2. ASSUME NEW c \in Clients, Handle(c) \/ Connect(c) \/ CommitterChecks(c) \/ LeavePS(c) \/ Disconnect(c)
      PROVE  inst' = inst /\ stopCmd' = stopCmd
  BY <1>2 DEF Handle, Connect, CommitterChecks, LeavePS, Disconnect
<1>3. ASSUME NEW c \in Clients, NEW x \in Records, SendRecord(c, x)
      PROVE  inst' = inst /\ stopCmd' = stopCmd
  BY <1>3 DEF SendRecord
<1>4. ASSUME NEW x \in Records, Store(x)
      PROVE  inst' = inst /\ stopCmd' = stopCmd
  BY <1>4 DEF Store
<1>5. CASE ServiceEnds \/ Prune \/ PSDisconnects \/ UNCHANGED vars
  BY <1>5 DEF ServiceEnds, Prune, LoadShard, EraseRecords, AmendRecords, NextCollection, PruneFails,
     PSDisconnects, vars
<1> QED
  BY <1>1, <1>2, <1>3, <1>4, <1>5, Steps DEF Prune

(* Which steps change what the pruner knows. *)
LEMMA PruneCourse ==
  ASSUME [Next]_vars
  PROVE  \/ UNCHANGED pruning /\ ~LoadShard /\ ~AmendRecords /\ ~\E f \in Functions : EraseRecords(f)
         \/ ServiceEnds \/ LoadShard \/ AmendRecords \/ NextCollection \/ PSDisconnects
         \/ \E f \in Functions : EraseRecords(f)
<1>1. ASSUME NEW i \in Instances, StartInstance(i) \/ EndInstance(i) \/ StopServer(i)
      PROVE  UNCHANGED pruning
  BY <1>1 DEF StartInstance, EndInstance, StopServer
<1>2. ASSUME NEW c \in Clients, Handle(c) \/ Connect(c) \/ CommitterChecks(c) \/ LeavePS(c) \/ Disconnect(c)
      PROVE  UNCHANGED pruning
  BY <1>2 DEF Handle, Connect, CommitterChecks, LeavePS, Disconnect
<1>3. ASSUME NEW c \in Clients, NEW x \in Records, SendRecord(c, x)
      PROVE  UNCHANGED pruning
  BY <1>3 DEF SendRecord
<1>4. ASSUME NEW x \in Records, Store(x)
      PROVE  UNCHANGED pruning
  BY <1>4 DEF Store
<1>5. PruneFails \/ UNCHANGED vars => UNCHANGED pruning
  BY DEF PruneFails, vars
<1> QED
  BY <1>1, <1>2, <1>3, <1>4, <1>5, Steps

LEMMA ShardCourse ==
  ASSUME [Next]_vars
  PROVE  shard' = shard \/ client[PS] = "left" \/ ServiceEnds
BY PruneCourse DEF pruning, LoadShard, EraseRecords, AmendRecords, NextCollection, PSDisconnects, Is

(* What becomes of a record. *)
LEMMA RecordCourse ==
  ASSUME Types, InHand, [Next]_vars, NEW x \in Records
  PROVE  \/ db'[x] = db[x]
         \/ \E c \in Clients : SendRecord(c, x) /\ db[x] = "none" /\ db'[x] = "flight"
         \/ db'[x] = "stored" /\ db[x] = "flight"
         \/ \E f \in Functions : EraseRecords(f) /\ db'[x] = "erased" /\ db[x] = "stored"
         \/ AmendRecords /\ db'[x] = "kept" /\ db[x] = "stored"
<1> USE DEF server, pruning, Types
<1>1. ASSUME NEW j \in Instances, StartInstance(j) \/ EndInstance(j) \/ StopServer(j)
      PROVE  db' = db
  BY <1>1 DEF StartInstance, EndInstance, StopServer
<1>2. ASSUME NEW d \in Clients, Handle(d) \/ Connect(d) \/ CommitterChecks(d) \/ LeavePS(d) \/ Disconnect(d)
      PROVE  db' = db
  BY <1>2 DEF Handle, Connect, CommitterChecks, LeavePS, Disconnect
<1>3. ASSUME NEW d \in Clients, NEW y \in Records, SendRecord(d, y)
      PROVE  db'[x] = db[x] \/ (y = x /\ db[x] = "none" /\ db'[x] = "flight")
  BY <1>3 DEF SendRecord
<1>4. ASSUME NEW y \in Records, Store(y)
      PROVE  db'[x] = db[x] \/ (db'[x] = "stored" /\ db[x] = "flight")
  BY <1>4 DEF Store
<1>5. ASSUME NEW f \in Functions, EraseRecords(f)
      PROVE  db'[x] = db[x] \/ (db'[x] = "erased" /\ db[x] = "stored")
  <2>1. loaded \subseteq ToEvaluate
    BY <1>5 DEF EraseRecords, InHand
  <2> QED
    BY <1>5, <2>1 DEF EraseRecords, ToEvaluate
<1>6. ASSUME AmendRecords
      PROVE  db'[x] = db[x] \/ (db'[x] = "kept" /\ db[x] = "stored")
  <2>1. update \subseteq ToEvaluate
    BY <1>6 DEF AmendRecords, InHand
  <2> QED
    BY <1>6, <2>1 DEF AmendRecords, ToEvaluate
<1>7. CASE ServiceEnds \/ LoadShard \/ NextCollection \/ PruneFails \/ PSDisconnects \/ UNCHANGED vars
  BY <1>7 DEF ServiceEnds, LoadShard, NextCollection, PruneFails, PSDisconnects, vars
<1> QED
  BY <1>1, <1>2, <1>3, <1>4, <1>5, <1>6, <1>7, Steps

(* A record that was found is of a rank, whose shard is a number. *)
LEMMA FoundShard ==
  ASSUME Types, Data, NEW x \in Records, db[x] # "none"
  PROVE  ShardOf(x) \in Int
<1>1. setup.ranks \in Nat \ {0} /\ setup.shards \in Nat \ {0}
  BY SetupFacts DEF Types
<1>2. PICK r \in 0 .. setup.ranks - 1 : <<"rank", RankOf[x]>> = <<"rank", r>>
  BY DEF Data, Ranks
<1>3. RankOf[x] \in Int
  BY <1>1, <1>2
<1>4. RankOf[x] % setup.shards \in 0 .. setup.shards - 1
  BY <1>1, <1>3, Division
<1>5. RankOf[x] % setup.shards \in Int
  BY <1>1, <1>4
<1> QED
  BY <1>5 DEF ShardOf

-----------------------------------------------------------------------------
(* Once everybody has arrived they stay, and nobody leaves an instance that *)
(* ends.                                                                    *)

LEMMA ArrivedStable ==
  ASSUME Types, Arrived, [Next]_vars
  PROVE  Arrived'
<1>1. setup' = setup /\ Writers' = Writers /\ Writers \subseteq Clients /\ Committers \cap Writers = {}
  BY NextKeepsSetup, SetupKept, Population DEF Types
<1> SUFFICES ASSUME NEW c \in Writers
             PROVE  client'[c] # "start" /\ (client'[c] \in {"on", "left"} => chan'[c] = <<>>)
  BY <1>1 DEF Arrived, Present
<1>2. c \in Clients /\ c \notin Committers
  BY <1>1
<1>3. client[c] # "start" /\ (client[c] \in {"on", "left"} => chan[c] = <<>>)
  BY DEF Arrived, Present
<1>4. Handle(c) => chan[c] # <<>>
  BY DEF Handle
<1> QED
  BY <1>2, <1>3, <1>4, ClientCourse

LEMMA LastToLeave ==
  ASSUME Types, Registered, Order, NEW i \in Instances, EndInstance(i)
  PROVE  Arrived /\ \A c \in Writers : Present(c) => InstanceOf(c) # i
<1>0. Writers \subseteq Clients /\ Ranks \subseteq Writers /\ PS \notin Ranks
  BY Population DEF Types, Writers
<1>1. reg[i] = {} /\ (stopCmd[i] \/ had[i] \cap Ranks # {})
  BY DEF EndInstance
<1>2. Arrived
  <2>1. CASE stopCmd[i]
    BY <2>1 DEF Order
  <2>2. CASE had[i] \cap Ranks # {}
    <3>1. PICK c \in had[i] \cap Ranks : TRUE
      BY <2>2
    <3>2. InstanceOf(c) = i /\ Written(c) /\ c # PS /\ c \in Clients
      BY <1>0, <3>1 DEF Registered
    <3>3. client[c] \notin {"start", "failed", "on", "left"}
      BY <1>1, <3>1, <3>2 DEF Written, Present
    <3>4. client[c] = "gone"
      BY <3>2, <3>3 DEF Types
    <3> QED
      BY <3>1, <3>4 DEF Order, RankLeft
  <2> QED
    BY <1>1, <2>1, <2>2
<1>3. ASSUME NEW c \in Writers, Present(c) PROVE InstanceOf(c) # i
  <2>1. chan[c] = <<>> /\ Written(c)
    BY <1>2, <1>3 DEF Arrived, Registered
  <2>2. c \in reg[InstanceOf(c)]
    BY <1>3, <2>1, Messages DEF Written
  <2> QED
    BY <1>1, <2>2
<1> QED
  BY <1>2, <1>3

(* Whoever is guarded by Attached finds that everybody has arrived. *)
LEMMA AttachedArrived ==
  ASSUME Types, Order, Attached, \A c \in Writers : client[c] # "start"
  PROVE  Arrived
<1>0. Writers \subseteq Clients
  BY Population DEF Types
<1>1. CASE RankLeft
  BY <1>1 DEF Order
<1>2. CASE ~RankLeft
  <2>1. \A c \in Writers : client[c] # "left"
    BY <1>2 DEF Order, RankLeft, Writers
  <2> QED
    BY <1>0, <2>1 DEF Attached, Arrived, Present, Is
<1> QED
  BY <1>1, <1>2

LEMMA OrderStep ==
  ASSUME Types, Registered, Order, [Next]_vars
  PROVE  Order'
<1>0. /\ setup' = setup /\ setup \in Setups /\ Writers' = Writers /\ Ranks' = Ranks /\ Instances' = Instances
      /\ Writers \subseteq Clients /\ Committers \cap Writers = {} /\ PS \notin Ranks
      /\ Rank0 \in Ranks /\ 0 \in Instances /\ Serviceable(0)
      /\ InstanceOf(Rank0) = 0
      /\ \A c \in Ranks : c \in Writers /\ c \in Clients /\ c \notin Committers /\ c # PS
  BY NextKeepsSetup, SetupKept, Population DEF Types, Writers
<1>1. Arrived => Arrived'
  BY ArrivedStable
<1>2. RankLeft' <=> \E c \in Ranks : client'[c] \in {"left", "gone"}
  BY <1>0 DEF RankLeft
<1>3. RankLeft => RankLeft'
  <2> SUFFICES ASSUME NEW c \in Ranks, client[c] \in {"left", "gone"}
               PROVE  client'[c] \in {"left", "gone"}
    BY <1>2 DEF RankLeft
  <2> QED
    BY <1>0, ClientCourse
<1>4. RankLeft' => Arrived'
  <2> SUFFICES ASSUME NEW c \in Ranks, client'[c] \in {"left", "gone"}, ~RankLeft
               PROVE  Arrived
    BY <1>1, <1>2 DEF Order
  <2>1. client[c] \notin {"left", "gone"}
    BY DEF RankLeft
  <2>2. LeavePS(c)
    BY <1>0, <2>1, ClientCourse
  <2>3. Attached /\ \A d \in Writers : client[d] # "start"
    BY <2>2 DEF LeavePS, Is, Writers
  <2> QED
    BY <2>3, AttachedArrived
<1>5. ASSUME NEW i \in Instances, stopCmd'[i] \/ inst'[i] = "ended"
      PROVE  Arrived'
  <2>1. CASE stopCmd[i] \/ inst[i] = "ended"
    BY <1>1, <2>1 DEF Order
  <2>2. CASE StopServer(i)
    <3>1. Attached /\ \A c \in Writers : client[c] # "start"
      BY <1>0, <2>2 DEF StopServer, Is
    <3> QED
      BY <1>1, <3>1, AttachedArrived
  <2>3. CASE EndInstance(i)
    BY <1>1, <2>3, LastToLeave
  <2>4. CASE StartInstance(i)
    <3>1. inst'[i] \in {"unneeded", "up", "failed"} /\ stopCmd' = stopCmd
      BY <2>4 DEF StartInstance, Types
    <3> QED
      BY <1>5, <2>1, <3>1
  <2> QED
    BY <1>5, <2>1, <2>2, <2>3, <2>4, InstanceCourse
<1>6. client'[PS] = "left" => RankLeft'
  <2>1. CASE client[PS] = "left"
    BY <1>3, <2>1 DEF Order
  <2>2. CASE ServiceEnds
    <3>1. client[Rank0] \notin {"start", "on", "failed"}
      BY <1>0, <2>2 DEF ServiceEnds, Is, Order
    <3>2. client[Rank0] \in {"left", "gone"}
      BY <1>0, <3>1 DEF Types
    <3> QED
      BY <1>0, <1>3, <3>2 DEF RankLeft
  <2>3. PS \in Clients /\ PS \notin Committers
    BY <1>0 DEF Writers
  <2>4. LeavePS(PS) => FALSE
    BY <1>0 DEF LeavePS
  <2> QED
    BY <2>1, <2>2, <2>3, <2>4, ClientCourse
<1>7. client'[Rank0] # "failed"
  <2> SUFFICES ASSUME client'[Rank0] = "failed" PROVE FALSE
    OBVIOUS
  <2>1. client[Rank0] = "start" /\ inst[0] \notin {"off", "up"}
    BY <1>0, ClientCourse DEF Order
  <2>2. inst[0] = "ended"
    BY <1>0, <2>1 DEF Types, Order
  <2>3. Arrived
    BY <1>0, <2>2 DEF Order
  <2> QED
    BY <1>0, <2>1, <2>3 DEF Arrived
<1>8. inst'[0] \notin {"failed", "unneeded"}
  <2>1. CASE StartInstance(0)
    BY <1>0, <2>1 DEF StartInstance, Types
  <2>2. CASE EndInstance(0)
    BY <1>0, <2>2 DEF EndInstance, Types
  <2> QED
    BY <1>0, <2>1, <2>2, InstanceCourse DEF Order
<1>9. client'[PS] = "failed" => ShardInstance(shard)' # 0
  <2> SUFFICES ASSUME client'[PS] = "failed" PROVE ShardInstance(shard)' # 0
    OBVIOUS
  <2>1. PS \in Clients /\ PS \notin Committers /\ PS \in Writers /\ InstanceOf(PS) = 0
    BY <1>0, Population DEF Writers, Types
  <2>2. client[PS] # "start"
    <3> SUFFICES ASSUME client[PS] = "start" PROVE FALSE
      OBVIOUS
    <3>1. inst[0] \notin {"off", "up"}
      BY <2>1, ClientCourse
    <3>2. inst[0] = "ended"
      BY <1>0, <3>1 DEF Types, Order
    <3> QED
      BY <1>0, <2>1, <3>2 DEF Order, Arrived
  <2>3. shard' = shard \/ client[PS] \in {"left", "on"}
    BY ShardCourse DEF ServiceEnds, Is
  <2>4. CASE client[PS] = "failed"
    BY <1>0, <2>3, <2>4 DEF Order, ShardInstance, PerInstance
  <2>5. CASE PruneFails
    <3>1. inst[0] = "up"
      BY <2>1, <2>5 DEF PruneFails, Is, Registered, Written, Present
    <3> QED
      BY <1>0, <2>5, <3>1 DEF PruneFails, Reached, pruning, ShardInstance, PerInstance
  <2> QED
    BY <2>1, <2>2, <2>4, <2>5, ClientCourse
<1> QED
  BY <1>0, <1>4, <1>5, <1>6, <1>7, <1>8, <1>9 DEF Order

-----------------------------------------------------------------------------
(* Where the hello of a writer is.                                          *)

LEMMA RegisterCourse ==
  ASSUME Types, [Next]_vars, NEW c \in Clients
  PROVE  \/ Handle(c)
         \/ \A i \in Instances : /\ c \in had'[i] <=> c \in had[i]
                                 /\ c \in reg'[i] <=> c \in reg[i]
<1> USE DEF server, pruning, Types
<1>1. ASSUME NEW j \in Instances, StartInstance(j) \/ EndInstance(j) \/ StopServer(j)
      PROVE  reg' = reg /\ had' = had
  BY <1>1 DEF StartInstance, EndInstance, StopServer
<1>2. ASSUME NEW d \in Clients, Handle(d), d # c, NEW i \in Instances
      PROVE  /\ c \in had'[i] <=> c \in had[i]
             /\ c \in reg'[i] <=> c \in reg[i]
  <2> DEFINE j == InstanceOf(d)
  <2>1. /\ had' = [had EXCEPT ![j] = IF Head(chan[d]) = "hello" THEN @ \cup {d} ELSE @]
        /\ reg' = [reg EXCEPT ![j] = IF Head(chan[d]) = "hello" THEN @ \cup {d} ELSE @ \ {d}]
    BY <1>2 DEF Handle
  <2> HIDE DEF j
  <2>2. i = j \/ (had'[i] = had[i] /\ reg'[i] = reg[i])
    BY <2>1
  <2>3. i = j => had'[i] \in {had[i], had[i] \cup {d}} /\ reg'[i] \in {reg[i] \cup {d}, reg[i] \ {d}}
    BY <2>1
  <2> QED
    BY <1>2, <2>2, <2>3
<1>3. ASSUME NEW d \in Clients, Connect(d) \/ CommitterChecks(d) \/ LeavePS(d) \/ Disconnect(d)
      PROVE  reg' = reg /\ had' = had
  BY <1>3 DEF Connect, CommitterChecks, LeavePS, Disconnect
<1>4. ASSUME NEW d \in Clients, NEW x \in Records, SendRecord(d, x)
      PROVE  reg' = reg /\ had' = had
  BY <1>4 DEF SendRecord
<1>5. ASSUME NEW x \in Records, Store(x)
      PROVE  reg' = reg /\ had' = had
  BY <1>5 DEF Store
<1>6. CASE ServiceEnds \/ Prune \/ PSDisconnects \/ UNCHANGED vars
  BY <1>6 DEF ServiceEnds, Prune, LoadShard, EraseRecords, AmendRecords, NextCollection, PruneFails,
     PSDisconnects, vars
<1> QED
  BY <1>1, <1>2, <1>3, <1>4, <1>5, <1>6, Steps DEF Prune

(* The handler of a hello, or of a goodbye. *)
LEMMA HandleEffect ==
  ASSUME Types, NEW c \in Clients, Handle(c)
  PROVE  /\ chan[c] # <<>> /\ chan'[c] = Tail(chan[c]) /\ client' = client
         /\ Head(chan[c]) = "hello" => c \in reg'[InstanceOf(c)]
         /\ \A i \in Instances : had'[i] \subseteq had[i] \cup (IF i = InstanceOf(c) THEN {c} ELSE {})
<1>1. InstanceOf(c) \in Instances
  BY Population DEF Types
<1> QED
  BY <1>1 DEF Handle, Types

LEMMA WrittenStep ==
  ASSUME Types, Registered, Order, [Next]_vars, NEW c \in Writers
  PROVE  Written(c)'
<1>0. /\ setup' = setup /\ Writers \subseteq Clients /\ Committers \cap Writers = {}
      /\ InstanceOf(c)' = InstanceOf(c) /\ InstanceOf(c) \in Instances
      /\ c \in Clients /\ c \notin Committers
  BY NextKeepsSetup, SetupKept, Population DEF Types
<1> DEFINE i == InstanceOf(c)
<1>1. Written(c)
  BY DEF Registered
<1>2. Present(c) => inst'[i] = "up"
  <2> SUFFICES ASSUME Present(c) PROVE inst'[i] = "up"
    OBVIOUS
  <2>1. inst[i] = "up"
    BY <1>1 DEF Written
  <2>2. ~StartInstance(i)
    BY <2>1 DEF StartInstance
  <2>3. ~EndInstance(i)
    BY <1>0, LastToLeave
  <2> QED
    BY <1>0, <2>1, <2>2, <2>3, InstanceCourse
<1>3. CASE Handle(c)
  <2>1. /\ chan[c] # <<>> /\ chan'[c] = Tail(chan[c]) /\ client' = client
        /\ Head(chan[c]) = "hello" => c \in reg'[i]
    BY <1>0, <1>3, HandleEffect
  <2>2. ~(client[c] \in {"start", "failed"} /\ (c = PS => client[c] = "start"))
    BY <1>1, <2>1 DEF Written
  <2>3. Present(c) => chan[c] = <<"hello">>
    BY <1>1, <2>1 DEF Written
  <2>4. Present(c) => chan'[c] = <<>> /\ c \in reg'[i]
    BY <2>1, <2>3, Messages
  <2> HIDE DEF i
  <2> QED
    BY <1>0, <1>2, <2>1, <2>2, <2>4 DEF Written, Present, i
<1>4. CASE ~Handle(c)
  <2>1. /\ c \in had'[i] <=> c \in had[i]
        /\ c \in reg'[i] <=> c \in reg[i]
    BY <1>0, <1>4, RegisterCourse
  <2>2. CASE client'[c] = client[c] /\ chan'[c] = chan[c]
    BY <1>0, <1>1, <1>2, <2>1, <2>2 DEF Written, Present
  <2>3. CASE Connect(c) /\ client[c] = "start"
    <3>1. chan[c] = <<>> /\ c \notin had[i]
      BY <1>1, <2>3 DEF Written
    <3>2. CASE inst[i] = "up"
      <4>1. Become(c, "on") /\ Call(c, "hello") /\ inst' = inst
        BY <2>3, <3>2 DEF Connect, server
      <4>2. client'[c] = "on" /\ chan'[c] = <<"hello">>
        BY <1>0, <3>1, <4>1, Becomes, Calls, Messages
      <4> QED
        BY <1>0, <2>1, <3>1, <3>2, <4>1, <4>2 DEF Written, Present
    <3>3. CASE inst[i] # "up"
      <4>1. client'[c] = "failed" /\ chan' = chan
        BY <1>0, <2>3, <3>3, Becomes DEF Connect
      <4> QED
        BY <1>0, <2>1, <3>1, <4>1 DEF Written, Present
    <3> QED
      BY <3>2, <3>3
  <2>4. CASE client[c] = "on" /\ client'[c] = "left" /\ chan'[c] = chan[c]
    BY <1>0, <1>1, <1>2, <2>1, <2>4 DEF Written, Present
  <2>5. CASE client'[c] = "gone" \/ (c = PS /\ client'[c] = "failed")
    BY <2>5 DEF Written, Present
  <2> QED
    BY <1>0, <1>4, <2>2, <2>3, <2>4, <2>5, ClientCourse
<1> QED
  BY <1>3, <1>4

LEMMA RegisteredStep ==
  ASSUME Types, Registered, Order, [Next]_vars
  PROVE  Registered'
<1>0. /\ Writers' = Writers /\ Instances' = Instances /\ \A c : InstanceOf(c)' = InstanceOf(c)
  BY NextKeepsSetup, SetupKept
<1>1. \A c \in Writers : Written(c)'
  BY WrittenStep
<1>2. ASSUME NEW i \in Instances, NEW c \in had'[i]
      PROVE  InstanceOf(c) = i
  <2>1. CASE c \in had[i]
    BY <2>1 DEF Registered
  <2>2. CASE c \notin had[i]
    <3>1. c \in Clients
      <4>1. Types' /\ Clients' = Clients
        BY TypesStep, NextKeepsSetup, SetupKept
      <4> QED
        BY <1>0, <1>2, <4>1 DEF Types
    <3>2. Handle(c)
      BY <1>2, <2>2, <3>1, RegisterCourse
    <3> QED
      BY <1>2, <2>2, <3>1, <3>2, HandleEffect
  <2> QED
    BY <2>1, <2>2
<1> QED
  BY <1>0, <1>1, <1>2 DEF Registered

-----------------------------------------------------------------------------
(* The records.                                                             *)

LEMMA DataStep ==
  ASSUME Types, Data, InHand, [Next]_vars
  PROVE  Data'
<1>0. /\ setup' = setup /\ Ranks' = Ranks /\ PS \in Clients /\ PS \notin Committers
      /\ \A c \in Ranks : c \in Clients /\ c \notin Committers /\ c # PS
      /\ \A c \in Clients \ Ranks : \A r : c # <<"rank", r>>
  <2>1. \A c \in {PS} \cup Committers : \A r : c # <<"rank", r>>
    BY DEF PS, Committers
  <2> QED
    BY <2>1, NextKeepsSetup, SetupKept, Population DEF Types, Writers, Clients
<1> SUFFICES ASSUME NEW x \in Records, db'[x] # "none"
             PROVE  LET c == <<"rank", RankOf[x]>> IN
                    c \in Ranks /\ (db'[x] = "flight" => client'[c] \in {"on", "left"})
  BY <1>0 DEF Data, Present
<1> DEFINE c == <<"rank", RankOf[x]>>
<1>1. ASSUME NEW d \in Clients, SendRecord(d, x) PROVE c \in Ranks /\ client[c] \in {"on", "left"}
  <2>1. c = d /\ client[c] = "on"
    BY <1>1 DEF SendRecord, Of, Is
  <2> QED
    BY <1>0, <2>1
<1>2. /\ db'[x] = "flight" => db[x] = "flight" \/ \E d \in Clients : SendRecord(d, x)
      /\ db[x] # "none" \/ \E d \in Clients : SendRecord(d, x)
  BY RecordCourse
<1>3. c \in Ranks /\ (db'[x] = "flight" => client[c] \in {"on", "left"})
  BY <1>1, <1>2 DEF Data, Present
<1>4. ASSUME Disconnect(c) PROVE db'[x] # "flight"
  BY <1>4 DEF Disconnect, InFlight, Of
<1> QED
  BY <1>0, <1>3, <1>4, ClientCourse

(* Ranks that have left do not come back, nor does the parameter server. *)
LEMMA NobodyReturns ==
  ASSUME Types, [Next]_vars
  PROVE  /\ \A c \in Ranks : client'[c] \in {"start", "on"} => client[c] \in {"start", "on"}
         /\ client'[PS] \in {"start", "on"} => client[PS] \in {"start", "on"}
         /\ client'[PS] = "left" => client[PS] = "left" \/ ServiceEnds
         /\ client'[PS] = "gone" => client[PS] = "gone" \/ PSDisconnects
<1>1. /\ PS \in Clients /\ PS \notin Committers /\ PS \notin Ranks
      /\ \A c \in Ranks : c \in Clients /\ c \notin Committers
  BY Population DEF Types, Writers
<1>2. ~LeavePS(PS) /\ ~Disconnect(PS)
  BY <1>1 DEF LeavePS, Disconnect
<1> QED
  BY <1>1, <1>2, ClientCourse

(* Records that are found, or stored, are none that the prune has seen. *)
LEMMA OutsideCourse ==
  ASSUME Types, InHand, [Next]_vars, UNCHANGED pruning, ~LoadShard, ~AmendRecords,
         ~\E f \in Functions : EraseRecords(f), NEW x \in Records
  PROVE  /\ db'[x] = "kept" <=> db[x] = "kept"
         /\ db[x] = "stored" => db'[x] = "stored"
         /\ db'[x] # "none" /\ db[x] = "none" => \E c \in Ranks : client[c] = "on"
<1>1. ASSUME NEW c \in Clients, SendRecord(c, x)
      PROVE  client[c] = "on" /\ c \in Ranks /\ db[x] = "none" /\ db'[x] = "flight"
  <2>1. client[c] = "on" /\ c = <<"rank", RankOf[x]>> /\ db[x] = "none" /\ db'[x] = "flight"
    BY <1>1 DEF SendRecord, Of, Is, Types
  <2> QED
    BY <2>1 DEF Clients, PS, Committers
<1> QED
  BY <1>1, RecordCourse

LEMMA InHandStep ==
  ASSUME Types, Data, InHand, [Next]_vars
  PROVE  InHand'
<1>0. /\ setup' = setup /\ setup.shards \in Nat \ {0}
      /\ \A x : ShardOf(x)' = ShardOf(x) /\ CollectionOf(x)' = CollectionOf(x)
      /\ \A x : CollectionOf(x) \in {"anomalies", "normalexecs"}
  BY NextKeepsSetup, SetupFacts DEF Types, ShardOf, CollectionOf
<1>1. \A S \in SUBSET Records : S # No
  BY RecordsAssumption DEF No
<1>2. CASE UNCHANGED pruning /\ ~LoadShard /\ ~AmendRecords /\ ~\E f \in Functions : EraseRecords(f)
  <2>1. UNCHANGED <<shard, coll, loaded, update>>
    BY <1>2 DEF pruning
  <2>2. ToEvaluate \subseteq ToEvaluate'
    BY <1>0, <1>2, <2>1, OutsideCourse DEF ToEvaluate
  <2>3. \A x \in Records : Read(x)' = Read(x)
    BY <1>0, <2>1 DEF Read
  <2>4. \A x \in Records : db'[x] = "kept" <=> db[x] = "kept"
    BY <1>2, OutsideCourse
  <2> QED
    BY <2>1, <2>2, <2>3, <2>4, NobodyReturns DEF InHand
<1>3. CASE ServiceEnds
  <2>1. loaded = No /\ update = {} /\ \A x \in Records : db[x] # "kept"
    BY <1>3 DEF ServiceEnds, Is, InHand
  <2> QED
    BY <1>3, <2>1 DEF ServiceEnds, InHand
<1>4. CASE LoadShard
  <2>1. client' = client /\ client[PS] = "left" /\ loaded = No /\ update' = update /\ update = {}
    BY <1>4 DEF LoadShard, Is, InHand
  <2>2. db' = db /\ shard' = shard /\ coll' = coll
    BY <1>4 DEF LoadShard
  <2>3. ASSUME NEW x \in Records, db[x] = "kept"
        PROVE  Read(x)' /\ ~(ShardOf(x) = shard /\ CollectionOf(x) = coll)
    <3>1. \/ ShardOf(x) < shard
          \/ ShardOf(x) = shard /\ CollectionOf(x) = "anomalies" /\ coll = "normalexecs"
      BY <2>1, <2>3 DEF InHand, Read
    <3>2. ShardOf(x) \in Int /\ shard \in Int
      BY <2>3, FoundShard DEF Types
    <3> QED
      BY <1>0, <2>2, <3>1, <3>2 DEF Read
  <2>4. loaded' \subseteq ToEvaluate'
    BY <1>0, <1>4, <2>2, <2>3 DEF LoadShard, InDatabase, ToEvaluate
  <2> QED
    BY <2>1, <2>2, <2>3, <2>4 DEF InHand
<1>5. ASSUME NEW f \in Functions, EraseRecords(f) PROVE InHand'
  <2> DEFINE data == {x \in loaded : FuncOf[x] = f}
  <2>1. /\ client[PS] = "left" /\ client' = client /\ loaded # No /\ update = {}
        /\ shard' = shard /\ coll' = coll /\ update' = data \cap Stays /\ loaded' = loaded \ data
        /\ db' = [x \in Records |-> IF x \in data \ Stays THEN "erased" ELSE db[x]]
    BY <1>5 DEF EraseRecords, Is
  <2>2. loaded \subseteq ToEvaluate
    BY <2>1 DEF InHand
  <2>3. loaded \subseteq Records
    BY <2>2 DEF ToEvaluate
  <2>4. loaded' # No /\ loaded' \cap update' = {}
    BY <1>1, <2>1, <2>3
  <2>5. loaded' \cup update' \subseteq ToEvaluate'
    <3>1. \A x \in loaded' \cup update' : x \in ToEvaluate /\ db'[x] = db[x]
      BY <2>1, <2>2, <2>3
    <3> QED
      BY <1>0, <2>1, <3>1 DEF ToEvaluate
  <2>6. ASSUME NEW x \in Records, db'[x] = "kept" PROVE Read(x)'
    <3>1. Read(x)
      BY <2>1, <2>6 DEF InHand
    <3> QED
      BY <1>0, <2>1, <2>4, <3>1 DEF Read
  <2> QED
    BY <2>1, <2>4, <2>5, <2>6 DEF InHand
<1>6. CASE AmendRecords
  <2>1. /\ client[PS] = "left" /\ client' = client /\ update # {} /\ update' = {} /\ loaded' = loaded
        /\ shard' = shard /\ coll' = coll
        /\ db' = [x \in Records |-> IF x \in update THEN "kept" ELSE db[x]]
    BY <1>6 DEF AmendRecords, Is
  <2>2. loaded # No
    BY <2>1 DEF InHand
  <2>3. loaded \cup update \subseteq ToEvaluate /\ loaded \cap update = {}
    BY <2>2 DEF InHand
  <2>4. loaded' \subseteq ToEvaluate'
    <3>1. \A x \in loaded : x \in ToEvaluate /\ db'[x] = db[x]
      BY <2>1, <2>3 DEF ToEvaluate
    <3> QED
      BY <1>0, <2>1, <3>1 DEF ToEvaluate
  <2>5. ASSUME NEW x \in Records, db'[x] = "kept" PROVE Read(x)'
    <3>1. x \in update \/ Read(x)
      BY <2>1, <2>5 DEF InHand
    <3>2. x \in update => ShardOf(x) = shard /\ CollectionOf(x) = coll
      BY <2>3 DEF ToEvaluate
    <3> QED
      BY <1>0, <2>1, <2>2, <3>1, <3>2 DEF Read
  <2> QED
    BY <2>1, <2>2, <2>4, <2>5 DEF InHand
<1>7. CASE NextCollection
  <2>1. /\ client[PS] = "left" /\ client' = client /\ update = {} /\ update' = {} /\ loaded' = No
        /\ db' = db
        /\ \/ coll = "anomalies" /\ coll' = "normalexecs" /\ shard' = shard
           \/ coll # "anomalies" /\ coll' = "anomalies" /\ shard' = shard + 1
    BY <1>7 DEF NextCollection, Is
  <2>2. ASSUME NEW x \in Records, db'[x] = "kept" PROVE Read(x)'
    <3>1. Read(x)
      BY <2>1, <2>2 DEF InHand
    <3>2. ShardOf(x) \in Int /\ shard \in Int /\ coll \in {"anomalies", "normalexecs"}
      BY <2>1, <2>2, FoundShard DEF Types
    <3>3. CASE coll = "anomalies"
      BY <1>0, <2>1, <3>1, <3>2, <3>3 DEF Read
    <3>4. CASE coll # "anomalies"
      <4>1. ShardOf(x) < shard + 1
        BY <3>1, <3>2 DEF Read
      <4> QED
        BY <1>0, <2>1, <3>4, <4>1 DEF Read
    <3> QED
      BY <3>3, <3>4
  <2> QED
    BY <2>1, <2>2 DEF InHand
<1>8. CASE PSDisconnects
  <2>1. UNCHANGED <<db, shard, coll, loaded, update>>
    BY <1>8 DEF PSDisconnects
  <2>2. ToEvaluate' = ToEvaluate /\ \A x \in Records : Read(x)' = Read(x)
    BY <1>0, <2>1 DEF ToEvaluate, Read
  <2> QED
    BY <2>1, <2>2, NobodyReturns DEF InHand
<1> QED
  BY <1>2, <1>3, <1>4, <1>5, <1>6, <1>7, <1>8, PruneCourse

(* Each record is counted when it is amended, which happens to it once. *)
LEMMA CountsStep ==
  ASSUME Types, InHand, Counts, [Next]_vars
  PROVE  Counts'
<1>1. CASE AmendRecords
  <2>1. /\ update # {} /\ coll' = coll
        /\ db' = [x \in Records |-> IF x \in update THEN "kept" ELSE db[x]]
        /\ regen' = IF coll # "anomalies" THEN regen
                    ELSE [f \in Functions |-> Pushed(regen[f], {x \in update : FuncOf[x] = f})]
    BY <1>1 DEF AmendRecords
  <2>2. update \subseteq ToEvaluate
    BY <2>1 DEF InHand
  <2>3. \A x \in update : db[x] = "stored" /\ (x \in Anomalies <=> coll = "anomalies")
    BY <2>2 DEF ToEvaluate, CollectionOf
  <2> SUFFICES ASSUME NEW f \in Functions, NEW x \in Records
               PROVE  regen'[f][x] = Counted(f, x)'
    BY DEF Counts
  <2>4. regen[f][x] = Counted(f, x)
    BY DEF Counts
  <2>5. CASE x \in update /\ FuncOf[x] = f /\ coll = "anomalies"
    <3>1. Counted(f, x) = 0 /\ Counted(f, x)' = 1
      BY <2>1, <2>3, <2>5 DEF Counted
    <3>2. regen'[f][x] = regen[f][x] + 1
      BY <2>1, <2>5 DEF Pushed
    <3> QED
      BY <2>4, <3>1, <3>2
  <2>6. CASE ~(x \in update /\ FuncOf[x] = f /\ coll = "anomalies")
    <3>1. Counted(f, x)' = Counted(f, x)
      BY <2>1, <2>3, <2>6 DEF Counted
    <3>2. Counted(f, x) \in Nat
      BY DEF Counted
    <3>3. regen'[f][x] = regen[f][x]
      <4>1. CASE coll # "anomalies"
        BY <2>1, <4>1
      <4>2. CASE coll = "anomalies"
        <5>1. regen'[f][x] = regen[f][x] + 0
          BY <2>1, <2>6, <4>2 DEF Pushed
        <5> QED
          BY <2>4, <3>2, <5>1
      <4> QED
        BY <4>1, <4>2
    <3> QED
      BY <2>4, <3>1, <3>3
  <2> QED
    BY <2>5, <2>6
<1>2. CASE ~AmendRecords
  <2>1. \A x \in Records : db'[x] = "kept" <=> db[x] = "kept"
    BY <1>2, RecordCourse
  <2>2. regen' = regen
    BY <1>2, PruneCourse DEF pruning, ServiceEnds, LoadShard, EraseRecords, NextCollection, PSDisconnects
  <2> QED
    BY <2>1, <2>2 DEF Counts, Counted
<1> QED
  BY <1>1, <1>2

LEMMA EntriesStep ==
  ASSUME Types, InHand, Entries, [Next]_vars
  PROVE  Entries'
<1>0. /\ setup' = setup /\ Ranks' = Ranks /\ Ranks \subseteq Clients /\ PS \in Clients /\ PS \notin Ranks
  BY NextKeepsSetup, SetupKept, Population DEF Types, Writers
<1>1. ASSUME client'[PS] \in {"left", "gone"}, client[PS] \in {"left", "gone"}
      PROVE  /\ \A c \in Ranks : client'[c] \notin {"start", "on"}
             /\ \A x \in Found' : FuncOf[x] \in DOMAIN funcStats'
  <2>1. /\ \A c \in Ranks : client[c] \notin {"start", "on"}
        /\ \A x \in Found : FuncOf[x] \in DOMAIN funcStats
    BY <1>1 DEF Entries
  <2>2. \A c \in Ranks : client'[c] \notin {"start", "on"}
    BY <2>1, NobodyReturns
  <2>3. ~ServiceEnds
    BY <1>1 DEF ServiceEnds, Is
  <2>4. DOMAIN funcStats' = DOMAIN funcStats
    BY <2>3, PruneCourse DEF pruning, LoadShard, EraseRecords, AmendRecords, NextCollection, PSDisconnects
  <2>5. ASSUME NEW x \in Records, db'[x] # "none" PROVE db[x] # "none"
    <3>1. ASSUME NEW c \in Clients, SendRecord(c, x) PROVE FALSE
      <4>1. c = <<"rank", RankOf[x]>> /\ client[c] = "on"
        BY <3>1 DEF SendRecord, Of, Is
      <4>2. c \in Ranks
        BY <4>1 DEF Clients, PS, Committers
      <4> QED
        BY <2>1, <4>1, <4>2
    <3> QED
      BY <2>5, <3>1, RecordCourse
  <2>6. Found' \subseteq Found
    BY <2>5 DEF Found
  <2> QED
    BY <2>1, <2>2, <2>4, <2>6
<1>2. CASE ServiceEnds
  <2>1. /\ client' = [client EXCEPT ![PS] = "left"] /\ db' = db
        /\ \A c \in Ranks : client[c] \notin {"start", "on"}
        /\ DOMAIN funcStats' = {FuncOf[x] : x \in Found}
    BY <1>2 DEF ServiceEnds, Become, Is
  <2>2. client'[PS] = "left" /\ \A c \in Ranks : client'[c] = client[c]
    BY <1>0, <2>1 DEF Types
  <2>3. Found' = Found
    BY <2>1 DEF Found
  <2> QED
    BY <1>0, <2>1, <2>2, <2>3 DEF Entries
<1>3. CASE PSDisconnects
  <2>1. client[PS] = "left"
    BY <1>3 DEF PSDisconnects, Is
  <2>2. setup.prune => \A f \in DOMAIN funcStats' : funcStats'[f] = regen'[f]
    BY <1>3 DEF PSDisconnects
  <2> QED
    BY <1>0, <1>1, <2>1, <2>2 DEF Entries
<1>4. CASE ~ServiceEnds /\ ~PSDisconnects
  <2>1. client'[PS] \in {"left", "gone"} => client'[PS] = client[PS]
    BY <1>4, NobodyReturns
  <2>2. client[PS] = "gone" => UNCHANGED pruning
    BY <1>4, PruneCourse DEF LoadShard, EraseRecords, AmendRecords, NextCollection, Is
  <2> QED
    BY <1>0, <1>1, <2>1, <2>2 DEF Entries, pruning
<1> QED
  BY <1>2, <1>3, <1>4

-----------------------------------------------------------------------------
LEMMA IInvStep == IInv /\ [Next]_vars => IInv'
  BY TypesStep, RegisteredStep, OrderStep, DataStep, InHandStep, CountsStep, EntriesStep DEF IInv

LEMMA IInvHolds == Spec => []IInv
  BY InitInv, IInvStep, PTL DEF Spec

LEMMA WritersHaveInstances == IInv => NobodyCutOff
<1> SUFFICES ASSUME IInv PROVE NobodyCutOff
  OBVIOUS
<1>1. \A c \in Ranks \cup {PS} : client[c] \in {"on", "left"} => inst[InstanceOf(c)] = "up"
  BY DEF IInv, Registered, Written, Present, Writers
<1>2. client[PS] = "failed" => ShardInstance(shard) # InstanceOf(PS)
  BY Population DEF IInv, Order, Types
<1> QED
  BY <1>1, <1>2 DEF NobodyCutOff, Is

(* However many ranks, shards and instances there are, and in whatever      *)
(* order hellos, goodbyes and the stop command arrive, an instance that a   *)
(* rank or the parameter server is connected to has not ended               *)
(* (provdb_admin's loop, ADProvenanceDBclient, ProvDBclient). *)
THEOREM ConnectionsLast == Spec => []NobodyCutOff
  BY IInvHolds, WritersHaveInstances, PTL

(* Every record that a rank has sent arrives: its instance is there while   *)
(* it is under way, and a rank waits for its records before the goodbye     *)
(* (AnomalousSendManager::waitAll, ProvDBclient::disconnect). *)
THEOREM SentRecordsArrive == Spec => []RecordsArrive
<1>1. IInv => RecordsArrive
  <2> SUFFICES ASSUME IInv, NEW x \in Records, db[x] = "flight"
               PROVE  /\ inst[ShardInstance(ShardOf(x))] = "up"
                      /\ client[<<"rank", RankOf[x]>>] # "gone"
    BY DEF RecordsArrive, Is
  <2> DEFINE c == <<"rank", RankOf[x]>>
  <2>1. c \in Ranks /\ client[c] \in {"on", "left"}
    BY DEF IInv, Data, Present
  <2>2. inst[InstanceOf(c)] = "up"
    BY <2>1, WritersHaveInstances DEF NobodyCutOff
  <2>3. InstanceOf(c) = ShardInstance(ShardOf(x))
    BY <2>1 DEF InstanceOf, ShardOf
  <2> QED
    BY <2>1, <2>2, <2>3
<1> QED
  BY <1>1, IInvHolds, PTL

(* The statistics that the prune leaves are those of the anomalies that it  *)
(* has kept, each counted once although shards and collections are read one *)
(* after the other and a function has records in many: a record that has    *)
(* been evaluated is never in hand again, and every function of which a     *)
(* record was kept has an entry to be replaced                              *)
(* (recordDataSetLabelsInternal, ProvDBprune::finalize). *)
THEOREM PrunedStatistics == Spec => []StatisticsOfKept
<1>1. ASSUME IInv, client[PS] = "gone", setup.prune
      PROVE  /\ \A f \in DOMAIN funcStats, x \in Records : funcStats[f][x] = Counted(f, x)
             /\ \A x \in Records : db[x] = "kept" => FuncOf[x] \in DOMAIN funcStats
  <2>1. \A f \in DOMAIN funcStats : f \in Functions /\ funcStats[f] = regen[f]
    BY <1>1 DEF IInv, Entries, Types
  <2>2. \A x \in Records : db[x] = "kept" => FuncOf[x] \in DOMAIN funcStats
    BY <1>1 DEF IInv, Entries, Found
  <2> QED
    BY <1>1, <2>1, <2>2 DEF IInv, Counts
<1>2. IInv => StatisticsOfKept
  <2> SUFFICES ASSUME IInv, client[PS] = "gone", setup.prune PROVE StatisticsOfKept
    BY DEF StatisticsOfKept, Is
  <2>1. \A f \in DOMAIN funcStats, x \in Records :
          funcStats[f][x] = IF FuncOf[x] = f /\ x \in Anomalies /\ db[x] = "kept" THEN 1 ELSE 0
    BY <1>1 DEF Counted
  <2>2. \A x \in Records : db[x] = "kept" => FuncOf[x] \in DOMAIN funcStats
    BY <1>1
  <2>3. \A x \in Anomalies : db[x] = "kept" => FuncOf[x] \in DOMAIN funcStats
    BY <2>2, RecordsAssumption
  <2> QED
    BY <2>1, <2>3 DEF StatisticsOfKept
<1> QED
  BY <1>2, IInvHolds, PTL

=============================================================================
