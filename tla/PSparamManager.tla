----------------------------- MODULE PSparamManager -----------------------------
(***************************************************************************)
(* The model of the parameter server (PSparamManager).  Every worker thread *)
(* of the server adds what the AD ranks send to parameters of its own; the  *)
(* global model is made anew from all of them, by an updater thread once    *)
(* per period, by the main thread when the server ends, and by the workers  *)
(* too when updates are forced.                                             *)
(*                                                                          *)
(* Parameters are additive statistics, so that what matters of a worker's   *)
(* is how many updates have gone into it, and of a global model how many of *)
(* each worker's updates it contains.  The model restored from a file is    *)
(* worth Restored updates.  Abstracted: the algorithm, serialization, and   *)
(* the period of the updater thread.                                        *)
(***************************************************************************)
EXTENDS Naturals, FiniteSets

CONSTANTS
  NWorkers,    \* size of m_worker_params
  MaxUpdates,  \* bound: updates received by a worker
  Restored     \* weight of the model restored at the start, 0 for none

Worker == 0 .. NWorkers - 1
Main == NWorkers
Updater == NWorkers + 1
Thread == 0 .. NWorkers + 1

ASSUME PSparamManagerAssumption ==
  /\ NWorkers \in Nat \ {0}
  /\ MaxUpdates \in Nat
  /\ Restored \in Nat

VARIABLES
  force,      \* m_force_update, given on the command line
  worker,     \* worker[w]: m_worker_params[w]
  global,     \* m_global_params, and m_latest_global_params
  state,      \* state[t]: what thread t is doing
  new,        \* new[t]: new_glob_params of updateGlobalModel in t
  next,       \* next[t]: the worker whose parameters t merges next
  answer,     \* answer[w]: the model last returned by updateWorkerModel in w
  nUpdates,   \* nUpdates[w]: updates received by w
  exit        \* m_updater_exit

managerVars == <<force, worker, global, state, new, next, answer, nUpdates, exit>>

Zero == [w \in Worker |-> 0]
AtMost(f, g) == \A w \in Worker : f[w] <= g[w]

ManagerInit ==
  /\ force \in BOOLEAN
  /\ worker = Zero
  /\ global = Zero
  /\ state = [t \in Thread |-> IF t = Main THEN "starting" ELSE "idle"]
  /\ new = [t \in Thread |-> Zero]
  /\ next = [t \in Thread |-> 0]
  /\ answer = [w \in Worker |-> Zero]
  /\ nUpdates = Zero
  /\ exit = FALSE

-----------------------------------------------------------------------------
(* Mutant: every worker is given the restored model. *)
RestoredWorkers_All == [w \in Worker |-> Restored]

RestoredWorkers == [w \in Worker |-> IF w = 0 THEN Restored ELSE 0]

(* restoreGlobalModelJSON, if there is a file, then startUpdaterThread.     *)
Start ==
  /\ state[Main] = "starting"
  /\ worker' = RestoredWorkers
  /\ global' = [w \in Worker |-> IF w = 0 THEN Restored ELSE 0]
  /\ state' = [state EXCEPT ![Main] = "serving", ![Updater] = "merging"]
  /\ UNCHANGED <<force, new, next, answer, nUpdates, exit>>

-----------------------------------------------------------------------------
(* updateGlobalModel: m_mutex is only taken for the swap at its end.        *)

Merge(t) ==
  /\ state[t] = "merging" /\ next[t] < NWorkers
  /\ new' = [new EXCEPT ![t][next[t]] = worker[next[t]]]
  /\ next' = [next EXCEPT ![t] = @ + 1]
  /\ UNCHANGED <<force, worker, global, state, answer, nUpdates, exit>>

AfterSwap(t) ==
  CASE t \in Worker -> "answering"
    [] t = Main     -> "stopping"
    [] t = Updater  -> "ticking"

(* Mutants: the first worker's parameters do not get into the global model, *)
(* which then has no statistics for them, or none at all.                   *)
Merged_SkipsFirst(t) == [new[t] EXCEPT ![0] = 0]

Merged(t) == new[t]

Swap(t) ==
  /\ state[t] = "merging" /\ next[t] = NWorkers
  /\ global' = Merged(t)
  /\ new' = [new EXCEPT ![t] = Zero]
  /\ next' = [next EXCEPT ![t] = 0]
  /\ state' = [state EXCEPT ![t] = AfterSwap(t)]
  /\ UNCHANGED <<force, worker, answer, nUpdates, exit>>

(* The updater thread, after an update: exit, or sleep and update again.    *)
Tick ==
  /\ state[Updater] = "ticking"
  /\ state' = [state EXCEPT ![Updater] = IF exit THEN "gone" ELSE "merging"]
  /\ UNCHANGED <<force, worker, global, new, next, answer, nUpdates, exit>>

-----------------------------------------------------------------------------
(* Mutant: the update replaces what the worker had. *)
Updated_Replaced(w) == 1

Updated(w) == worker[w] + 1

(* updateWorkerModel: the update, under the lock of the worker's parameters *)
UpdateWorker(w) ==
  /\ state[Main] = "serving" /\ state[w] = "idle"
  /\ nUpdates[w] < MaxUpdates
  /\ nUpdates' = [nUpdates EXCEPT ![w] = @ + 1]
  /\ worker' = [worker EXCEPT ![w] = Updated(w)]
  /\ state' = [state EXCEPT ![w] = IF force THEN "merging" ELSE "answering"]
  /\ UNCHANGED <<force, global, new, next, answer, exit>>

(* ... and the global model, under a shared lock. *)
Answer(w) ==
  /\ state[w] = "answering"
  /\ answer' = [answer EXCEPT ![w] = global]
  /\ state' = [state EXCEPT ![w] = "idle"]
  /\ UNCHANGED <<force, worker, global, new, next, nUpdates, exit>>

-----------------------------------------------------------------------------
(* The end of the server by itself: every request has been answered, so     *)
(* that the workers are idle (StopsSafely of ZMQNet).  A signal may leave a *)
(* worker in a payload, whose updates can then come after the last global   *)
(* model; that end is left out.                                             *)
(* The main thread updates the global model, then stops the updater thread. *)
EndOfService ==
  /\ state[Main] = "serving" /\ \A w \in Worker : state[w] = "idle"
  /\ state' = [state EXCEPT ![Main] = "merging"]
  /\ UNCHANGED <<force, worker, global, new, next, answer, nUpdates, exit>>

(* Mutant: the flag is not raised. *)

ExitRaised == TRUE

StopUpdater ==
  /\ state[Main] = "stopping"
  /\ exit' = ExitRaised
  /\ state' = [state EXCEPT ![Main] = "joining"]
  /\ UNCHANGED <<force, worker, global, new, next, answer, nUpdates>>

Join ==
  /\ state[Main] = "joining" /\ state[Updater] = "gone"
  /\ state' = [state EXCEPT ![Main] = "gone"]
  /\ UNCHANGED <<force, worker, global, new, next, answer, nUpdates, exit>>

-----------------------------------------------------------------------------
UpdaterStep == Merge(Updater) \/ Swap(Updater) \/ Tick

WorkerStep(w) == Merge(w) \/ Swap(w) \/ Answer(w)

MainStep == Start \/ Merge(Main) \/ Swap(Main) \/ StopUpdater \/ Join

ManagerNext ==
  \/ UpdaterStep
  \/ \E w \in Worker : WorkerStep(w) \/ UpdateWorker(w)
  \/ MainStep
  \/ EndOfService

ManagerSpec == ManagerInit /\ [][ManagerNext]_managerVars

(* The threads are scheduled, and the updater's sleep ends. *)
FairSpec ==
  /\ ManagerSpec
  /\ WF_managerVars(UpdaterStep)
  /\ WF_managerVars(MainStep)
  /\ \A w \in Worker : WF_managerVars(WorkerStep(w))

-----------------------------------------------------------------------------
(* The type of every variable. *)
TypeOK ==
  /\ force \in BOOLEAN
  /\ worker \in [Worker -> Nat]
  /\ global \in [Worker -> Nat]
  /\ state \in [Thread -> {"starting", "serving", "stopping", "joining", "idle",
                           "merging", "answering", "ticking", "gone"}]
  /\ new \in [Thread -> [Worker -> Nat]]
  /\ next \in [Thread -> 0 .. NWorkers]
  /\ answer \in [Worker -> [Worker -> Nat]]
  /\ nUpdates \in [Worker -> 0 .. MaxUpdates]
  /\ exit \in BOOLEAN

(* What the workers were given: nothing is lost or counted twice before it  *)
(* is merged, the restored model included ("If we set them all, when        *)
(* aggregated over workers it would change the statistics").                *)
Received == [w \in Worker |-> nUpdates[w] + IF w = 0 THEN Restored ELSE 0]

(* Every global model that is made, published or returned holds no more     *)
(* than the workers have received, each update once.                        *)
NothingInvented ==
  state[Main] # "starting" =>
    /\ AtMost(global, Received)
    /\ \A t \in Thread : AtMost(new[t], Received)
    /\ \A w \in Worker : AtMost(answer[w], Received)
    /\ worker = Received

(* A model that was published is not replaced by an older one: as long as   *)
(* the updater thread is the only one that merges, the statistics that the  *)
(* AD ranks judge by never lose data, though updateGlobalModel reads the    *)
(* workers' parameters one by one while they change.                        *)
GlobalNeverRegresses ==
  [][~force /\ state[Main] = "serving" => AtMost(global, global')]_managerVars

(* Every update gets into the global model. *)
UpdatesArePublished ==
  \A w \in Worker : \A n \in 1 .. MaxUpdates :
    nUpdates[w] = n ~> (global[w] >= n \/ state[Main] = "gone")

(* "Force an update of the global model" (updateGlobalModel): with forced   *)
(* updates, the model that is returned to a rank contains what it has sent. *)
AnswerHasOwnUpdate ==
  force =>
    \A w \in Worker : state[w] = "idle" /\ nUpdates[w] > 0 => answer[w][w] >= nUpdates[w]

(* stopUpdaterThread returns. *)
StopReturns == state[Main] = "stopping" ~> state[Main] = "gone"

(* The updater thread does its work, and stops when asked. *)
PublishesAndStops == UpdatesArePublished /\ StopReturns
=============================================================================
