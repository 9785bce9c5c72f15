-------------------------- MODULE ADThreadNetClient --------------------------
(***************************************************************************)
(* The client through which an AD rank talks to the parameter server        *)
(* (ADThreadNetClient).  The calls of the main thread become action objects *)
(* in a queue; a worker thread performs them with the network client it     *)
(* owns.  The object of a blocking call lives on the stack of the caller,   *)
(* which goes on, and destroys it, as soon as it is notified; that of a     *)
(* non-blocking call is on the heap and is deleted by the worker.           *)
(*                                                                          *)
(* Abstracted: the contents of the messages, and the 80 ms the worker       *)
(* sleeps when its queue is empty.  The network client is ADZMQNetClient.   *)
(***************************************************************************)
EXTENDS Naturals, Sequences

CONSTANT MaxCalls \* bound: calls made in a behaviour, but for the destructor's

ASSUME ADThreadNetClientAssumption == MaxCalls \in Nat

Sends == {"send_and_receive", "async_send"}
Blocking == {"connect_ps", "disconnect_ps", "send_and_receive", "stopWorkerThread"}
Kind == Blocking \cup {"async_send", "setRecvTimeout"}

VARIABLES
  kind,          \* kind[i]: what the i-th action object created does
  queue,         \* the action objects not yet taken by the worker
  freed,         \* action objects that have been destroyed
  complete,      \* blocking actions whose complete flag is set
  running,       \* m_is_running
  main,          \* what the main thread is doing
  destructing,   \* is it in the destructor?
  usePs,         \* m_use_ps of ADThreadNetClient
  worker,        \* what the worker thread is doing
  item,          \* work_item, 0 at first
  shutdown,      \* the worker's shutdown flag
  doDelete,      \* the worker's do_delete flag
  connected,     \* m_use_ps of the worker's network client
  timeout,       \* its m_recv_timeout_ms: the call that set it, 0 for the default
  socketTimeout, \* the timeout its socket was created with
  performed      \* history: the actions performed, in order

netVars == <<connected, timeout, socketTimeout>>
vars == <<kind, queue, freed, complete, running, main, destructing, usePs, worker,
          item, shutdown, doDelete, netVars, performed>>

Init ==
  /\ kind = <<>>
  /\ queue = <<>>
  /\ freed = {}
  /\ complete = {}
  /\ running = FALSE
  /\ main = "constructing"
  /\ destructing = FALSE
  /\ usePs = FALSE
  /\ worker = "starting"
  /\ item = 0
  /\ shutdown = FALSE
  /\ doDelete = FALSE
  /\ connected = FALSE
  /\ timeout = 0
  /\ socketTimeout = 0
  /\ performed = <<>>

-----------------------------------------------------------------------------
(* The main thread.                                                         *)

(* Mutant: does not wait for the worker. *)

WorkerIsUp == running

Construct ==
  /\ main = "constructing" /\ WorkerIsUp
  /\ main' = "idle"
  /\ UNCHANGED <<kind, queue, freed, complete, running, destructing, usePs,
                 worker, item, shutdown, doDelete, netVars, performed>>

(* enqueue_action raises a fatal error when the worker is not running. *)
Enqueue(k) ==
  /\ main = "idle" /\ running
  /\ kind' = Append(kind, k)
  /\ queue' = Append(queue, Len(kind) + 1)
  /\ main' = IF k \in Blocking THEN "waiting" ELSE "idle"
  /\ UNCHANGED <<freed, complete, running, destructing, usePs, worker, item,
                 shutdown, doDelete, netVars, performed>>

(* The calls of the driver: it sends only while use_ps() says so. *)
Call(k) ==
  /\ Len(kind) < MaxCalls
  /\ ~destructing
  /\ \/ k = "connect_ps" /\ ~usePs
     \/ k = "disconnect_ps"
     \/ k = "setRecvTimeout"
     \/ k \in Sends /\ usePs
  /\ Enqueue(k)

(* Mutant: m_use_ps stays up after a disconnection. *)

UsePsAfter(k) ==
  CASE k = "connect_ps"    -> connected
    [] k = "disconnect_ps" -> FALSE
    [] OTHER               -> usePs

(* wait_for returns; the action object goes out of scope.  Nothing follows  *)
(* a blocking action in the queue, so that the worker's connected is still  *)
(* what the action has noted. *)
Return ==
  /\ main = "waiting" /\ Len(kind) \in complete
  /\ freed' = freed \cup {Len(kind)}
  /\ usePs' = UsePsAfter(kind[Len(kind)])
  /\ main' = IF kind[Len(kind)] = "stopWorkerThread" THEN "joining" ELSE "idle"
  /\ UNCHANGED <<kind, queue, complete, running, destructing, worker, item,
                 shutdown, doDelete, netVars, performed>>

(* ~ADThreadNetClient: disconnect if need be, then stop the worker. *)
Destruct ==
  /\ main = "idle" /\ ~destructing
  /\ destructing' = TRUE
  /\ UNCHANGED <<kind, queue, freed, complete, running, main, usePs, worker,
                 item, shutdown, doDelete, netVars, performed>>

DestructorCall ==
  /\ destructing
  /\ Enqueue(IF usePs THEN "disconnect_ps" ELSE "stopWorkerThread")

Join ==
  /\ main = "joining" /\ worker = "gone"
  /\ main' = "destroyed"
  /\ UNCHANGED <<kind, queue, freed, complete, running, destructing, usePs,
                 worker, item, shutdown, doDelete, netVars, performed>>

-----------------------------------------------------------------------------
(* The worker thread.                                                       *)

Start ==
  /\ worker = "starting"
  /\ running' = TRUE
  /\ worker' = "looking"
  /\ UNCHANGED <<kind, queue, freed, complete, main, destructing, usePs, item,
                 shutdown, doDelete, netVars, performed>>

(* Mutant: the flag is never raised. *)

ShutdownAsked(i) == shutdown \/ kind[i] = "stopWorkerThread"

(* getWorkItem, and the questions put to the item before it is performed. *)
TakeItem(i) ==
  /\ worker = "looking"
  /\ item' = i
  /\ shutdown' = ShutdownAsked(i)
  /\ doDelete' = (kind[i] \notin Blocking)
  /\ worker' = "performing"
  /\ UNCHANGED <<kind, freed, complete, running, main, destructing, usePs,
                 netVars, performed>>

(* Mutant: takes the newest action. *)
Take_Newest ==
  /\ queue # <<>>
  /\ TakeItem(queue[Len(queue)])
  /\ queue' = SubSeq(queue, 1, Len(queue) - 1)

Take ==
  /\ queue # <<>>
  /\ TakeItem(Head(queue))
  /\ queue' = Tail(queue)

(* connect_ps succeeds, or gives up on a missing or unexpected response. *)
PerformConnect ==
  /\ socketTimeout' = timeout
  /\ connected' \in BOOLEAN
  /\ UNCHANGED timeout

PerformDisconnect ==
  /\ connected' = FALSE
  /\ UNCHANGED <<timeout, socketTimeout>>

PerformSetRecvTimeout ==
  /\ timeout' = item
  /\ UNCHANGED <<connected, socketTimeout>>

Perform ==
  /\ worker = "performing" /\ main # "terminated"
  /\ CASE kind[item] = "connect_ps"     -> PerformConnect
       [] kind[item] = "disconnect_ps"  -> PerformDisconnect
       [] kind[item] = "setRecvTimeout" -> PerformSetRecvTimeout
       [] OTHER                         -> UNCHANGED netVars
  /\ performed' = Append(performed, item)
  /\ worker' = IF kind[item] \in Blocking THEN "notifying" ELSE "finishing"
  /\ UNCHANGED <<kind, queue, freed, complete, running, main, destructing, usePs,
                 item, shutdown, doDelete>>

(* The server does not answer in time, or its address cannot be connected   *)
(* to: an error is thrown in the worker thread, where nothing catches it.   *)
PerformFails ==
  /\ worker = "performing" /\ main # "terminated"
  /\ \/ kind[item] \in Sends \cup {"connect_ps"}
     \/ kind[item] = "disconnect_ps" /\ connected
  /\ main' = "terminated"
  /\ UNCHANGED <<kind, queue, freed, complete, running, destructing, usePs,
                 worker, item, shutdown, doDelete, netVars, performed>>

(* Mutant: the main thread is not told. *)
Completed_Silently(i) == complete

Completed(i) == complete \cup {i}

Notify ==
  /\ worker = "notifying"
  /\ complete' = Completed(item)
  /\ worker' = "finishing"
  /\ UNCHANGED <<kind, queue, freed, running, main, destructing, usePs, item,
                 shutdown, doDelete, netVars, performed>>

(* Mutants: the worker deletes every object, or none. *)
Deleted_Always(i) == {i}

Deleted(i) == IF doDelete THEN {i} ELSE {}

Finish ==
  /\ worker = "finishing"
  /\ freed' = freed \cup Deleted(item)
  /\ worker' = "looking"
  /\ UNCHANGED <<kind, queue, complete, running, main, destructing, usePs, item,
                 shutdown, doDelete, netVars, performed>>

Exit ==
  /\ worker = "looking" /\ queue = <<>> /\ shutdown
  /\ running' = FALSE
  /\ worker' = "gone"
  /\ UNCHANGED <<kind, queue, freed, complete, main, destructing, usePs, item,
                 shutdown, doDelete, netVars, performed>>

-----------------------------------------------------------------------------
Main ==
  \/ Construct
  \/ Return
  \/ DestructorCall
  \/ Join

Worker ==
  \/ Start
  \/ Take
  \/ Perform
  \/ PerformFails
  \/ Notify
  \/ Finish
  \/ Exit

Next ==
  \/ \E k \in Kind : Call(k)
  \/ Destruct
  \/ Main
  \/ Worker

Spec == Init /\ [][Next]_vars

(* The operating system schedules both threads, and the condition variable  *)
(* wakes a waiting one.  Whether the driver calls anything is up to it.     *)
FairSpec == Spec /\ WF_vars(Main) /\ WF_vars(Worker)

-----------------------------------------------------------------------------
(* The type of every variable. *)
TypeOK ==
  /\ kind \in Seq(Kind) /\ Len(kind) <= MaxCalls + 2
  /\ queue \in Seq(1 .. Len(kind))
  /\ freed \subseteq 1 .. Len(kind)
  /\ complete \subseteq 1 .. Len(kind)
  /\ running \in BOOLEAN
  /\ main \in {"constructing", "idle", "waiting", "joining", "destroyed", "terminated"}
  /\ destructing \in BOOLEAN
  /\ usePs \in BOOLEAN
  /\ worker \in {"starting", "looking", "performing", "notifying", "finishing", "gone"}
  /\ item \in 0 .. Len(kind)
  /\ shutdown \in BOOLEAN
  /\ doDelete \in BOOLEAN
  /\ connected \in BOOLEAN
  /\ timeout \in 0 .. Len(kind)
  /\ socketTimeout \in 0 .. Len(kind)
  /\ performed \in Seq(1 .. Len(kind))

(* No action object is used or destroyed after it has been destroyed:       *)
(* "blocking actions unlock the parent thread in perform which destroys the *)
(* ClientAction object making the pointer invalid" (run).                   *)
ObjectsOutliveTheirUse ==
  /\ worker \in {"performing", "notifying"} => item \notin freed
  /\ worker = "finishing" /\ doDelete => item \notin freed
  /\ \A i \in 1 .. Len(queue) : queue[i] \notin freed
  /\ main = "waiting" => Len(kind) \notin freed

(* The main thread never finds the worker not running when it makes a call  *)
(* (enqueue_action), from the end of the constructor to the destructor.     *)
WorkerThereForEveryCall == main = "idle" => running

(* The socket has the timeout that was last asked for before the call of    *)
(* connect_ps, though setRecvTimeout is not waited for ("Must be called     *)
(* prior to connecting").                                                   *)
TimeoutInForce ==
  usePs =>
    LET Calls(k) == {i \in 1 .. Len(kind) : kind[i] = k}
        Last(S) == CHOOSE i \in S : \A j \in S : j <= i
    IN socketTimeout =
         Last({0} \cup {i \in Calls("setRecvTimeout") : i < Last(Calls("connect_ps"))})

(* When the client is gone, every call it was given has been performed,     *)
(* once, and every action object has been destroyed: the destructor leaves  *)
(* no pending send behind and leaks none.                                   *)
NothingLeftBehind ==
  main = "destroyed" =>
    /\ performed = [i \in 1 .. Len(kind) |-> i]
    /\ freed = 1 .. Len(kind)

(* The client's objects and its worker live as long as they are needed, and *)
(* no longer.                                                               *)
RequestsSafe == ObjectsOutliveTheirUse /\ WorkerThereForEveryCall /\ NothingLeftBehind

(* The queue and the worker thread carry out the main thread's calls like   *)
(* the synchronous client would: in order, each once, a blocking call and   *)
(* all before it before it returns (CarriesOutInOrder), and none is         *)
(* forgotten (CarriesOutAll).                                               *)
Requests == INSTANCE OrderedRequests WITH
  made <- Len(kind),
  carried <- performed,
  blocked <- Len(kind) > 0 /\ kind[Len(kind)] \in Blocking /\ Len(kind) \notin freed,
  up <- main # "terminated"

CarriesOutInOrder == Requests!Spec

CarriesOutAll == Requests!FairSpec

(* Destruction ends, unless a network error ends the process first: the     *)
(* worker gets to the stop action, wakes the destructor and can be joined.  *)
DestructorReturns == destructing ~> main \in {"destroyed", "terminated"}

(* Whatever was begun comes to its end. *)
NothingForgotten == CarriesOutAll /\ DestructorReturns
=============================================================================
