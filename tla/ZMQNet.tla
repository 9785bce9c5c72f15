-------------------------------- MODULE ZMQNet --------------------------------
(***************************************************************************)
(* The network of the parameter server (ZMQNet) with its clients            *)
(* (ADZMQNetClient).  The router thread moves requests from its frontend,   *)
(* where the clients connect, to the worker threads, and their replies      *)
(* back; a worker carries out one request at a time.  The router ends the   *)
(* server when the clients that shook hands have all disconnected.          *)
(*                                                                          *)
(* Abstracted: the contents of the messages and what the payloads of the    *)
(* parameter server do with them, the performance statistics, and the ZeroMQ *)
(* sockets, which are taken to be reliable queues: a REQ socket has one     *)
(* request outstanding, a DEALER gives each request to one of the workers,  *)
(* a ROUTER returns each reply to the client it is for.                     *)
(***************************************************************************)
EXTENDS Integers, Sequences, FiniteSets

CONSTANTS
  Client,       \* AD ranks, each connecting once
  Worker,       \* worker threads
  None,         \* no message
  Faulty,       \* clients whose receive may time out
  Interrupts,   \* what else may stop the server: "timeout", "signal", "stop"
  AutoShutdown, \* m_autoshutdown
  Commands,     \* what connected clients ask for: "request", "stopServer"
  MaxPollMsg,   \* m_max_pollcyc_msg
  MaxRequests   \* bound: requests of a client between its connection and its disconnection

Kind == {"handshake", "request", "stopServer", "quit"}
Message == [from : Client, kind : Kind]

ASSUME ZMQNetAssumption ==
  /\ IsFiniteSet(Client) /\ IsFiniteSet(Worker)
  /\ None \notin Kind \cup Message
  /\ Faulty \subseteq Client
  /\ Interrupts \subseteq {"timeout", "signal", "stop"}
  /\ AutoShutdown \in BOOLEAN
  /\ Commands \subseteq {"request", "stopServer"}
  /\ MaxPollMsg \in Nat \ {0}
  /\ MaxRequests \in Nat

VARIABLES
  client,       \* client[c]: "absent", "connected", "gone" or "failed"
  asked,        \* asked[c]: what c has asked for and awaits, or None
  nAsked,       \* nAsked[c]: requests made between connection and disconnection
  frontend,     \* messages that have reached the server's port
  workerIn,     \* workerIn[w]: messages handed to w
  replying,     \* replying[w]: the message w has carried out but not answered
  backend,      \* replies of the workers not yet routed
  inbox,        \* inbox[c]: replies on their way to c
  router,       \* where the router thread is in its loop
  ready,        \* the sockets the last poll has found readable
  nMsg,         \* messages moved so far by the current recvAndSend
  nRequests,    \* m_n_requests
  nClients,     \* m_clients
  hasConnected, \* m_client_has_connected
  stopCmd,      \* m_remote_stop_cmd
  stopAsked,    \* was stop() called?
  signalled,    \* was a SIGTERM delivered?
  status        \* m_status

clientVars == <<client, asked, nAsked>>
netVars == <<frontend, workerIn, replying, backend, inbox>>
countVars == <<nClients, hasConnected, stopCmd>>
routerVars == <<router, ready, nMsg, nRequests, status>>
stopVars == <<stopAsked, signalled>>
vars == <<clientVars, netVars, countVars, routerVars, stopVars>>

Init ==
  /\ client = [c \in Client |-> "absent"]
  /\ asked = [c \in Client |-> None]
  /\ nAsked = [c \in Client |-> 0]
  /\ frontend = <<>>
  /\ workerIn = [w \in Worker |-> <<>>]
  /\ replying = [w \in Worker |-> None]
  /\ backend = <<>>
  /\ inbox = [c \in Client |-> <<>>]
  /\ router = "checking"
  /\ ready = {}
  /\ nMsg = 0
  /\ nRequests = 0
  /\ nClients = 0
  /\ hasConnected = FALSE
  /\ stopCmd = FALSE
  /\ stopAsked = FALSE
  /\ signalled = FALSE
  /\ status = "Running"

-----------------------------------------------------------------------------
(* The clients.                                                             *)

Send(c, k) ==
  /\ asked[c] = None
  /\ asked' = [asked EXCEPT ![c] = k]
  /\ frontend' = Append(frontend, [from |-> c, kind |-> k])

(* connect_ps *)
Connect(c) ==
  /\ client[c] = "absent"
  /\ Send(c, "handshake")
  /\ UNCHANGED <<client, nAsked, workerIn, replying, backend, inbox, countVars,
                 routerVars, stopVars>>

(* send_and_receive and stopServer *)
Request(c, k) ==
  /\ client[c] = "connected" /\ k \in Commands
  /\ nAsked[c] < MaxRequests
  /\ Send(c, k)
  /\ nAsked' = [nAsked EXCEPT ![c] = @ + 1]
  /\ UNCHANGED <<client, workerIn, replying, backend, inbox, countVars,
                 routerVars, stopVars>>

(* disconnect_ps *)
Disconnect(c) ==
  /\ client[c] = "connected"
  /\ Send(c, "quit")
  /\ UNCHANGED <<client, nAsked, workerIn, replying, backend, inbox, countVars,
                 routerVars, stopVars>>

Receive(c) ==
  /\ client[c] # "failed" /\ inbox[c] # <<>>
  /\ client' = [client EXCEPT ![c] = IF asked[c] = "quit" THEN "gone" ELSE "connected"]
  /\ asked' = [asked EXCEPT ![c] = None]
  /\ inbox' = [inbox EXCEPT ![c] = Tail(@)]
  /\ UNCHANGED <<nAsked, frontend, workerIn, replying, backend, countVars,
                 routerVars, stopVars>>

(* The receive times out: m_use_ps stays FALSE, or a fatal error.  Either   *)
(* way the driver ends, without a disconnection.                            *)
GiveUp(c) ==
  /\ c \in Faulty
  /\ client[c] # "failed" /\ asked[c] # None /\ inbox[c] = <<>>
  /\ client' = [client EXCEPT ![c] = "failed"]
  /\ UNCHANGED <<asked, nAsked, netVars, countVars, routerVars, stopVars>>

-----------------------------------------------------------------------------
(* The worker threads (doWork).                                             *)

(* Mutant: a disconnection is not counted. *)
CountAfter_NoQuit(m) == IF m.kind = "handshake" THEN nClients + 1 ELSE nClients

CountAfter(m) ==
  CASE m.kind = "handshake" -> nClients + 1
    [] m.kind = "quit"      -> nClients - 1
    [] OTHER                -> nClients

(* NetPayloadClientRemoteStop *)
StopAfter(m) == stopCmd \/ m.kind = "stopServer"

(* Poll, receive a message and perform the action of its payload: one step, *)
(* as only its effects on the counters are seen by the others.  An end of   *)
(* the context, or an interrupt, in the poll or receive of a worker makes   *)
(* it leave its loop, or is a fatal error as in ReplyFails; that is left    *)
(* out.                                                                     *)
Perform(w) ==
  /\ router \notin {"finalized", "terminated"}
  /\ replying[w] = None /\ workerIn[w] # <<>>
  /\ LET m == Head(workerIn[w]) IN
       /\ nClients' = CountAfter(m)
       /\ hasConnected' = (hasConnected \/ m.kind = "handshake")
       /\ stopCmd' = StopAfter(m)
       /\ replying' = [replying EXCEPT ![w] = m]
  /\ workerIn' = [workerIn EXCEPT ![w] = Tail(@)]
  /\ UNCHANGED <<clientVars, frontend, backend, inbox, routerVars, stopVars>>

Reply(w) ==
  /\ router \notin {"finalized", "terminated"}
  /\ replying[w] # None
  /\ backend' = Append(backend, replying[w])
  /\ replying' = [replying EXCEPT ![w] = None]
  /\ UNCHANGED <<clientVars, frontend, workerIn, inbox, countVars, routerVars, stopVars>>

(* ZMQNet::send after the end of the context: a fatal error, thrown in the  *)
(* worker thread.                                                           *)
ReplyFails(w) ==
  /\ router = "finalized" /\ replying[w] # None
  /\ router' = "terminated"
  /\ UNCHANGED <<clientVars, netVars, countVars, ready, nMsg, nRequests, status, stopVars>>

-----------------------------------------------------------------------------
(* The router thread (run).                                                 *)

(* Mutant: ignores the requests in progress. *)

(* The flags are read without m_mutex, but no worker is at work while       *)
(* nRequests is 0, so that what is read then is what was last written.      *)
AllDone == (AutoShutdown \/ stopCmd) /\ hasConnected /\ nClients = 0 /\ nRequests = 0

Check ==
  /\ router = "checking"
  /\ IF AllDone
     THEN /\ status' = IF stopCmd THEN "StoppedByRequest" ELSE "StoppedAutomatically"
          /\ router' = "stopped"
     ELSE /\ router' = "polling"
          /\ UNCHANGED status
  /\ UNCHANGED <<clientVars, netVars, countVars, ready, nMsg, nRequests, stopVars>>

(* Mutant: the backend is left out of the poll. *)
Readable_NoBackend ==
  (IF frontend # <<>> THEN {"frontend"} ELSE {})
    \cup (IF stopAsked THEN {"stop"} ELSE {})

Readable ==
  (IF backend # <<>> THEN {"backend"} ELSE {})
    \cup (IF frontend # <<>> THEN {"frontend"} ELSE {})
    \cup (IF stopAsked THEN {"stop"} ELSE {})

Poll ==
  /\ router = "polling" /\ Readable # {}
  /\ ready' = Readable
  /\ router' = "toClients"
  /\ UNCHANGED <<clientVars, netVars, countVars, nMsg, nRequests, status, stopVars>>

PollTimesOut ==
  /\ "timeout" \in Interrupts
  /\ router = "polling" /\ Readable = {}
  /\ status' = "StoppedByTimeOut"
  /\ router' = "stopped"
  /\ UNCHANGED <<clientVars, netVars, countVars, ready, nMsg, nRequests, stopVars>>

(* SIGTERM: the handler of the parameter server does nothing, and what      *)
(* stops the router is that zmq_poll, if it is in it, returns EINTR.        *)
Signal ==
  /\ "signal" \in Interrupts /\ status = "Running" /\ ~signalled
  /\ signalled' = TRUE
  /\ IF router = "polling"
     THEN status' = "StoppedBySignal" /\ router' = "stopped"
     ELSE UNCHANGED <<status, router>>
  /\ UNCHANGED <<clientVars, netVars, countVars, ready, nMsg, nRequests, stopAsked>>

(* recvAndSend(backend, frontend) moves replies, at most MaxPollMsg, until  *)
(* there is none left.                                                      *)
MayMove(socket, queue) == socket \in ready /\ queue # <<>> /\ nMsg < MaxPollMsg

MoveToClient ==
  /\ router = "toClients" /\ MayMove("backend", backend)
  /\ LET m == Head(backend) IN inbox' = [inbox EXCEPT ![m.from] = Append(@, m)]
  /\ backend' = Tail(backend)
  /\ nMsg' = nMsg + 1
  /\ UNCHANGED <<clientVars, frontend, workerIn, replying, countVars, router, ready,
                 nRequests, status, stopVars>>

(* Mutant: one per poll cycle, whatever was moved. *)
RequestsAfterReplies_One == nRequests - 1

RequestsAfterReplies == nRequests - nMsg

MovedToClients ==
  /\ router = "toClients" /\ ~MayMove("backend", backend)
  /\ nRequests' = RequestsAfterReplies
  /\ nMsg' = 0
  /\ router' = "toWorkers"
  /\ UNCHANGED <<clientVars, netVars, countVars, ready, status, stopVars>>

(* recvAndSend(frontend, backend) *)
MoveToWorker(w) ==
  /\ router = "toWorkers" /\ MayMove("frontend", frontend)
  /\ workerIn' = [workerIn EXCEPT ![w] = Append(@, Head(frontend))]
  /\ frontend' = Tail(frontend)
  /\ nMsg' = nMsg + 1
  /\ UNCHANGED <<clientVars, replying, backend, inbox, countVars, router, ready,
                 nRequests, status, stopVars>>

MovedToWorkers ==
  /\ router = "toWorkers" /\ ~MayMove("frontend", frontend)
  /\ nRequests' = nRequests + nMsg
  /\ nMsg' = 0
  /\ router' = "stopSocket"
  /\ UNCHANGED <<clientVars, netVars, countVars, ready, status, stopVars>>

StopSocket ==
  /\ router = "stopSocket"
  /\ IF "stop" \in ready
     THEN router' = "stopped" /\ status' = "StoppedByRequest"
     ELSE router' = "checking" /\ UNCHANGED status
  /\ ready' = {}
  /\ UNCHANGED <<clientVars, netVars, countVars, nMsg, nRequests, stopVars>>

(* stop(), from another thread *)
Stop ==
  /\ "stop" \in Interrupts /\ status = "Running" /\ ~stopAsked
  /\ stopAsked' = TRUE
  /\ UNCHANGED <<clientVars, netVars, countVars, routerVars, signalled>>

(* finalize(): the end of the context ends the workers that wait for work. *)
Finalize ==
  /\ router = "stopped"
  /\ router' = "finalized"
  /\ UNCHANGED <<clientVars, netVars, countVars, ready, nMsg, nRequests, status, stopVars>>

-----------------------------------------------------------------------------
ClientStep(c) ==
  \/ Connect(c)
  \/ \E k \in Commands : Request(c, k)
  \/ Disconnect(c)
  \/ Receive(c)
  \/ GiveUp(c)

WorkerStep(w) ==
  \/ Perform(w)
  \/ Reply(w)
  \/ ReplyFails(w)

RouterStep ==
  \/ Check
  \/ Poll
  \/ MoveToClient
  \/ MovedToClients
  \/ \E w \in Worker : MoveToWorker(w)
  \/ MovedToWorkers
  \/ StopSocket

Next ==
  \/ \E c \in Client : ClientStep(c)
  \/ \E w \in Worker : WorkerStep(w)
  \/ RouterStep
  \/ PollTimesOut
  \/ Signal
  \/ Stop
  \/ Finalize

Spec == Init /\ [][Next]_vars

(* The threads of the server are scheduled; every rank comes, and goes when *)
(* its run has ended, unless it waits for an answer.                        *)
FairSpec ==
  /\ Spec
  /\ WF_vars(RouterStep)
  /\ \A w \in Worker : WF_vars(WorkerStep(w))
  /\ \A c \in Client : WF_vars(Connect(c)) /\ WF_vars(Disconnect(c)) /\ WF_vars(Receive(c))

-----------------------------------------------------------------------------
(* The type of every variable. *)
TypeOK ==
  /\ client \in [Client -> {"absent", "connected", "gone", "failed"}]
  /\ asked \in [Client -> Kind \cup {None}]
  /\ nAsked \in [Client -> 0 .. MaxRequests]
  /\ frontend \in Seq(Message)
  /\ workerIn \in [Worker -> Seq(Message)]
  /\ replying \in [Worker -> Message \cup {None}]
  /\ backend \in Seq(Message)
  /\ inbox \in [Client -> Seq(Message)]
  /\ router \in {"checking", "polling", "toClients", "toWorkers", "stopSocket",
                 "stopped", "finalized", "terminated"}
  /\ ready \subseteq {"backend", "frontend", "stop"}
  /\ nMsg \in 0 .. MaxPollMsg
  /\ nRequests \in 0 .. Cardinality(Client)
  /\ nClients \in 0 .. Cardinality(Client)
  /\ hasConnected \in BOOLEAN
  /\ stopCmd \in BOOLEAN
  /\ stopAsked \in BOOLEAN
  /\ signalled \in BOOLEAN
  /\ status \in {"Running", "StoppedAutomatically", "StoppedByRequest",
                 "StoppedByTimeOut", "StoppedBySignal"}

(* Has the request of c been carried out? *)
Served(c) ==
  \/ \E w \in Worker : replying[w] # None /\ replying[w].from = c
  \/ \E i \in 1 .. Len(backend) : backend[i].from = c
  \/ inbox[c] # <<>>

(* Router, workers and client sockets together carry out every request at   *)
(* most once and by itself, give each client the answer to its own request, *)
(* and m_clients is raised by the handshakes and lowered by the             *)
(* disconnections that were carried out, never below 0 (doWork, run).       *)
Service == INSTANCE RequestReply WITH served <- [c \in Client |-> Served(c)],
                                      clients <- nClients
ServesRequests == Service!Spec

(* Whenever the router decides whether to stop, m_n_requests is the number  *)
(* of requests that the workers have been given and the clients have not    *)
(* been sent the answer to (run, recvAndSend).                              *)
OutstandingExact ==
  router \in {"checking", "polling"} =>
    nRequests = Cardinality({c \in Client : \E w \in Worker : \E i \in 1 .. Len(workerIn[w]) :
                               workerIn[w][i].from = c})
                + Cardinality({w \in Worker : replying[w] # None})
                + Len(backend)

(* "the server will only finish if all the clients have disconnected" (run): *)
(* when the server finishes by itself or on a client's command, no client   *)
(* that has shaken hands is left, and the last answers are on their way.    *)
NobodyCutOff ==
  status \in {"StoppedAutomatically", "StoppedByRequest"} /\ ~stopAsked =>
    \A c \in Client :
      \/ client[c] \in {"gone", "failed"}
      \/ client[c] = "absent" /\ (asked[c] = "handshake" => ~Served(c))
      \/ asked[c] = "quit" /\ inbox[c] # <<>>

(* The server's counters are exact enough to stop at the right time. *)
StopsSafely == OutstandingExact /\ NobodyCutOff

(* "this signal will be handled by ZeroMQ and will cause the pserver to     *)
(* shutdown gracefully" (app/pserver.cpp).                                  *)
ShutsDownGracefully == router # "terminated"

(* As long as the server runs, every request is answered: the router does   *)
(* not sleep over one, nor starve one socket for another.                   *)
EveryRequestAnswered ==
  \A c \in Client :
    asked[c] # None ~> asked[c] = None \/ client[c] = "failed" \/ status # "Running"

(* When every client has disconnected the server shuts down by itself, or   *)
(* if it waits for the command, when one of them has given it (run).        *)
StopsWhenAllHaveQuit ==
  (\A c \in Client : client[c] = "gone") /\ (AutoShutdown \/ stopCmd)
    ~> status # "Running"

(* The server answers while it is needed, and ends when it no longer is. *)
ServesAndEnds == EveryRequestAnswered /\ StopsWhenAllHaveQuit

=============================================================================
