----------------------------- MODULE ZMQNetProofs -----------------------------
(***************************************************************************)
(* Theorems about ZMQNet, for any number of clients, worker threads,        *)
(* requests and messages of a poll cycle.                                   *)
(*                                                                          *)
(* A request is in one place at a time: on its way to the router, with a    *)
(* worker, in its hands, on its way back, or in the client's inbox          *)
(* (OnePlace), and it is still the one that the client waits for (Asking).  *)
(* The counters count places (Counts): m_n_requests the requests between    *)
(* the router's two sockets, m_clients the clients between a handshake and  *)
(* a disconnection that were carried out.  When the server has stopped by   *)
(* itself or on a client's command both are 0, and stay so (Stopped).       *)
(***************************************************************************)
EXTENDS ZMQNet, FiniteSetTheorems, TLAPS

From(s) == {s[i].from : i \in DOMAIN s}
Once(s) == \A i, j \in DOMAIN s : s[i].from = s[j].from => i = j
Asked(s, a) == \A i \in DOMAIN s : s[i].kind = a[s[i].from]

(* The clients whose request is at a place. *)
Sent == From(frontend)
Waiting(w) == From(workerIn[w])
InHand(w) == IF replying[w] = None THEN {} ELSE {replying[w].from}
Returning == From(backend)
Arrived == {c \in Client : inbox[c] # <<>>}

AtWorkers == UNION {Waiting(w) : w \in Worker}
Busy == {w \in Worker : replying[w] # None}

Types ==
  /\ client \in [Client -> {"absent", "connected", "gone", "failed"}]
  /\ asked \in [Client -> Kind \cup {None}]
  /\ nAsked \in [Client -> 0 .. MaxRequests]
  /\ frontend \in Seq(Message)
  /\ workerIn \in [Worker -> Seq(Message)]
  /\ replying \in [Worker -> Message \cup {None}]
  /\ backend \in Seq(Message)
  /\ inbox \in [Client -> Seq(Message)]
  /\ router \in {"checking", "polling", "toClients", "toWorkers", "stopSocket",
                 "stopped", "finalized", "terminated"}
  /\ ready \subseteq {"backend", "frontend", "stop"}
  /\ nMsg \in 0 .. MaxPollMsg
  /\ nRequests \in Int
  /\ nClients \in Int
  /\ hasConnected \in BOOLEAN
  /\ stopCmd \in BOOLEAN
  /\ stopAsked \in BOOLEAN
  /\ signalled \in BOOLEAN
  /\ status \in {"Running", "StoppedAutomatically", "StoppedByRequest",
                 "StoppedByTimeOut", "StoppedBySignal"}

(* No request is in two places. *)
OnePlace ==
  /\ Once(frontend) /\ Once(backend)
  /\ \A w \in Worker : Once(workerIn[w])
  /\ \A c \in Client : Len(inbox[c]) <= 1
  /\ Sent \cap Returning = {} /\ Sent \cap Arrived = {} /\ Returning \cap Arrived = {}
  /\ \A w \in Worker :
       /\ Waiting(w) \cap Sent = {} /\ Waiting(w) \cap Returning = {} /\ Waiting(w) \cap Arrived = {}
       /\ InHand(w) \cap Sent = {} /\ InHand(w) \cap Returning = {} /\ InHand(w) \cap Arrived = {}
  /\ \A v, w \in Worker :
       /\ Waiting(v) \cap InHand(w) = {}
       /\ v # w => Waiting(v) \cap Waiting(w) = {} /\ InHand(v) \cap InHand(w) = {}

(* What is under way is what its client waits for. *)
Asking ==
  /\ Asked(frontend, asked) /\ \A w \in Worker : Asked(workerIn[w], asked)
  /\ \A c \in Client :
       /\ asked[c] = None => /\ c \notin Sent /\ c \notin Returning /\ c \notin Arrived
                             /\ \A w \in Worker : c \notin Waiting(w) /\ c \notin InHand(w)
                             /\ client[c] # "failed"
       /\ asked[c] = "handshake" => client[c] \in {"absent", "failed"}
       /\ asked[c] \in {"request", "stopServer", "quit"} => client[c] \in {"connected", "failed"}

(* Carried out, but not answered. *)
Carried(c) == c \in Arrived \/ c \in Returning \/ \E w \in Worker : c \in InHand(w)

(* The handshake of c has been carried out and its disconnection has not. *)
Announced(c) ==
  \/ asked[c] = None /\ client[c] = "connected"
  \/ asked[c] = "handshake" /\ Carried(c)
  \/ asked[c] \in {"request", "stopServer"}
  \/ asked[c] = "quit" /\ ~Carried(c)

Named == {c \in Client : Announced(c)}

Moved == IF router = "toClients" THEN nMsg ELSE IF router = "toWorkers" THEN 0 - nMsg ELSE 0

(* m_n_requests, and nMsg requests of the cycle that it does not count yet. *)
Outstanding ==
  /\ router \notin {"toClients", "toWorkers"} => nMsg = 0
  /\ nRequests = Cardinality(AtWorkers) + Cardinality(Busy) + Len(backend) + Moved

Counts == Outstanding /\ nClients = Cardinality(Named)

Stopped ==
  /\ "stop" \in ready => stopAsked
  /\ status \in {"StoppedAutomatically", "StoppedByRequest"} /\ ~stopAsked =>
       /\ router \in {"stopped", "finalized", "terminated"}
       /\ AtWorkers = {} /\ Busy = {} /\ Returning = {}
       /\ Named = {}

IInv == Types /\ OnePlace /\ Asking /\ Counts /\ Stopped

-----------------------------------------------------------------------------
(* Queues of messages.                                                      *)

LEMMA MessageFacts ==
  /\ \A m \in Message : m.from \in Client /\ m.kind \in Kind /\ m # None
  /\ \A c \in Client, k \in Kind : [from |-> c, kind |-> k] \in Message
  BY ZMQNetAssumption DEF Message

LEMMA QueueEmpty ==
  ASSUME NEW s \in Seq(Message)
  PROVE  /\ From(s) \subseteq Client
         /\ s = <<>> <=> From(s) = {}
         /\ Len(s) = 0 <=> s = <<>>
<1>1. /\ Len(s) \in Nat /\ DOMAIN s = 1 .. Len(s)
      /\ \A i \in DOMAIN s : s[i] \in Message
      /\ Len(s) = 0 <=> s = <<>>
  OBVIOUS
<1>2. From(s) \subseteq Client
  BY <1>1, MessageFacts DEF From
<1>3. s # <<>> => 1 \in DOMAIN s
  BY <1>1
<1>4. s = <<>> => DOMAIN s = {}
  BY <1>1
<1> QED
  BY <1>1, <1>2, <1>3, <1>4 DEF From

LEMMA QueueAppend ==
  ASSUME NEW s \in Seq(Message), NEW m \in Message, m.from \notin From(s)
  PROVE  /\ Append(s, m) \in Seq(Message) /\ Len(Append(s, m)) = Len(s) + 1
         /\ From(Append(s, m)) = From(s) \cup {m.from}
         /\ Once(s) => Once(Append(s, m))
         /\ \A a : Asked(s, a) /\ m.kind = a[m.from] => Asked(Append(s, m), a)
<1> DEFINE t == Append(s, m)
           n == Len(s) + 1
<1>1. /\ t \in Seq(Message) /\ Len(s) \in Nat /\ Len(t) = n
      /\ DOMAIN s = 1 .. Len(s) /\ DOMAIN t = 1 .. n
      /\ \A i \in 1 .. Len(s) : t[i] = s[i]
      /\ t[n] = m
  OBVIOUS
<1>2. /\ \A i \in DOMAIN t : i \in DOMAIN s \/ i = n
      /\ \A i \in DOMAIN s : i \in DOMAIN t /\ t[i] = s[i]
      /\ n \in DOMAIN t
  BY <1>1
<1> HIDE DEF t, n
<1>3. From(t) = From(s) \cup {m.from}
  BY <1>1, <1>2 DEF From
<1>4. \A i \in DOMAIN s : t[i].from # m.from
  BY <1>2 DEF From
<1>5. Once(s) => Once(t)
  BY <1>1, <1>2, <1>4 DEF Once
<1>6. ASSUME NEW a, Asked(s, a), m.kind = a[m.from] PROVE Asked(t, a)
  BY <1>1, <1>2, <1>6 DEF Asked
<1> QED
  BY <1>1, <1>3, <1>5, <1>6 DEF t, n

LEMMA QueueTail ==
  ASSUME NEW s \in Seq(Message), s # <<>>
  PROVE  /\ Head(s) \in Message /\ Tail(s) \in Seq(Message)
         /\ Len(s) \in Nat \ {0} /\ Len(Tail(s)) = Len(s) - 1
         /\ Head(s).from \in From(s)
         /\ Once(s) => Once(Tail(s)) /\ From(Tail(s)) = From(s) \ {Head(s).from}
         /\ \A a : Asked(s, a) => Asked(Tail(s), a) /\ Head(s).kind = a[Head(s).from]
<1> DEFINE t == Tail(s)
<1>1. /\ Len(s) \in Nat \ {0} /\ t \in Seq(Message) /\ Len(t) = Len(s) - 1
      /\ DOMAIN s = 1 .. Len(s) /\ DOMAIN t = 1 .. Len(s) - 1
      /\ Head(s) = s[1] /\ Head(s) \in Message
      /\ \A i \in 1 .. (Len(s) - 1) : t[i] = s[i + 1]
  OBVIOUS
<1>2. /\ 1 \in DOMAIN s
      /\ \A i \in DOMAIN t : i \in Int /\ i + 1 \in DOMAIN s /\ i + 1 # 1 /\ t[i] = s[i + 1]
      /\ \A i \in DOMAIN s : i = 1 \/ (i - 1 \in DOMAIN t /\ t[i - 1] = s[i])
  BY <1>1
<1> HIDE DEF t
<1>3. Head(s).from \in From(s)
  BY <1>1, <1>2 DEF From
<1>4. ASSUME Once(s) PROVE Once(t) /\ From(t) = From(s) \ {Head(s).from}
  <2>1. ASSUME NEW i \in DOMAIN t, NEW j \in DOMAIN t, t[i].from = t[j].from
        PROVE  i = j
    <3>1. /\ i + 1 \in DOMAIN s /\ j + 1 \in DOMAIN s /\ i \in Int /\ j \in Int
          /\ s[i + 1].from = s[j + 1].from
      BY <1>2, <2>1
    <3>2. i + 1 = j + 1
      BY <1>4, <3>1 DEF Once
    <3> QED
      BY <3>1, <3>2
  <2>2. Once(t)
    BY <2>1 DEF Once
  <2>3. \A i \in DOMAIN t : t[i].from # s[1].from
    BY <1>2, <1>4 DEF Once
  <2>4. From(t) \subseteq From(s) \ {Head(s).from}
    BY <1>1, <1>2, <2>3 DEF From
  <2>5. From(s) \ {Head(s).from} \subseteq From(t)
    BY <1>1, <1>2 DEF From
  <2> QED
    BY <2>2, <2>4, <2>5
<1>5. ASSUME NEW a, Asked(s, a) PROVE Asked(t, a) /\ Head(s).kind = a[Head(s).from]
  BY <1>1, <1>2, <1>5 DEF Asked
<1> QED
  BY <1>1, <1>3, <1>4, <1>5 DEF t

(* Who has no message in a queue may ask something else. *)
LEMMA AskedElse ==
  ASSUME NEW s \in Seq(Message), NEW a, NEW b, NEW c, Asked(s, a), c \notin From(s),
         \A d \in Client : d # c => b[d] = a[d]
  PROVE  Asked(s, b)
<1>1. \A i \in DOMAIN s : s[i].from \in From(s) /\ s[i] \in Message
  BY DEF From
<1> QED
  BY <1>1, MessageFacts DEF Asked

-----------------------------------------------------------------------------
(* What the steps that move a message do to the places.                     *)

Elsewhere(c) ==
  /\ c \notin Sent /\ c \notin Returning /\ c \notin Arrived
  /\ \A w \in Worker : c \notin Waiting(w) /\ c \notin InHand(w)

LEMMA PlacesKept ==
  ASSUME UNCHANGED netVars
  PROVE  /\ Sent' = Sent /\ Returning' = Returning /\ Arrived' = Arrived
         /\ AtWorkers' = AtWorkers /\ Busy' = Busy
         /\ \A w \in Worker : Waiting(w)' = Waiting(w) /\ InHand(w)' = InHand(w)
  BY DEF netVars, Sent, Returning, Arrived, AtWorkers, Busy, Waiting, InHand

LEMMA SendMoves ==
  ASSUME Types, OnePlace, Asking, NEW c \in Client, NEW k \in Kind, Send(c, k),
         UNCHANGED <<workerIn, replying, backend, inbox>>
  PROVE  /\ Elsewhere(c) /\ asked[c] = None /\ asked'[c] = k
         /\ \A d \in Client : d # c => asked'[d] = asked[d]
         /\ frontend' \in Seq(Message) /\ Once(frontend') /\ Asked(frontend', asked')
         /\ Sent' = Sent \cup {c} /\ Returning' = Returning /\ Arrived' = Arrived
         /\ AtWorkers' = AtWorkers /\ Busy' = Busy
         /\ \A w \in Worker : Waiting(w)' = Waiting(w) /\ InHand(w)' = InHand(w)
<1> DEFINE m == [from |-> c, kind |-> k]
<1>1. asked[c] = None /\ asked' = [asked EXCEPT ![c] = k] /\ frontend' = Append(frontend, m)
  BY DEF Send
<1>2. Elsewhere(c)
  BY <1>1 DEF Asking, Elsewhere
<1>3. asked'[c] = k /\ \A d \in Client : d # c => asked'[d] = asked[d]
  BY <1>1 DEF Types
<1>4. m \in Message /\ m.from = c /\ m.kind = k
  BY MessageFacts
<1>5. frontend \in Seq(Message) /\ c \notin From(frontend)
  BY <1>2 DEF Types, Elsewhere, Sent
<1>6. Asked(frontend, asked')
  BY <1>3, <1>5, AskedElse DEF Asking
<1> HIDE DEF m
<1>7. /\ frontend' \in Seq(Message) /\ Once(frontend') /\ From(frontend') = From(frontend) \cup {c}
      /\ Asked(frontend', asked')
  BY <1>1, <1>3, <1>4, <1>5, <1>6, QueueAppend DEF OnePlace
<1>8. Sent' = Sent \cup {c}
  BY <1>7 DEF Sent
<1>9. /\ Returning' = Returning /\ Arrived' = Arrived /\ AtWorkers' = AtWorkers /\ Busy' = Busy
      /\ \A w \in Worker : Waiting(w)' = Waiting(w) /\ InHand(w)' = InHand(w)
  BY DEF Returning, Arrived, AtWorkers, Busy, Waiting, InHand
<1> QED
  BY <1>1, <1>2, <1>3, <1>7, <1>8, <1>9

LEMMA ReceiveMoves ==
  ASSUME Types, OnePlace, Asking, NEW c \in Client, Receive(c)
  PROVE  /\ c \in Arrived /\ asked[c] # None /\ asked'[c] = None
         /\ \A d \in Client : d # c => asked'[d] = asked[d]
         /\ client'[c] = (IF asked[c] = "quit" THEN "gone" ELSE "connected")
         /\ \A d \in Client : d # c => client'[d] = client[d]
         /\ inbox' \in [Client -> Seq(Message)] /\ \A d \in Client : Len(inbox'[d]) <= 1
         /\ Arrived' = Arrived \ {c} /\ Sent' = Sent /\ Returning' = Returning
         /\ AtWorkers' = AtWorkers /\ Busy' = Busy
         /\ \A w \in Worker : Waiting(w)' = Waiting(w) /\ InHand(w)' = InHand(w)
<1>1. /\ inbox[c] # <<>> /\ inbox' = [inbox EXCEPT ![c] = Tail(inbox[c])]
      /\ asked' = [asked EXCEPT ![c] = None]
      /\ client' = [client EXCEPT ![c] = IF asked[c] = "quit" THEN "gone" ELSE "connected"]
      /\ UNCHANGED <<frontend, workerIn, replying, backend>>
  BY DEF Receive
<1>2. inbox[c] \in Seq(Message) /\ Len(inbox[c]) <= 1
  BY DEF Types, OnePlace
<1>3. Tail(inbox[c]) \in Seq(Message) /\ Len(Tail(inbox[c])) = 0
  <2> DEFINE s == inbox[c]
  <2>1. s \in Seq(Message) /\ s # <<>>
    BY <1>1, <1>2
  <2> HIDE DEF s
  <2>2. Tail(s) \in Seq(Message) /\ Len(s) \in Nat \ {0} /\ Len(Tail(s)) = Len(s) - 1
    BY <2>1, QueueTail
  <2>3. Len(s) <= 1
    BY <1>2 DEF s
  <2>4. Len(Tail(s)) = 0
    BY <2>2, <2>3
  <2> QED
    BY <2>2, <2>4 DEF s
<1>4. Tail(inbox[c]) = <<>>
  BY <1>3, QueueEmpty
<1>5. inbox'[c] = <<>> /\ \A d \in Client : d # c => inbox'[d] = inbox[d]
  BY <1>1, <1>4 DEF Types
<1>6. inbox' \in [Client -> Seq(Message)] /\ \A d \in Client : Len(inbox'[d]) <= 1
  BY <1>1, <1>3, <1>4, <1>5 DEF Types, OnePlace
<1>7. c \in Arrived /\ Arrived' = Arrived \ {c}
  BY <1>1, <1>5 DEF Arrived
<1>8. asked[c] # None
  BY <1>7 DEF Asking
<1>9. /\ Sent' = Sent /\ Returning' = Returning /\ AtWorkers' = AtWorkers /\ Busy' = Busy
      /\ \A w \in Worker : Waiting(w)' = Waiting(w) /\ InHand(w)' = InHand(w)
  BY <1>1 DEF Sent, Returning, AtWorkers, Busy, Waiting, InHand
<1>10. /\ asked'[c] = None /\ \A d \in Client : d # c => asked'[d] = asked[d]
       /\ client'[c] = (IF asked[c] = "quit" THEN "gone" ELSE "connected")
       /\ \A d \in Client : d # c => client'[d] = client[d]
  BY <1>1 DEF Types
<1> QED
  BY <1>6, <1>7, <1>8, <1>9, <1>10

LEMMA PerformMoves ==
  ASSUME Types, OnePlace, Asking, NEW w \in Worker, Perform(w),
         NEW c, c = Head(workerIn[w]).from
  PROVE  /\ c \in Client
         /\ Head(workerIn[w]).from = c /\ Head(workerIn[w]).kind = asked[c] /\ asked[c] # None
         /\ workerIn' \in [Worker -> Seq(Message)] /\ replying' \in [Worker -> Message \cup {None}]
         /\ \A v \in Worker : Once(workerIn'[v]) /\ Asked(workerIn'[v], asked)
         /\ c \in Waiting(w) /\ Waiting(w)' = Waiting(w) \ {c}
         /\ InHand(w) = {} /\ InHand(w)' = {c}
         /\ \A v \in Worker : v # w => Waiting(v)' = Waiting(v) /\ InHand(v)' = InHand(v)
         /\ w \notin Busy /\ Busy' = Busy \cup {w}
         /\ AtWorkers' = AtWorkers \ {c} /\ c \in AtWorkers
         /\ Sent' = Sent /\ Returning' = Returning /\ Arrived' = Arrived
<1> DEFINE s == workerIn[w]
           m == Head(s)
<1>1. /\ replying[w] = None /\ s # <<>>
      /\ replying' = [replying EXCEPT ![w] = m] /\ workerIn' = [workerIn EXCEPT ![w] = Tail(s)]
      /\ UNCHANGED <<asked, frontend, backend, inbox>>
  BY DEF Perform, clientVars
<1>2. s \in Seq(Message) /\ Once(s) /\ Asked(s, asked)
  BY DEF Types, OnePlace, Asking
<1>3. /\ m \in Message /\ Tail(s) \in Seq(Message) /\ c \in From(s)
      /\ Once(Tail(s)) /\ From(Tail(s)) = From(s) \ {c}
      /\ Asked(Tail(s), asked) /\ m.kind = asked[c]
  BY <1>1, <1>2, QueueTail
<1>4. c \in Client /\ m # None /\ m.kind \in Kind /\ m.kind # None
  BY <1>3, MessageFacts, ZMQNetAssumption
<1>5. /\ workerIn'[w] = Tail(s) /\ replying'[w] = m
      /\ \A v \in Worker : v # w => workerIn'[v] = workerIn[v] /\ replying'[v] = replying[v]
  BY <1>1 DEF Types
<1>6. workerIn' \in [Worker -> Seq(Message)] /\ replying' \in [Worker -> Message \cup {None}]
  BY <1>1, <1>3 DEF Types
<1>7. \A v \in Worker : Once(workerIn'[v]) /\ Asked(workerIn'[v], asked)
  BY <1>3, <1>5 DEF OnePlace, Asking
<1>8. /\ c \in Waiting(w) /\ Waiting(w)' = Waiting(w) \ {c}
      /\ InHand(w) = {} /\ InHand(w)' = {c}
      /\ \A v \in Worker : v # w => Waiting(v)' = Waiting(v) /\ InHand(v)' = InHand(v)
  BY <1>1, <1>3, <1>4, <1>5 DEF Waiting, InHand
<1>9. w \notin Busy /\ Busy' = Busy \cup {w}
  BY <1>1, <1>4, <1>5 DEF Busy
<1>10. \A v \in Worker : v # w => c \notin Waiting(v)
  BY <1>8 DEF OnePlace
<1>11. AtWorkers' = AtWorkers \ {c} /\ c \in AtWorkers
  BY <1>8, <1>10 DEF AtWorkers
<1>12. Sent' = Sent /\ Returning' = Returning /\ Arrived' = Arrived
  BY <1>1 DEF Sent, Returning, Arrived
<1> QED
  BY <1>3, <1>4, <1>6, <1>7, <1>8, <1>9, <1>11, <1>12 DEF m, s

LEMMA ReplyMoves ==
  ASSUME Types, OnePlace, NEW w \in Worker, Reply(w),
         NEW c, c = replying[w].from
  PROVE  /\ c \in Client
         /\ backend' \in Seq(Message) /\ replying' \in [Worker -> Message \cup {None}]
         /\ Once(backend') /\ Len(backend') = Len(backend) + 1
         /\ InHand(w) = {c} /\ InHand(w)' = {}
         /\ \A v \in Worker : v # w => InHand(v)' = InHand(v)
         /\ \A v \in Worker : Waiting(v)' = Waiting(v)
         /\ w \in Busy /\ Busy' = Busy \ {w}
         /\ Returning' = Returning \cup {c}
         /\ Sent' = Sent /\ AtWorkers' = AtWorkers /\ Arrived' = Arrived
<1> DEFINE m == replying[w]
<1>1. /\ m # None /\ backend' = Append(backend, m) /\ replying' = [replying EXCEPT ![w] = None]
      /\ UNCHANGED <<frontend, workerIn, inbox>>
  BY DEF Reply
<1>2. m \in Message /\ c \in Client /\ InHand(w) = {c} /\ backend \in Seq(Message)
  BY <1>1, MessageFacts DEF Types, InHand
<1>3. c \notin From(backend)
  BY <1>2 DEF OnePlace, Returning
<1>4. /\ backend' \in Seq(Message) /\ Once(backend') /\ Len(backend') = Len(backend) + 1
      /\ From(backend') = From(backend) \cup {c}
  BY <1>1, <1>2, <1>3, QueueAppend DEF OnePlace
<1>5. /\ replying' \in [Worker -> Message \cup {None}] /\ replying'[w] = None
      /\ \A v \in Worker : v # w => replying'[v] = replying[v]
  BY <1>1 DEF Types
<1>6. /\ InHand(w)' = {} /\ \A v \in Worker : v # w => InHand(v)' = InHand(v)
      /\ w \in Busy /\ Busy' = Busy \ {w}
  BY <1>1, <1>5 DEF InHand, Busy
<1>7. Returning' = Returning \cup {c}
  BY <1>4 DEF Returning
<1>8. /\ \A v \in Worker : Waiting(v)' = Waiting(v)
      /\ Sent' = Sent /\ AtWorkers' = AtWorkers /\ Arrived' = Arrived
  BY <1>1 DEF Sent, Arrived, AtWorkers, Waiting
<1> QED
  BY <1>2, <1>4, <1>5, <1>6, <1>7, <1>8

LEMMA ToClientMoves ==
  ASSUME Types, OnePlace, MoveToClient,
         NEW c, c = Head(backend).from
  PROVE  /\ c \in Client
         /\ backend' \in Seq(Message) /\ inbox' \in [Client -> Seq(Message)]
         /\ Once(backend') /\ Len(backend') = Len(backend) - 1 /\ Len(backend) \in Nat
         /\ \A d \in Client : Len(inbox'[d]) <= 1
         /\ c \in Returning /\ Returning' = Returning \ {c}
         /\ c \notin Arrived /\ Arrived' = Arrived \cup {c}
         /\ \A v \in Worker : Waiting(v)' = Waiting(v) /\ InHand(v)' = InHand(v)
         /\ Sent' = Sent /\ AtWorkers' = AtWorkers /\ Busy' = Busy
<1> DEFINE m == Head(backend)
<1>1. /\ backend # <<>> /\ backend' = Tail(backend)
      /\ inbox' = [inbox EXCEPT ![c] = Append(inbox[c], m)]
      /\ UNCHANGED <<frontend, workerIn, replying>>
  BY DEF MoveToClient, MayMove
<1>2. backend \in Seq(Message) /\ Once(backend)
  BY DEF Types, OnePlace
<1>3. /\ m \in Message /\ backend' \in Seq(Message) /\ c \in From(backend)
      /\ Once(backend') /\ From(backend') = From(backend) \ {c}
      /\ Len(backend) \in Nat /\ Len(backend') = Len(backend) - 1
  BY <1>1, <1>2, QueueTail
<1>4. c \in Client /\ c \in Returning /\ Returning' = Returning \ {c}
  BY <1>3, MessageFacts DEF Returning
<1>5. c \notin Arrived /\ inbox[c] = <<>>
  BY <1>4 DEF OnePlace, Arrived
<1>6. /\ inbox'[c] = Append(<<>>, m)
      /\ \A d \in Client : d # c => inbox'[d] = inbox[d]
  BY <1>1, <1>4, <1>5 DEF Types
<1>7. Append(<<>>, m) \in Seq(Message) /\ Len(Append(<<>>, m)) = 1 /\ Append(<<>>, m) # <<>>
  BY <1>3
<1>8. inbox' \in [Client -> Seq(Message)] /\ \A d \in Client : Len(inbox'[d]) <= 1
  <2>1. inbox' \in [Client -> Seq(Message)]
    BY <1>1, <1>4, <1>5, <1>7 DEF Types
  <2>2. Len(inbox'[c]) <= 1
    BY <1>6, <1>7
  <2>3. \A d \in Client : d # c => Len(inbox'[d]) <= 1
    BY <1>6 DEF OnePlace
  <2> QED
    BY <2>1, <2>2, <2>3
<1>9. Arrived' = Arrived \cup {c}
  BY <1>4, <1>6, <1>7 DEF Arrived
<1>10. /\ \A v \in Worker : Waiting(v)' = Waiting(v) /\ InHand(v)' = InHand(v)
       /\ Sent' = Sent /\ AtWorkers' = AtWorkers /\ Busy' = Busy
  BY <1>1 DEF Sent, AtWorkers, Waiting, InHand, Busy
<1> QED
  BY <1>3, <1>4, <1>5, <1>8, <1>9, <1>10

LEMMA ToWorkerMoves ==
  ASSUME Types, OnePlace, Asking, NEW w \in Worker, MoveToWorker(w),
         NEW c, c = Head(frontend).from
  PROVE  /\ c \in Client
         /\ frontend' \in Seq(Message) /\ workerIn' \in [Worker -> Seq(Message)]
         /\ Once(frontend') /\ Asked(frontend', asked)
         /\ \A v \in Worker : Once(workerIn'[v]) /\ Asked(workerIn'[v], asked)
         /\ c \in Sent /\ Sent' = Sent \ {c}
         /\ Waiting(w)' = Waiting(w) \cup {c}
         /\ \A v \in Worker : v # w => Waiting(v)' = Waiting(v)
         /\ \A v \in Worker : InHand(v)' = InHand(v)
         /\ c \notin AtWorkers /\ AtWorkers' = AtWorkers \cup {c}
         /\ Busy' = Busy /\ Returning' = Returning /\ Arrived' = Arrived
<1> DEFINE m == Head(frontend)
<1>1. /\ frontend # <<>> /\ frontend' = Tail(frontend)
      /\ workerIn' = [workerIn EXCEPT ![w] = Append(workerIn[w], m)]
      /\ UNCHANGED <<replying, backend, inbox>>
  BY DEF MoveToWorker, MayMove
<1>2. frontend \in Seq(Message) /\ Once(frontend) /\ Asked(frontend, asked)
  BY DEF Types, OnePlace, Asking
<1>3. /\ m \in Message /\ frontend' \in Seq(Message) /\ c \in From(frontend)
      /\ Once(frontend') /\ From(frontend') = From(frontend) \ {c}
      /\ Asked(frontend', asked) /\ m.kind = asked[c]
  BY <1>1, <1>2, QueueTail
<1>4. c \in Client /\ c \in Sent /\ Sent' = Sent \ {c}
  BY <1>3, MessageFacts DEF Sent
<1>5. \A v \in Worker : c \notin From(workerIn[v])
  BY <1>4 DEF OnePlace, Waiting
<1> DEFINE t == Append(workerIn[w], m)
<1>6. /\ t \in Seq(Message) /\ Once(t) /\ Asked(t, asked)
      /\ From(t) = From(workerIn[w]) \cup {c}
  <2>1. workerIn[w] \in Seq(Message) /\ Once(workerIn[w]) /\ Asked(workerIn[w], asked)
    BY DEF Types, OnePlace, Asking
  <2> QED
    BY <1>3, <1>5, <2>1, QueueAppend
<1> HIDE DEF t
<1>7. workerIn'[w] = t /\ \A v \in Worker : v # w => workerIn'[v] = workerIn[v]
  BY <1>1 DEF Types, t
<1>8. workerIn' \in [Worker -> Seq(Message)]
  BY <1>1, <1>6 DEF Types, t
<1>9. \A v \in Worker : Once(workerIn'[v]) /\ Asked(workerIn'[v], asked)
  BY <1>6, <1>7 DEF OnePlace, Asking
<1>10. /\ Waiting(w)' = Waiting(w) \cup {c}
       /\ \A v \in Worker : v # w => Waiting(v)' = Waiting(v)
  BY <1>6, <1>7 DEF Waiting
<1>11. c \notin AtWorkers /\ AtWorkers' = AtWorkers \cup {c}
  BY <1>5, <1>10 DEF AtWorkers, Waiting
<1>12. /\ \A v \in Worker : InHand(v)' = InHand(v)
       /\ Busy' = Busy /\ Returning' = Returning /\ Arrived' = Arrived
  BY <1>1 DEF InHand, Busy, Returning, Arrived
<1> QED
  BY <1>3, <1>4, <1>8, <1>9, <1>10, <1>11, <1>12
-----------------------------------------------------------------------------
(* A request is in one place.                                               *)

LEMMA OnePlaceSend ==
  ASSUME Types, OnePlace, Asking, NEW c \in Client, NEW k \in Kind, Send(c, k),
         UNCHANGED <<workerIn, replying, backend, inbox>>
  PROVE  OnePlace'
<1>1. /\ Elsewhere(c) /\ Once(frontend')
      /\ Sent' = Sent \cup {c} /\ Returning' = Returning /\ Arrived' = Arrived
      /\ \A w \in Worker : Waiting(w)' = Waiting(w) /\ InHand(w)' = InHand(w)
  BY SendMoves
<1>2. Once(backend)' /\ \A w \in Worker : Once(workerIn[w])'
  BY DEF OnePlace
<1>3. \A d \in Client : Len(inbox[d])' <= 1
  BY DEF OnePlace
<1> QED
  BY <1>1, <1>2, <1>3 DEF OnePlace, Elsewhere

LEMMA OnePlaceReceive ==
  ASSUME Types, OnePlace, Asking, NEW c \in Client, Receive(c)
  PROVE  OnePlace'
<1>1. /\ \A d \in Client : Len(inbox'[d]) <= 1
      /\ Arrived' = Arrived \ {c} /\ Sent' = Sent /\ Returning' = Returning
      /\ \A w \in Worker : Waiting(w)' = Waiting(w) /\ InHand(w)' = InHand(w)
  BY ReceiveMoves
<1>2. Once(frontend)' /\ Once(backend)' /\ \A w \in Worker : Once(workerIn[w])'
  BY DEF OnePlace, Receive
<1> QED
  BY <1>1, <1>2 DEF OnePlace

LEMMA OnePlacePerform ==
  ASSUME Types, OnePlace, Asking, NEW w \in Worker, Perform(w)
  PROVE  OnePlace'
<1> DEFINE c == Head(workerIn[w]).from
<1>1. /\ \A v \in Worker : Once(workerIn'[v])
      /\ c \in Waiting(w) /\ Waiting(w)' = Waiting(w) \ {c}
      /\ InHand(w)' = {c}
      /\ \A v \in Worker : v # w => Waiting(v)' = Waiting(v) /\ InHand(v)' = InHand(v)
      /\ Sent' = Sent /\ Returning' = Returning /\ Arrived' = Arrived
  BY PerformMoves
<1>2. Once(frontend)' /\ Once(backend)' /\ \A d \in Client : Len(inbox[d])' <= 1
  BY DEF OnePlace, Perform
<1> HIDE DEF c
<1> QED
  BY <1>1, <1>2 DEF OnePlace

LEMMA OnePlaceReply ==
  ASSUME Types, OnePlace, NEW w \in Worker, Reply(w)
  PROVE  OnePlace'
<1> DEFINE c == replying[w].from
<1>1. /\ Once(backend')
      /\ InHand(w) = {c} /\ InHand(w)' = {}
      /\ \A v \in Worker : v # w => InHand(v)' = InHand(v)
      /\ \A v \in Worker : Waiting(v)' = Waiting(v)
      /\ Returning' = Returning \cup {c} /\ Sent' = Sent /\ Arrived' = Arrived
  BY ReplyMoves
<1>2. Once(frontend)' /\ (\A v \in Worker : Once(workerIn[v])') /\ \A d \in Client : Len(inbox[d])' <= 1
  BY DEF OnePlace, Reply
<1> HIDE DEF c
<1> QED
  BY <1>1, <1>2 DEF OnePlace

LEMMA OnePlaceToClient ==
  ASSUME Types, OnePlace, MoveToClient
  PROVE  OnePlace'
<1> DEFINE c == Head(backend).from
<1>1. /\ Once(backend') /\ \A d \in Client : Len(inbox'[d]) <= 1
      /\ c \in Returning /\ Returning' = Returning \ {c} /\ Arrived' = Arrived \cup {c}
      /\ \A v \in Worker : Waiting(v)' = Waiting(v) /\ InHand(v)' = InHand(v)
      /\ Sent' = Sent
  BY ToClientMoves
<1>2. Once(frontend)' /\ \A v \in Worker : Once(workerIn[v])'
  BY DEF OnePlace, MoveToClient
<1> HIDE DEF c
<1> QED
  BY <1>1, <1>2 DEF OnePlace

LEMMA OnePlaceToWorker ==
  ASSUME Types, OnePlace, Asking, NEW w \in Worker, MoveToWorker(w)
  PROVE  OnePlace'
<1> DEFINE c == Head(frontend).from
<1>1. /\ Once(frontend') /\ \A v \in Worker : Once(workerIn'[v])
      /\ c \in Sent /\ Sent' = Sent \ {c} /\ Waiting(w)' = Waiting(w) \cup {c}
      /\ \A v \in Worker : v # w => Waiting(v)' = Waiting(v)
      /\ \A v \in Worker : InHand(v)' = InHand(v)
      /\ Returning' = Returning /\ Arrived' = Arrived
  BY ToWorkerMoves
<1>2. Once(backend)' /\ \A d \in Client : Len(inbox[d])' <= 1
  BY DEF OnePlace, MoveToWorker
<1> HIDE DEF c
<1> QED
  BY <1>1, <1>2 DEF OnePlace

(* The steps that move no message. *)
Idle == UNCHANGED netVars

LEMMA OnePlaceIdle ==
  ASSUME OnePlace, Idle
  PROVE  OnePlace'
<1>1. /\ Sent' = Sent /\ Returning' = Returning /\ Arrived' = Arrived
      /\ \A w \in Worker : Waiting(w)' = Waiting(w) /\ InHand(w)' = InHand(w)
  BY PlacesKept DEF Idle
<1>2. UNCHANGED <<frontend, backend, workerIn, inbox>>
  BY DEF Idle, netVars
<1> QED
  BY <1>1, <1>2 DEF OnePlace

-----------------------------------------------------------------------------
(* The courses a step can take.                                             *)

Others ==
  \/ \E c \in Client : GiveUp(c)
  \/ \E w \in Worker : ReplyFails(w)
  \/ Check \/ Poll \/ MovedToClients \/ MovedToWorkers \/ StopSocket
  \/ PollTimesOut \/ Signal \/ Stop \/ Finalize \/ UNCHANGED vars

Asks(c, k) ==
  /\ client[c] = IF k = "handshake" THEN "absent" ELSE "connected"
  /\ Send(c, k)
  /\ nAsked' \in [Client -> 0 .. MaxRequests]
  /\ UNCHANGED <<client, workerIn, replying, backend, inbox, countVars, routerVars, stopVars>>

LEMMA Courses ==
  ASSUME Types, [Next]_vars
  PROVE  \/ \E c \in Client, k \in Kind : Asks(c, k)
         \/ \E c \in Client : Receive(c)
         \/ \E w \in Worker : Perform(w) \/ Reply(w) \/ MoveToWorker(w)
         \/ MoveToClient
         \/ Others
<1>1. ASSUME NEW c \in Client, Connect(c) PROVE Asks(c, "handshake")
  BY <1>1 DEF Connect, Asks, Types
<1>2. ASSUME NEW c \in Client, NEW k \in Commands, Request(c, k) PROVE Asks(c, k) /\ k \in Kind
  <2>1. k \in Kind /\ k # "handshake"
    BY ZMQNetAssumption DEF Kind
  <2>2. nAsked' \in [Client -> 0 .. MaxRequests]
    <3>1. nAsked[c] \in 0 .. MaxRequests /\ nAsked[c] < MaxRequests /\ MaxRequests \in Nat
      BY <1>2, ZMQNetAssumption DEF Types, Request
    <3>2. nAsked[c] + 1 \in 0 .. MaxRequests
      BY <3>1
    <3> QED
      BY <1>2, <3>2 DEF Types, Request
  <2> QED
    BY <1>2, <2>1, <2>2 DEF Request, Asks
<1>3. ASSUME NEW c \in Client, Disconnect(c) PROVE Asks(c, "quit")
  BY <1>3 DEF Disconnect, Asks, Types
<1>4. "handshake" \in Kind /\ "quit" \in Kind
  BY DEF Kind
<1> QED
  BY <1>1, <1>2, <1>3, <1>4 DEF Next, ClientStep, WorkerStep, RouterStep, Others

LEMMA OthersIdle ==
  ASSUME Others
  PROVE  Idle /\ asked' = asked /\ nAsked' = nAsked /\ UNCHANGED countVars
  BY DEF Others, Idle, GiveUp, ReplyFails, Check, Poll, MovedToClients, MovedToWorkers,
         StopSocket, PollTimesOut, Signal, Stop, Finalize, vars, clientVars

LEMMA OnePlaceStep ==
  ASSUME Types, OnePlace, Asking, [Next]_vars
  PROVE  OnePlace'
<1>1. ASSUME NEW c \in Client, NEW k \in Kind, Asks(c, k) PROVE OnePlace'
  BY <1>1, OnePlaceSend DEF Asks
<1>2. CASE Others
  BY <1>2, OthersIdle, OnePlaceIdle
<1> QED
  BY <1>1, <1>2, Courses, OnePlaceReceive, OnePlacePerform, OnePlaceReply, OnePlaceToClient,
     OnePlaceToWorker
-----------------------------------------------------------------------------
(* The types.                                                               *)

LEMMA CountAfterIs ==
  ASSUME NEW m
  PROVE  /\ m.kind = "handshake" => CountAfter(m) = nClients + 1
         /\ m.kind = "quit" => CountAfter(m) = nClients - 1
         /\ m.kind \notin {"handshake", "quit"} => CountAfter(m) = nClients
<1>1. CASE m.kind = "handshake"
  BY <1>1 DEF CountAfter
<1>2. CASE m.kind = "quit"
  BY <1>2 DEF CountAfter
<1>3. CASE m.kind # "handshake" /\ m.kind # "quit"
  BY <1>3, Zenon DEF CountAfter
<1> QED
  BY <1>1, <1>2, <1>3

LEMMA InitTypes ==
  Init => Types
<1>1. 0 \in 0 .. MaxRequests /\ 0 \in 0 .. MaxPollMsg /\ <<>> \in Seq(Message)
  BY ZMQNetAssumption
<1> SUFFICES ASSUME Init PROVE Types
  OBVIOUS
<1>2. /\ client \in [Client -> {"absent", "connected", "gone", "failed"}]
      /\ asked \in [Client -> Kind \cup {None}] /\ nAsked \in [Client -> 0 .. MaxRequests]
  BY <1>1 DEF Init
<1>3. /\ workerIn \in [Worker -> Seq(Message)] /\ replying \in [Worker -> Message \cup {None}]
      /\ inbox \in [Client -> Seq(Message)]
      /\ frontend \in Seq(Message) /\ backend \in Seq(Message)
  BY <1>1 DEF Init
<1>4. router = "checking" /\ ready = {} /\ status = "Running"
  BY DEF Init
<1>5. nMsg \in 0 .. MaxPollMsg /\ nRequests \in Int /\ nClients \in Int
  BY <1>1 DEF Init
<1>6. hasConnected \in BOOLEAN /\ stopCmd \in BOOLEAN /\ stopAsked \in BOOLEAN /\ signalled \in BOOLEAN
  BY DEF Init
<1> QED
  BY <1>2, <1>3, <1>4, <1>5, <1>6 DEF Types

LEMMA TypesStep ==
  ASSUME Types, OnePlace, Asking, [Next]_vars
  PROVE  Types'
<1>1. ASSUME NEW c \in Client, NEW k \in Kind, Asks(c, k) PROVE Types'
  <2>1. frontend' \in Seq(Message)
    BY <1>1, SendMoves DEF Asks
  <2>2. asked' \in [Client -> Kind \cup {None}]
    BY <1>1 DEF Asks, Send, Types
  <2> QED
    BY <1>1, <2>1, <2>2 DEF Types, Asks, countVars, routerVars, stopVars
<1>2. ASSUME NEW c \in Client, Receive(c) PROVE Types'
  <2>1. inbox' \in [Client -> Seq(Message)]
    BY <1>2, ReceiveMoves
  <2> QED
    BY <1>2, <2>1 DEF Types, Receive, countVars, routerVars, stopVars
<1>3. ASSUME NEW w \in Worker, Perform(w) PROVE Types'
  <2>1. workerIn' \in [Worker -> Seq(Message)] /\ replying' \in [Worker -> Message \cup {None}]
    BY <1>3, PerformMoves
  <2>2. nClients' \in Int
    <3> DEFINE m == Head(workerIn[w])
    <3>1. nClients' = CountAfter(m) /\ nClients \in Int
      BY <1>3 DEF Perform, Types
    <3> QED
      BY <3>1, CountAfterIs
  <2>3. hasConnected' \in BOOLEAN /\ stopCmd' \in BOOLEAN
    BY <1>3 DEF Perform, StopAfter
  <2> QED
    BY <1>3, <2>1, <2>2, <2>3 DEF Types, Perform, clientVars, routerVars, stopVars
<1>4. ASSUME NEW w \in Worker, Reply(w) PROVE Types'
  <2>1. backend' \in Seq(Message) /\ replying' \in [Worker -> Message \cup {None}]
    BY <1>4, ReplyMoves
  <2> QED
    BY <1>4, <2>1 DEF Types, Reply, clientVars, countVars, routerVars, stopVars
<1>5. ASSUME NEW n \in 0 .. MaxPollMsg, n < MaxPollMsg PROVE n + 1 \in 0 .. MaxPollMsg
  BY <1>5, ZMQNetAssumption
<1>6. ASSUME NEW w \in Worker, MoveToWorker(w) PROVE Types'
  <2>1. frontend' \in Seq(Message) /\ workerIn' \in [Worker -> Seq(Message)]
    BY <1>6, ToWorkerMoves
  <2>2. nMsg' \in 0 .. MaxPollMsg
    BY <1>5, <1>6 DEF MoveToWorker, MayMove, Types
  <2> QED
    BY <1>6, <2>1, <2>2 DEF Types, MoveToWorker, clientVars, countVars, stopVars
<1>7. CASE MoveToClient
  <2>1. backend' \in Seq(Message) /\ inbox' \in [Client -> Seq(Message)]
    BY <1>7, ToClientMoves
  <2>2. nMsg' \in 0 .. MaxPollMsg
    BY <1>5, <1>7 DEF MoveToClient, MayMove, Types
  <2> QED
    BY <1>7, <2>1, <2>2 DEF Types, MoveToClient, clientVars, countVars, stopVars
<1>8. CASE Others
  <2>1. /\ UNCHANGED <<asked, nAsked, frontend, workerIn, replying, backend, inbox>>
        /\ UNCHANGED <<nClients, hasConnected, stopCmd>>
    BY <1>8, OthersIdle DEF Idle, netVars, countVars
  <2>2. client' \in [Client -> {"absent", "connected", "gone", "failed"}]
    BY <1>8 DEF Others, GiveUp, ReplyFails, Check, Poll, MovedToClients, MovedToWorkers, Types,
         StopSocket, PollTimesOut, Signal, Stop, Finalize, vars, clientVars
  <2>3. nMsg' \in 0 .. MaxPollMsg /\ nRequests' \in Int
    BY <1>8, ZMQNetAssumption
       DEF Others, GiveUp, ReplyFails, Check, Poll, MovedToClients, MovedToWorkers, Types,
         StopSocket, PollTimesOut, Signal, Stop, Finalize, vars, routerVars, RequestsAfterReplies
  <2>4. /\ router' \in {"checking", "polling", "toClients", "toWorkers", "stopSocket",
                        "stopped", "finalized", "terminated"}
        /\ ready' \subseteq {"backend", "frontend", "stop"}
        /\ status' \in {"Running", "StoppedAutomatically", "StoppedByRequest",
                        "StoppedByTimeOut", "StoppedBySignal"}
    BY <1>8
       DEF Others, GiveUp, ReplyFails, Check, Poll, MovedToClients, MovedToWorkers, Types,
         StopSocket, PollTimesOut, Signal, Stop, Finalize, vars, routerVars, Readable
  <2>5. stopAsked' \in BOOLEAN /\ signalled' \in BOOLEAN
    BY <1>8
       DEF Others, GiveUp, ReplyFails, Check, Poll, MovedToClients, MovedToWorkers, Types,
         StopSocket, PollTimesOut, Signal, Stop, Finalize, vars, stopVars
  <2> QED
    BY <2>1, <2>2, <2>3, <2>4, <2>5 DEF Types
<1> QED
  BY <1>1, <1>2, <1>3, <1>4, <1>6, <1>7, <1>8, Courses
-----------------------------------------------------------------------------
(* What is under way is what its client waits for.                          *)

LEMMA AskingKept ==
  ASSUME Asking, asked' = asked, client' = client,
         Asked(frontend', asked), \A w \in Worker : Asked(workerIn'[w], asked),
         \A c \in Client : Elsewhere(c) => Elsewhere(c)'
  PROVE  Asking'
<1>1. Asked(frontend, asked)' /\ \A w \in Worker : Asked(workerIn[w], asked)'
  OBVIOUS
<1>2. \A c \in Client : asked[c] = None => Elsewhere(c)' /\ client[c] # "failed"
  BY DEF Asking, Elsewhere
<1>3. \A c \in Client :
        asked[c] = None => /\ c \notin Sent' /\ c \notin Returning' /\ c \notin Arrived'
                           /\ \A w \in Worker : c \notin Waiting(w)' /\ c \notin InHand(w)'
                           /\ client[c] # "failed"
  BY <1>2 DEF Elsewhere
<1> QED
  BY <1>1, <1>3 DEF Asking

LEMMA AskingSend ==
  ASSUME Types, OnePlace, Asking, NEW c \in Client, NEW k \in Kind, Asks(c, k)
  PROVE  Asking'
<1>1. /\ Send(c, k) /\ UNCHANGED <<client, workerIn, replying, backend, inbox>>
      /\ client[c] = IF k = "handshake" THEN "absent" ELSE "connected"
  BY DEF Asks
<1>2. /\ Elsewhere(c) /\ asked'[c] = k
      /\ \A d \in Client : d # c => asked'[d] = asked[d]
      /\ Asked(frontend', asked')
      /\ Sent' = Sent \cup {c} /\ Returning' = Returning /\ Arrived' = Arrived
      /\ \A w \in Worker : Waiting(w)' = Waiting(w) /\ InHand(w)' = InHand(w)
  BY <1>1, SendMoves
<1>3. ASSUME NEW w \in Worker PROVE Asked(workerIn'[w], asked')
  <2>1. workerIn'[w] = workerIn[w] /\ workerIn[w] \in Seq(Message) /\ Asked(workerIn[w], asked)
        /\ c \notin From(workerIn[w])
    BY <1>1, <1>2 DEF Types, Asking, Elsewhere, Waiting
  <2> QED
    BY <1>2, <2>1, AskedElse
<1>4. k # None
  BY ZMQNetAssumption
<1>5. ASSUME NEW d \in Client
      PROVE  /\ asked'[d] = None => /\ d \notin Sent' /\ d \notin Returning' /\ d \notin Arrived'
                                    /\ \A w \in Worker : d \notin Waiting(w)' /\ d \notin InHand(w)'
                                    /\ client'[d] # "failed"
             /\ asked'[d] = "handshake" => client'[d] \in {"absent", "failed"}
             /\ asked'[d] \in {"request", "stopServer", "quit"} => client'[d] \in {"connected", "failed"}
  <2>1. CASE d = c
    BY <1>1, <1>2, <1>4, <2>1
  <2>2. CASE d # c
    BY <1>1, <1>2, <2>2 DEF Asking
  <2> QED
    BY <2>1, <2>2
<1> QED
  BY <1>2, <1>3, <1>5 DEF Asking

LEMMA AskingReceive ==
  ASSUME Types, OnePlace, Asking, NEW c \in Client, Receive(c)
  PROVE  Asking'
<1>1. /\ c \in Arrived /\ asked'[c] = None
      /\ \A d \in Client : d # c => asked'[d] = asked[d]
      /\ client'[c] = (IF asked[c] = "quit" THEN "gone" ELSE "connected")
      /\ \A d \in Client : d # c => client'[d] = client[d]
      /\ Arrived' = Arrived \ {c} /\ Sent' = Sent /\ Returning' = Returning
      /\ \A w \in Worker : Waiting(w)' = Waiting(w) /\ InHand(w)' = InHand(w)
  BY ReceiveMoves
<1>2. /\ c \notin Sent /\ c \notin Returning
      /\ \A w \in Worker : c \notin Waiting(w) /\ c \notin InHand(w)
  BY <1>1 DEF OnePlace
<1>3. UNCHANGED <<frontend, workerIn>>
  BY DEF Receive
<1>4. Asked(frontend', asked')
  <2>1. frontend \in Seq(Message) /\ Asked(frontend, asked) /\ c \notin From(frontend)
    BY <1>2 DEF Types, Asking, Sent
  <2> QED
    BY <1>1, <1>3, <2>1, AskedElse
<1>5. ASSUME NEW w \in Worker PROVE Asked(workerIn'[w], asked')
  <2>1. workerIn[w] \in Seq(Message) /\ Asked(workerIn[w], asked) /\ c \notin From(workerIn[w])
    BY <1>2 DEF Types, Asking, Waiting
  <2> QED
    BY <1>1, <1>3, <2>1, AskedElse
<1>6. None \notin Kind
  BY ZMQNetAssumption
<1>7. ASSUME NEW d \in Client
      PROVE  /\ asked'[d] = None => /\ d \notin Sent' /\ d \notin Returning' /\ d \notin Arrived'
                                    /\ \A w \in Worker : d \notin Waiting(w)' /\ d \notin InHand(w)'
                                    /\ client'[d] # "failed"
             /\ asked'[d] = "handshake" => client'[d] \in {"absent", "failed"}
             /\ asked'[d] \in {"request", "stopServer", "quit"} => client'[d] \in {"connected", "failed"}
  <2>1. CASE d = c
    BY <1>1, <1>2, <1>6, <2>1 DEF Kind
  <2>2. CASE d # c
    BY <1>1, <2>2 DEF Asking
  <2> QED
    BY <2>1, <2>2
<1> QED
  BY <1>4, <1>5, <1>7 DEF Asking

LEMMA AskingPerform ==
  ASSUME Types, OnePlace, Asking, NEW w \in Worker, Perform(w)
  PROVE  Asking'
<1> DEFINE c == Head(workerIn[w]).from
<1>1. /\ \A v \in Worker : Asked(workerIn'[v], asked)
      /\ c \in Waiting(w) /\ Waiting(w)' = Waiting(w) \ {c} /\ InHand(w)' = {c}
      /\ \A v \in Worker : v # w => Waiting(v)' = Waiting(v) /\ InHand(v)' = InHand(v)
      /\ Sent' = Sent /\ Returning' = Returning /\ Arrived' = Arrived
  BY PerformMoves
<1>2. asked' = asked /\ client' = client /\ frontend' = frontend /\ Asked(frontend, asked)
  BY DEF Perform, clientVars, Asking
<1> HIDE DEF c
<1>3. \A d \in Client : Elsewhere(d) => Elsewhere(d)'
  BY <1>1 DEF Elsewhere
<1> QED
  BY <1>1, <1>2, <1>3, AskingKept

LEMMA AskingReply ==
  ASSUME Types, OnePlace, Asking, NEW w \in Worker, Reply(w)
  PROVE  Asking'
<1> DEFINE c == replying[w].from
<1>1. /\ InHand(w) = {c} /\ InHand(w)' = {}
      /\ \A v \in Worker : v # w => InHand(v)' = InHand(v)
      /\ \A v \in Worker : Waiting(v)' = Waiting(v)
      /\ Returning' = Returning \cup {c} /\ Sent' = Sent /\ Arrived' = Arrived
  BY ReplyMoves
<1>2. /\ asked' = asked /\ client' = client /\ frontend' = frontend /\ workerIn' = workerIn
      /\ Asked(frontend, asked) /\ \A v \in Worker : Asked(workerIn[v], asked)
  BY DEF Reply, clientVars, Asking
<1> HIDE DEF c
<1>3. \A d \in Client : Elsewhere(d) => Elsewhere(d)'
  BY <1>1 DEF Elsewhere
<1> QED
  BY <1>2, <1>3, AskingKept

LEMMA AskingToClient ==
  ASSUME Types, OnePlace, Asking, MoveToClient
  PROVE  Asking'
<1> DEFINE c == Head(backend).from
<1>1. /\ c \in Returning /\ Returning' = Returning \ {c} /\ Arrived' = Arrived \cup {c}
      /\ \A v \in Worker : Waiting(v)' = Waiting(v) /\ InHand(v)' = InHand(v)
      /\ Sent' = Sent
  BY ToClientMoves
<1>2. /\ asked' = asked /\ client' = client /\ frontend' = frontend /\ workerIn' = workerIn
      /\ Asked(frontend, asked) /\ \A v \in Worker : Asked(workerIn[v], asked)
  BY DEF MoveToClient, clientVars, Asking
<1> HIDE DEF c
<1>3. \A d \in Client : Elsewhere(d) => Elsewhere(d)'
  BY <1>1 DEF Elsewhere
<1> QED
  BY <1>2, <1>3, AskingKept

LEMMA AskingToWorker ==
  ASSUME Types, OnePlace, Asking, NEW w \in Worker, MoveToWorker(w)
  PROVE  Asking'
<1> DEFINE c == Head(frontend).from
<1>1. /\ Asked(frontend', asked) /\ \A v \in Worker : Asked(workerIn'[v], asked)
      /\ c \in Sent /\ Sent' = Sent \ {c} /\ Waiting(w)' = Waiting(w) \cup {c}
      /\ \A v \in Worker : v # w => Waiting(v)' = Waiting(v)
      /\ \A v \in Worker : InHand(v)' = InHand(v)
      /\ Returning' = Returning /\ Arrived' = Arrived
  BY ToWorkerMoves
<1>2. asked' = asked /\ client' = client
  BY DEF MoveToWorker, clientVars
<1> HIDE DEF c
<1>3. \A d \in Client : Elsewhere(d) => Elsewhere(d)'
  BY <1>1 DEF Elsewhere
<1> QED
  BY <1>1, <1>2, <1>3, AskingKept

LEMMA OthersClient ==
  ASSUME Types, Others
  PROVE  \A c \in Client : client'[c] # client[c] => client'[c] = "failed" /\ asked[c] # None
<1>1. CASE \E c \in Client : GiveUp(c)
  <2>1. PICK c \in Client : client' = [client EXCEPT ![c] = "failed"] /\ asked[c] # None
    BY <1>1 DEF GiveUp
  <2> QED
    BY <2>1 DEF Types
<1>2. CASE ~ \E c \in Client : GiveUp(c)
  BY <1>2 DEF Others, ReplyFails, Check, Poll, MovedToClients, MovedToWorkers,
     StopSocket, PollTimesOut, Signal, Stop, Finalize, vars, clientVars
<1> QED
  BY <1>1, <1>2

LEMMA AskingOthers ==
  ASSUME Types, Asking, Others
  PROVE  Asking'
<1>1. /\ Sent' = Sent /\ Returning' = Returning /\ Arrived' = Arrived
      /\ \A w \in Worker : Waiting(w)' = Waiting(w) /\ InHand(w)' = InHand(w)
  BY OthersIdle, PlacesKept DEF Idle
<1>2. asked' = asked /\ UNCHANGED <<frontend, workerIn>>
  BY OthersIdle DEF Idle, netVars
<1>3. \A c \in Client : client'[c] # client[c] => client'[c] = "failed" /\ asked[c] # None
  BY OthersClient
<1> QED
  BY <1>1, <1>2, <1>3 DEF Asking

LEMMA AskingStep ==
  ASSUME Types, OnePlace, Asking, [Next]_vars
  PROVE  Asking'
  BY Courses, AskingSend, AskingReceive, AskingPerform, AskingReply, AskingToClient,
     AskingToWorker, AskingOthers
-----------------------------------------------------------------------------
(* The counters.                                                            *)

LEMMA Sizes ==
  ASSUME Types
  PROVE  /\ IsFiniteSet(AtWorkers) /\ Cardinality(AtWorkers) \in Nat
         /\ IsFiniteSet(Busy) /\ Cardinality(Busy) \in Nat
         /\ IsFiniteSet(Named) /\ Cardinality(Named) \in Nat
         /\ Len(backend) \in Nat
<1>1. AtWorkers \subseteq Client
  BY QueueEmpty DEF Types, AtWorkers, Waiting
<1>2. Busy \subseteq Worker /\ Named \subseteq Client
  BY DEF Busy, Named
<1>3. IsFiniteSet(AtWorkers) /\ IsFiniteSet(Busy) /\ IsFiniteSet(Named)
  BY <1>1, <1>2, FS_Subset, ZMQNetAssumption
<1>4. Len(backend) \in Nat
  BY DEF Types
<1> QED
  BY <1>3, <1>4, FS_CardinalityType

LEMMA OutstandingKept ==
  ASSUME Outstanding, AtWorkers' = AtWorkers, Busy' = Busy, backend' = backend,
         UNCHANGED <<router, nMsg, nRequests>>
  PROVE  Outstanding'
  BY DEF Outstanding, Moved

LEMMA OutstandingStep ==
  ASSUME Types, OnePlace, Asking, Outstanding, [Next]_vars
  PROVE  Outstanding'
<1> DEFINE A == Cardinality(AtWorkers)
           B == Cardinality(Busy)
           L == Len(backend)
<1>1. A \in Nat /\ B \in Nat /\ L \in Nat /\ nMsg \in Int /\ nRequests \in Int
  BY Sizes, ZMQNetAssumption DEF Types
<1>2. IsFiniteSet(AtWorkers) /\ IsFiniteSet(Busy)
  BY Sizes
<1>3. /\ router \notin {"toClients", "toWorkers"} => nMsg = 0
      /\ nRequests = A + B + L + Moved
  BY DEF Outstanding
<1> HIDE DEF A, B, L
<1>4. ASSUME NEW c \in Client, NEW k \in Kind, Asks(c, k) PROVE Outstanding'
  <2>1. AtWorkers' = AtWorkers /\ Busy' = Busy
    BY <1>4, SendMoves DEF Asks
  <2> QED
    BY <1>4, <2>1, OutstandingKept DEF Asks, routerVars
<1>5. ASSUME NEW c \in Client, Receive(c) PROVE Outstanding'
  <2>1. AtWorkers' = AtWorkers /\ Busy' = Busy
    BY <1>5, ReceiveMoves
  <2> QED
    BY <1>5, <2>1, OutstandingKept DEF Receive, routerVars
<1>6. ASSUME NEW w \in Worker, Perform(w) PROVE Outstanding'
  <2> DEFINE c == Head(workerIn[w]).from
  <2>1. /\ w \notin Busy /\ Busy' = Busy \cup {w}
        /\ AtWorkers' = AtWorkers \ {c} /\ c \in AtWorkers
    BY <1>6, PerformMoves
  <2> HIDE DEF c
  <2>2. A' = A - 1 /\ B' = B + 1
    BY <1>2, <2>1, FS_AddElement, FS_RemoveElement DEF A, B
  <2>3. L' = L /\ nRequests' = nRequests /\ router' = router /\ nMsg' = nMsg /\ Moved' = Moved
    BY <1>6 DEF Perform, routerVars, L, Moved
  <2>4. nRequests' = A' + B' + L' + Moved'
    <3>1. Moved \in Int
      BY <1>1 DEF Moved
    <3> QED
      BY <1>1, <1>3, <2>2, <2>3, <3>1
  <2> QED
    BY <1>3, <2>3, <2>4 DEF Outstanding, A, B, L
<1>7. ASSUME NEW w \in Worker, Reply(w) PROVE Outstanding'
  <2>1. /\ w \in Busy /\ Busy' = Busy \ {w} /\ Len(backend') = Len(backend) + 1
        /\ AtWorkers' = AtWorkers
    BY <1>7, ReplyMoves
  <2>2. A' = A /\ B' = B - 1 /\ L' = L + 1
    BY <1>2, <2>1, FS_RemoveElement DEF A, B, L
  <2>3. nRequests' = nRequests /\ router' = router /\ nMsg' = nMsg /\ Moved' = Moved
    BY <1>7 DEF Reply, routerVars, Moved
  <2>4. nRequests' = A' + B' + L' + Moved'
    <3>1. Moved \in Int
      BY <1>1 DEF Moved
    <3> QED
      BY <1>1, <1>3, <2>2, <2>3, <3>1
  <2> QED
    BY <1>3, <2>3, <2>4 DEF Outstanding, A, B, L
<1>8. CASE MoveToClient
  <2>1. Len(backend') = Len(backend) - 1 /\ AtWorkers' = AtWorkers /\ Busy' = Busy
    BY <1>8, ToClientMoves
  <2>2. A' = A /\ B' = B /\ L' = L - 1
    BY <2>1 DEF A, B, L
  <2>3. /\ nRequests' = nRequests /\ router' = router /\ router = "toClients"
        /\ nMsg' = nMsg + 1 /\ Moved = nMsg /\ Moved' = nMsg'
    BY <1>8 DEF MoveToClient, Moved
  <2>4. nRequests' = A' + B' + L' + Moved'
    BY <1>1, <1>3, <2>2, <2>3
  <2> QED
    BY <1>3, <2>3, <2>4 DEF Outstanding, A, B, L
<1>9. ASSUME NEW w \in Worker, MoveToWorker(w) PROVE Outstanding'
  <2> DEFINE c == Head(frontend).from
  <2>1. c \notin AtWorkers /\ AtWorkers' = AtWorkers \cup {c} /\ Busy' = Busy
    BY <1>9, ToWorkerMoves
  <2> HIDE DEF c
  <2>2. A' = A + 1 /\ B' = B
    BY <1>2, <2>1, FS_AddElement DEF A, B
  <2>3. /\ L' = L /\ nRequests' = nRequests /\ router' = router /\ router = "toWorkers"
        /\ nMsg' = nMsg + 1 /\ Moved = 0 - nMsg /\ Moved' = 0 - nMsg'
    BY <1>9 DEF MoveToWorker, Moved, L
  <2>4. nRequests' = A' + B' + L' + Moved'
    BY <1>1, <1>3, <2>2, <2>3
  <2> QED
    BY <1>3, <2>3, <2>4 DEF Outstanding, A, B, L
<1>10. CASE Others
  <2>1. A' = A /\ B' = B /\ L' = L
    BY <1>10, OthersIdle, PlacesKept DEF Idle, netVars, A, B, L
  <2>2. CASE MovedToClients
    <3>1. /\ nRequests' = nRequests - nMsg /\ nMsg' = 0 /\ Moved = nMsg /\ Moved' = 0
      BY <2>2 DEF MovedToClients, Moved, RequestsAfterReplies
    <3>2. nRequests' = A' + B' + L' + Moved'
      BY <1>1, <1>3, <2>1, <3>1
    <3> QED
      BY <3>1, <3>2 DEF Outstanding, A, B, L
  <2>3. CASE MovedToWorkers
    <3>1. /\ nRequests' = nRequests + nMsg /\ nMsg' = 0 /\ Moved = 0 - nMsg /\ Moved' = 0
      BY <2>3 DEF MovedToWorkers, Moved
    <3>2. nRequests' = A' + B' + L' + Moved'
      BY <1>1, <1>3, <2>1, <3>1
    <3> QED
      BY <3>1, <3>2 DEF Outstanding, A, B, L
  <2>4. CASE ~MovedToClients /\ ~MovedToWorkers
    <3>1. /\ nRequests' = nRequests /\ nMsg' = nMsg
          /\ \/ router' = router
             \/ router \notin {"toClients", "toWorkers"}
      BY <1>10, <2>4 DEF Others, GiveUp, ReplyFails, Check, Poll, StopSocket, PollTimesOut, Signal,
         Stop, Finalize, vars, routerVars
    <3>2. Moved' = Moved
      BY <1>3, <3>1 DEF Moved
    <3>3. router' \notin {"toClients", "toWorkers"} => nMsg' = 0
      BY <1>3, <3>1
    <3> QED
      BY <1>3, <2>1, <3>1, <3>2, <3>3 DEF Outstanding, A, B, L
  <2> QED
    BY <2>2, <2>3, <2>4
<1> QED
  BY <1>4, <1>5, <1>6, <1>7, <1>8, <1>9, <1>10, Courses
(* Who waits for the same and is served as before is announced as before.   *)
LEMMA AnnouncedKept ==
  ASSUME NEW c \in Client, asked'[c] = asked[c],
         asked[c] = None => client'[c] = client[c],
         Carried(c)' <=> Carried(c)
  PROVE  Announced(c)' <=> Announced(c)
  BY DEF Announced

LEMMA NamedKept ==
  ASSUME \A c \in Client : Announced(c)' <=> Announced(c)
  PROVE  Named' = Named
  BY DEF Named

LEMMA NamedSend ==
  ASSUME Types, OnePlace, Asking, NEW c \in Client, NEW k \in Kind, Asks(c, k)
  PROVE  Named' = Named
<1>1. /\ Send(c, k) /\ UNCHANGED <<client, workerIn, replying, backend, inbox>>
      /\ client[c] = IF k = "handshake" THEN "absent" ELSE "connected"
  BY DEF Asks
<1>2. /\ Elsewhere(c) /\ asked[c] = None /\ asked'[c] = k
      /\ \A d \in Client : d # c => asked'[d] = asked[d]
      /\ Returning' = Returning /\ Arrived' = Arrived
      /\ \A w \in Worker : InHand(w)' = InHand(w)
  BY <1>1, SendMoves
<1>3. \A d \in Client : Carried(d)' <=> Carried(d)
  BY <1>2 DEF Carried
<1>4. \A d \in Client : d # c => (Announced(d)' <=> Announced(d))
  BY <1>1, <1>2, <1>3, AnnouncedKept
<1>5. ~Carried(c) /\ ~Carried(c)'
  BY <1>2, <1>3 DEF Carried, Elsewhere
<1>6. k # None /\ k \in {"handshake", "request", "stopServer", "quit"}
  BY ZMQNetAssumption DEF Kind
<1>7. Announced(c)' <=> Announced(c)
  <2>1. CASE k = "handshake"
    BY <1>1, <1>2, <1>5, <1>6, <2>1, ZMQNetAssumption DEF Announced, Kind
  <2>2. CASE k # "handshake"
    BY <1>1, <1>2, <1>5, <1>6, <2>2, ZMQNetAssumption DEF Announced, Kind
  <2> QED
    BY <2>1, <2>2
<1> QED
  BY <1>4, <1>7, NamedKept

LEMMA NamedReceive ==
  ASSUME Types, OnePlace, Asking, NEW c \in Client, Receive(c)
  PROVE  Named' = Named
<1>1. /\ c \in Arrived /\ asked[c] # None /\ asked'[c] = None
      /\ \A d \in Client : d # c => asked'[d] = asked[d]
      /\ client'[c] = (IF asked[c] = "quit" THEN "gone" ELSE "connected")
      /\ \A d \in Client : d # c => client'[d] = client[d]
      /\ Arrived' = Arrived \ {c} /\ Returning' = Returning
      /\ \A w \in Worker : InHand(w)' = InHand(w)
  BY ReceiveMoves
<1>2. \A d \in Client : d # c => (Carried(d)' <=> Carried(d))
  BY <1>1 DEF Carried
<1>3. \A d \in Client : d # c => (Announced(d)' <=> Announced(d))
  BY <1>1, <1>2, AnnouncedKept
<1>4. Carried(c)
  BY <1>1 DEF Carried
<1>5. asked[c] \in {"handshake", "request", "stopServer", "quit"}
  BY <1>1 DEF Types, Kind
<1>6. None \notin {"handshake", "request", "stopServer", "quit"}
  BY ZMQNetAssumption DEF Kind
<1>7. Announced(c)' <=> asked[c] # "quit"
  BY <1>1, <1>6 DEF Announced
<1>8. Announced(c) <=> asked[c] # "quit"
  BY <1>1, <1>4, <1>5 DEF Announced
<1> QED
  BY <1>3, <1>7, <1>8, NamedKept

LEMMA NamedPerform ==
  ASSUME Types, OnePlace, Asking, NEW w \in Worker, Perform(w),
         NEW c, c = Head(workerIn[w]).from
  PROVE  /\ c \in Client /\ asked[c] = Head(workerIn[w]).kind /\ asked[c] \in Kind
         /\ ~Carried(c) /\ Carried(c)'
         /\ \A d \in Client : d # c => (Carried(d)' <=> Carried(d))
         /\ Named' = IF asked[c] = "handshake" THEN Named \cup {c}
                     ELSE IF asked[c] = "quit" THEN Named \ {c} ELSE Named
         /\ c \in Named <=> asked[c] # "handshake"
<1>1. /\ c \in Client /\ Head(workerIn[w]).kind = asked[c] /\ asked[c] # None
      /\ c \in Waiting(w) /\ InHand(w) = {} /\ InHand(w)' = {c}
      /\ \A v \in Worker : v # w => InHand(v)' = InHand(v)
      /\ Returning' = Returning /\ Arrived' = Arrived
  BY PerformMoves
<1>2. asked' = asked /\ client' = client
  BY DEF Perform, clientVars
<1>3. ~Carried(c)
  BY <1>1 DEF Carried, OnePlace
<1>4. Carried(c)'
  BY <1>1 DEF Carried
<1>5. \A d \in Client : d # c => (Carried(d)' <=> Carried(d))
  BY <1>1 DEF Carried
<1>6. \A d \in Client : d # c => (Announced(d)' <=> Announced(d))
  BY <1>2, <1>5, AnnouncedKept
<1>7. asked[c] \in Kind
  BY <1>1 DEF Types
<1>8. Announced(c) <=> asked[c] # "handshake"
  BY <1>1, <1>3, <1>7 DEF Announced, Kind
<1>9. Announced(c)' <=> asked[c] # "quit"
  BY <1>1, <1>2, <1>4, <1>7 DEF Announced, Kind
<1>10. Named' = IF asked[c] = "handshake" THEN Named \cup {c}
                ELSE IF asked[c] = "quit" THEN Named \ {c} ELSE Named
  <2>1. CASE asked[c] = "handshake"
    BY <1>1, <1>6, <1>9, <2>1 DEF Named
  <2>2. CASE asked[c] = "quit"
    BY <1>1, <1>6, <1>9, <2>2 DEF Named
  <2>3. CASE asked[c] # "handshake" /\ asked[c] # "quit"
    BY <1>6, <1>8, <1>9, <2>3 DEF Named
  <2> QED
    BY <2>1, <2>2, <2>3
<1> QED
  BY <1>1, <1>3, <1>4, <1>5, <1>7, <1>8, <1>10 DEF Named

LEMMA CarriedKept ==
  ASSUME Types, OnePlace, Asking,
         \/ \E w \in Worker : Reply(w) \/ MoveToWorker(w)
         \/ MoveToClient
         \/ Others
  PROVE  \A c \in Client : Carried(c)' <=> Carried(c)
<1>1. ASSUME NEW w \in Worker, Reply(w) PROVE \A c \in Client : Carried(c)' <=> Carried(c)
  <2> DEFINE c == replying[w].from
  <2>1. /\ InHand(w) = {c} /\ InHand(w)' = {}
        /\ \A v \in Worker : v # w => InHand(v)' = InHand(v)
        /\ Returning' = Returning \cup {c} /\ Arrived' = Arrived
    BY <1>1, ReplyMoves
  <2> HIDE DEF c
  <2> QED
    BY <2>1 DEF Carried
<1>2. ASSUME NEW w \in Worker, MoveToWorker(w) PROVE \A c \in Client : Carried(c)' <=> Carried(c)
  <2>1. Returning' = Returning /\ Arrived' = Arrived /\ \A v \in Worker : InHand(v)' = InHand(v)
    BY <1>2, ToWorkerMoves
  <2> QED
    BY <2>1 DEF Carried
<1>3. CASE MoveToClient
  <2> DEFINE c == Head(backend).from
  <2>1. /\ c \in Returning /\ Returning' = Returning \ {c} /\ Arrived' = Arrived \cup {c}
        /\ \A v \in Worker : InHand(v)' = InHand(v)
    BY <1>3, ToClientMoves
  <2> HIDE DEF c
  <2> QED
    BY <2>1 DEF Carried
<1>4. CASE Others
  BY <1>4, OthersIdle, PlacesKept DEF Idle, Carried
<1> QED
  BY <1>1, <1>2, <1>3, <1>4

LEMMA NamedOthers ==
  ASSUME Types, OnePlace, Asking,
         \/ \E w \in Worker : Reply(w) \/ MoveToWorker(w)
         \/ MoveToClient
         \/ Others
  PROVE  Named' = Named
<1>1. asked' = asked
  BY OthersIdle DEF Reply, MoveToWorker, MoveToClient, clientVars
<1>2. \A c \in Client : asked[c] = None => client'[c] = client[c]
  BY OthersClient DEF Reply, MoveToWorker, MoveToClient, clientVars
<1>3. \A c \in Client : Announced(c)' <=> Announced(c)
  BY <1>1, <1>2, CarriedKept, AnnouncedKept
<1> QED
  BY <1>3, NamedKept

LEMMA CountsStep ==
  ASSUME Types, OnePlace, Asking, Counts, [Next]_vars
  PROVE  Counts'
<1>1. Outstanding'
  BY OutstandingStep DEF Counts
<1>2. nClients = Cardinality(Named) /\ IsFiniteSet(Named)
  BY Sizes DEF Counts
<1>3. CASE \E w \in Worker : Perform(w)
  <2>1. PICK w \in Worker : Perform(w)
    BY <1>3
  <2> DEFINE m == Head(workerIn[w])
             c == m.from
  <2>2. /\ asked[c] = m.kind
        /\ Named' = IF asked[c] = "handshake" THEN Named \cup {c}
                    ELSE IF asked[c] = "quit" THEN Named \ {c} ELSE Named
        /\ c \in Named <=> asked[c] # "handshake"
    BY <2>1, NamedPerform
  <2>3. nClients' = CountAfter(m)
    BY <2>1 DEF Perform
  <2> HIDE DEF m, c
  <2>4. CASE asked[c] = "handshake"
    <3>1. Cardinality(Named') = Cardinality(Named) + 1
      BY <1>2, <2>2, <2>4, FS_AddElement
    <3>2. nClients' = nClients + 1
      BY <2>2, <2>3, <2>4, CountAfterIs
    <3> QED
      BY <1>1, <1>2, <3>1, <3>2 DEF Counts
  <2>5. CASE asked[c] = "quit"
    <3>1. Cardinality(Named') = Cardinality(Named) - 1
      BY <1>2, <2>2, <2>5, FS_RemoveElement
    <3>2. nClients' = nClients - 1
      BY <2>2, <2>3, <2>5, CountAfterIs
    <3> QED
      BY <1>1, <1>2, <3>1, <3>2 DEF Counts
  <2>6. CASE asked[c] \notin {"handshake", "quit"}
    <3>1. nClients' = nClients
      BY <2>2, <2>3, <2>6, CountAfterIs
    <3> QED
      BY <1>1, <1>2, <2>2, <2>6, <3>1 DEF Counts
  <2> QED
    BY <2>4, <2>5, <2>6
<1>4. CASE ~ \E w \in Worker : Perform(w)
  <2>1. Named' = Named
    BY <1>4, Courses, NamedSend, NamedReceive, NamedOthers
  <2>2. nClients' = nClients
    BY <1>4, Courses, OthersIdle DEF Asks, Receive, Reply, MoveToWorker, MoveToClient, countVars
  <2> QED
    BY <1>1, <1>2, <2>1, <2>2 DEF Counts
<1> QED
  BY <1>3, <1>4
-----------------------------------------------------------------------------
(* The end of the server.                                                   *)

Over == status \in {"StoppedAutomatically", "StoppedByRequest"} /\ ~stopAsked

Empty ==
  /\ router \in {"stopped", "finalized", "terminated"}
  /\ AtWorkers = {} /\ Busy = {} /\ Returning = {} /\ Named = {}

LEMMA StopKept ==
  ASSUME Types, [Next]_vars
  PROVE  stopAsked => stopAsked'
  BY Courses DEF Asks, Receive, Perform, Reply, MoveToWorker, MoveToClient, Others, GiveUp, ReplyFails,
     Check, Poll, MovedToClients, MovedToWorkers, StopSocket, PollTimesOut, Signal, Stop, Finalize,
     vars, stopVars

LEMMA ReadyStop ==
  ASSUME Types, "stop" \in ready => stopAsked, [Next]_vars
  PROVE  "stop" \in ready' => stopAsked'
<1>1. ready' = ready \/ ready' = {} \/ ready' = Readable
  BY Courses DEF Asks, Receive, Perform, Reply, MoveToWorker, MoveToClient, Others, GiveUp, ReplyFails,
     Check, Poll, MovedToClients, MovedToWorkers, StopSocket, PollTimesOut, Signal, Stop, Finalize,
     vars, routerVars
<1>2. "stop" \in Readable => stopAsked
  BY DEF Readable
<1> QED
  BY <1>1, <1>2, StopKept

(* The router finds its counters at 0 when nobody is left. *)
LEMMA DoneEmpty ==
  ASSUME Types, Counts, router = "checking", AllDone
  PROVE  AtWorkers = {} /\ Busy = {} /\ Returning = {} /\ Named = {}
<1> DEFINE A == Cardinality(AtWorkers)
           B == Cardinality(Busy)
           L == Len(backend)
<1>1. A \in Nat /\ B \in Nat /\ L \in Nat /\ IsFiniteSet(AtWorkers) /\ IsFiniteSet(Busy) /\ IsFiniteSet(Named)
  BY Sizes
<1>2. 0 = A + B + L
  <2>1. nRequests = 0 /\ Moved = 0 /\ nRequests = A + B + L + Moved
    BY DEF AllDone, Counts, Outstanding, Moved
  <2> HIDE DEF A, B, L
  <2> QED
    BY <1>1, <2>1
<1>3. A = 0 /\ B = 0 /\ L = 0
  <2> HIDE DEF A, B, L
  <2> QED
    BY <1>1, <1>2
<1>4. Cardinality(Named) = 0
  BY DEF AllDone, Counts
<1>5. Returning = {}
  BY <1>3, QueueEmpty DEF Types, Returning
<1> QED
  BY <1>1, <1>3, <1>4, <1>5, FS_EmptySet

LEMMA OverKept ==
  ASSUME Types, OnePlace, Asking, Counts, Over, Empty, [Next]_vars
  PROVE  Empty'
<1>1. ASSUME NEW c \in Client, NEW k \in Kind, Asks(c, k) PROVE Empty'
  <2>1. AtWorkers' = AtWorkers /\ Busy' = Busy /\ Returning' = Returning
    BY <1>1, SendMoves DEF Asks
  <2> QED
    BY <1>1, <2>1, NamedSend DEF Empty, Asks, routerVars
<1>2. ASSUME NEW c \in Client, Receive(c) PROVE Empty'
  <2>1. AtWorkers' = AtWorkers /\ Busy' = Busy /\ Returning' = Returning
    BY <1>2, ReceiveMoves
  <2> QED
    BY <1>2, <2>1, NamedReceive DEF Empty, Receive, routerVars
<1>3. ASSUME NEW w \in Worker PROVE ~Perform(w) /\ ~Reply(w)
  <2>1. ~Perform(w)
    BY PerformMoves DEF Empty
  <2>2. ~Reply(w)
    BY ReplyMoves DEF Empty
  <2> QED
    BY <2>1, <2>2
<1>4. ~MoveToClient /\ \A w \in Worker : ~MoveToWorker(w)
  BY DEF MoveToClient, MoveToWorker, Empty
<1>5. CASE Others
  <2>1. AtWorkers' = AtWorkers /\ Busy' = Busy /\ Returning' = Returning
    BY <1>5, OthersIdle, PlacesKept DEF Idle
  <2>2. router' \in {"stopped", "finalized", "terminated"}
    BY <1>5 DEF Empty, Over, Others, GiveUp, ReplyFails, Check, Poll, MovedToClients, MovedToWorkers,
       StopSocket, PollTimesOut, Signal, Stop, Finalize, vars, routerVars
  <2> QED
    BY <1>5, <2>1, <2>2, NamedOthers DEF Empty
<1> QED
  BY <1>1, <1>2, <1>3, <1>4, <1>5, Courses

LEMMA OverBegins ==
  ASSUME Types, OnePlace, Asking, Counts, Stopped, ~Over, [Next]_vars, Over'
  PROVE  Empty'
<1>1. ~stopAsked
  BY StopKept DEF Over
<1>2. status' # status
  BY <1>1 DEF Over
<1>3. status' \in {"StoppedAutomatically", "StoppedByRequest"}
  BY DEF Over
<1>4. Others
  BY <1>2, Courses DEF Asks, Receive, Perform, Reply, MoveToWorker, MoveToClient, routerVars
<1>5. Check /\ AllDone
  <2>1. "stop" \notin ready
    BY <1>1 DEF Stopped
  <2> QED
    BY <1>2, <1>3, <1>4, <2>1 DEF Others, GiveUp, ReplyFails, Check, Poll, MovedToClients,
       MovedToWorkers, StopSocket, PollTimesOut, Signal, Stop, Finalize, vars, routerVars
<1>6. AtWorkers = {} /\ Busy = {} /\ Returning = {} /\ Named = {}
  BY <1>5, DoneEmpty DEF Check
<1>7. AtWorkers' = AtWorkers /\ Busy' = Busy /\ Returning' = Returning
  BY <1>4, OthersIdle, PlacesKept DEF Idle
<1>8. router' = "stopped"
  BY <1>5 DEF Check
<1> QED
  BY <1>4, <1>6, <1>7, <1>8, NamedOthers DEF Empty

LEMMA StoppedStep ==
  ASSUME Types, OnePlace, Asking, Counts, Stopped, [Next]_vars
  PROVE  Stopped'
<1>1. "stop" \in ready' => stopAsked'
  BY ReadyStop DEF Stopped
<1>2. Over => Empty
  BY DEF Stopped, Over, Empty
<1>3. Over' => Empty'
  BY <1>2, OverKept, OverBegins
<1> QED
  BY <1>1, <1>3 DEF Stopped, Over, Empty

-----------------------------------------------------------------------------
LEMMA InitPlaces ==
  ASSUME Init
  PROVE  /\ Sent = {} /\ Returning = {} /\ Arrived = {}
         /\ \A w \in Worker : Waiting(w) = {} /\ InHand(w) = {}
         /\ AtWorkers = {} /\ Busy = {} /\ Named = {}
<1>1. /\ Sent = {} /\ Returning = {} /\ Arrived = {}
      /\ \A w \in Worker : Waiting(w) = {} /\ InHand(w) = {}
  BY DEF Init, Sent, Returning, Arrived, Waiting, InHand, From
<1>2. AtWorkers = {} /\ Busy = {}
  BY <1>1 DEF Init, AtWorkers, Busy
<1>3. Named = {}
  BY ZMQNetAssumption DEF Init, Named, Announced, Kind
<1> QED
  BY <1>1, <1>2, <1>3

LEMMA InitHolds ==
  Init => IInv
<1> SUFFICES ASSUME Init PROVE IInv
  OBVIOUS
<1> DEFINE none == <<>>
<1>1. none \in Seq(Message) /\ DOMAIN none = {} /\ Len(none) = 0
  OBVIOUS
<1>2. /\ frontend = none /\ backend = none
      /\ \A w \in Worker : workerIn[w] = none
      /\ \A c \in Client : inbox[c] = none
  BY DEF Init
<1> HIDE DEF none
<1>3. Once(none) /\ Asked(none, asked) /\ 0 <= 1
  BY <1>1 DEF Once, Asked
<1>4. OnePlace
  BY <1>1, <1>2, <1>3, InitPlaces DEF OnePlace
<1>5. Asking
  <2>1. \A c \in Client : client[c] = "absent" /\ asked[c] = None
    BY DEF Init
  <2>2. None \notin {"handshake", "request", "stopServer", "quit"}
    BY ZMQNetAssumption DEF Kind
  <2> QED
    BY <1>2, <1>3, <2>1, <2>2, InitPlaces DEF Asking
<1>6. Counts
  <2>1. Cardinality(AtWorkers) = 0 /\ Cardinality(Busy) = 0 /\ Cardinality(Named) = 0
    BY InitPlaces, FS_EmptySet
  <2>2. Len(backend) = 0 /\ Moved = 0 /\ nRequests = 0 /\ nClients = 0 /\ nMsg = 0
    BY <1>1, <1>2 DEF Moved, Init
  <2> QED
    BY <2>1, <2>2 DEF Counts, Outstanding
<1>7. Stopped
  BY DEF Stopped, Init
<1> QED
  BY <1>4, <1>5, <1>6, <1>7, InitTypes DEF IInv

LEMMA StepHolds ==
  IInv /\ [Next]_vars => IInv'
  BY TypesStep, OnePlaceStep, AskingStep, CountsStep, StoppedStep DEF IInv

(* The inductive invariant. *)
THEOREM EachInOnePlace ==
  Spec => []IInv
  BY InitHolds, StepHolds, PTL DEF Spec
-----------------------------------------------------------------------------
(* What the runs check.                                                     *)

(* Whenever the router decides whether to stop, m_n_requests is the number  *)
(* of requests between its two sockets.                                     *)
THEOREM RequestsCounted ==
  Spec => []OutstandingExact
<1>1. IInv => OutstandingExact
  <2> SUFFICES ASSUME IInv, router \in {"checking", "polling"} PROVE OutstandingExact
    BY DEF OutstandingExact
  <2> DEFINE W == {c \in Client : \E w \in Worker : \E i \in 1 .. Len(workerIn[w]) :
                     workerIn[w][i].from = c}
  <2>1. \A w \in Worker : /\ workerIn[w] \in Seq(Message) /\ DOMAIN workerIn[w] = 1 .. Len(workerIn[w])
                          /\ Waiting(w) \subseteq Client
    BY QueueEmpty DEF IInv, Types, Waiting
  <2>2. W = AtWorkers
    BY <2>1 DEF AtWorkers, Waiting, From
  <2>3. Moved = 0
    BY DEF Moved
  <2>4. nRequests = Cardinality(AtWorkers) + Cardinality(Busy) + Len(backend) + Moved
    BY DEF IInv, Counts, Outstanding
  <2>5. Cardinality(AtWorkers) \in Nat /\ Cardinality(Busy) \in Nat /\ Len(backend) \in Nat
    BY Sizes DEF IInv
  <2>6. nRequests = Cardinality(AtWorkers) + Cardinality(Busy) + Len(backend)
    BY <2>3, <2>4, <2>5
  <2> QED
    BY <2>2, <2>6 DEF OutstandingExact, Busy
<1> QED
  BY <1>1, EachInOnePlace, PTL

LEMMA ServedIs ==
  Types => \A c \in Client : Served(c) <=> Carried(c)
<1> SUFFICES ASSUME Types, NEW c \in Client PROVE Served(c) <=> Carried(c)
  OBVIOUS
<1>1. (\E w \in Worker : c \in InHand(w)) <=> \E w \in Worker : replying[w] # None /\ replying[w].from = c
  BY DEF InHand
<1>2. DOMAIN backend = 1 .. Len(backend)
  BY DEF Types
<1>3. c \in Returning <=> \E i \in 1 .. Len(backend) : backend[i].from = c
  BY <1>2 DEF Returning, From
<1>4. c \in Arrived <=> inbox[c] # <<>>
  BY DEF Arrived
<1> QED
  BY <1>1, <1>3, <1>4 DEF Served, Carried

(* When the server finishes by itself or on a client's command, no client   *)
(* that has shaken hands is left.                                           *)
THEOREM FinishesLast ==
  Spec => []NobodyCutOff
<1>1. IInv => NobodyCutOff
  <2> SUFFICES ASSUME IInv, Over, NEW c \in Client
               PROVE  \/ client[c] \in {"gone", "failed"}
                      \/ client[c] = "absent" /\ (asked[c] = "handshake" => ~Served(c))
                      \/ asked[c] = "quit" /\ inbox[c] # <<>>
    BY DEF NobodyCutOff, Over
  <2>1. ~Announced(c) /\ Returning = {} /\ Busy = {}
    BY DEF IInv, Stopped, Over, Named
  <2>2. client[c] \in {"absent", "connected", "gone", "failed"} /\ asked[c] \in Kind \cup {None}
    BY DEF IInv, Types
  <2>3. CASE client[c] = "absent"
    BY <2>1, <2>3, ServedIs DEF IInv, Announced
  <2>4. CASE client[c] = "connected"
    <3>1. asked[c] # None /\ asked[c] # "handshake"
      BY <2>1, <2>4 DEF Announced, IInv, Asking
    <3>2. asked[c] = "quit" /\ Carried(c)
      BY <2>1, <2>2, <3>1 DEF Announced, Kind
    <3>3. \A w \in Worker : InHand(w) = {}
      BY <2>1 DEF Busy, InHand
    <3>4. c \in Arrived
      BY <2>1, <3>2, <3>3 DEF Carried
    <3> QED
      BY <3>2, <3>4 DEF Arrived
  <2> QED
    BY <2>2, <2>3, <2>4
<1> QED
  BY <1>1, EachInOnePlace, PTL

(* The server's counters are exact enough to stop at the right time. *)
THEOREM StopsAtTheRightTime ==
  Spec => []StopsSafely
<1>1. OutstandingExact /\ NobodyCutOff => StopsSafely
  BY DEF StopsSafely
<1> QED
  BY <1>1, RequestsCounted, FinishesLast, PTL

-----------------------------------------------------------------------------
(* Each request is served once.                                             *)

ServedOf == [c \in Client |-> Served(c)]

LEMMA ServedIsNext ==
  Types' => (\A c \in Client : Served(c) <=> Carried(c))'
  BY ServedIs, PTL

LEMMA ServedChange ==
  ASSUME Types, Types', NEW c \in Client,
         \A d \in Client : d # c => (Carried(d)' <=> Carried(d))
  PROVE  /\ Carried(c)' => ServedOf' = [ServedOf EXCEPT ![c] = TRUE]
         /\ ~Carried(c)' => ServedOf' = [ServedOf EXCEPT ![c] = FALSE]
         /\ (Carried(c)' <=> Carried(c)) => ServedOf' = ServedOf
<1>1. \A d \in Client : (Served(d) <=> Carried(d)) /\ (Served(d)' <=> Carried(d)')
  BY ServedIs, ServedIsNext
<1>2. \A d \in Client : Served(d) \in BOOLEAN /\ Served(d)' \in BOOLEAN
  BY DEF Served
<1>3. /\ ServedOf' = [d \in Client |-> Served(d)']
      /\ ServedOf = [d \in Client |-> Served(d)]
  BY DEF ServedOf
<1>4. \A d \in Client : d # c => Served(d)' = Served(d)
  BY <1>1, <1>2
<1>5. CASE Carried(c)'
  <2>1. Served(c)' = TRUE
    BY <1>1, <1>2, <1>5
  <2> QED
    BY <1>1, <1>2, <1>3, <1>4, <1>5, <2>1
<1>6. CASE ~Carried(c)'
  <2>1. Served(c)' = FALSE
    BY <1>1, <1>2, <1>6
  <2> QED
    BY <1>1, <1>2, <1>3, <1>4, <1>6, <2>1
<1> QED
  BY <1>5, <1>6
LEMMA AskStep ==
  ASSUME IInv, Types', NEW c \in Client, NEW k \in Kind, Asks(c, k)
  PROVE  Service!Ask(c, k)
<1>1. /\ Send(c, k) /\ UNCHANGED <<client, workerIn, replying, backend, inbox>> /\ nClients' = nClients
  BY DEF Asks, countVars
<1>2. /\ Returning' = Returning /\ Arrived' = Arrived /\ \A w \in Worker : InHand(w)' = InHand(w)
  BY <1>1, SendMoves DEF IInv
<1>3. \A d \in Client : Carried(d)' <=> Carried(d)
  BY <1>2 DEF Carried
<1>4. ServedOf' = ServedOf
  BY <1>3, ServedChange DEF IInv
<1> QED
  BY <1>1, <1>4 DEF Service!Ask, Send, ServedOf

LEMMA AnswerStep ==
  ASSUME IInv, Types', NEW c \in Client, Receive(c)
  PROVE  Service!Answer(c)
<1>1. /\ c \in Arrived /\ asked[c] # None /\ Arrived' = Arrived \ {c} /\ Returning' = Returning
      /\ \A w \in Worker : InHand(w)' = InHand(w)
  BY ReceiveMoves DEF IInv
<1>2. \A d \in Client : d # c => (Carried(d)' <=> Carried(d))
  BY <1>1 DEF Carried
<1>3. Carried(c) /\ ~Carried(c)'
  BY <1>1 DEF Carried, IInv, OnePlace
<1>4. ServedOf' = [ServedOf EXCEPT ![c] = FALSE]
  BY <1>2, <1>3, ServedChange DEF IInv
<1>5. Served(c)
  BY <1>3, ServedIs DEF IInv
<1>6. asked' = [asked EXCEPT ![c] = None] /\ nClients' = nClients
  BY DEF Receive, countVars
<1> QED
  BY <1>1, <1>4, <1>5, <1>6 DEF Service!Answer, ServedOf

LEMMA ServeStep ==
  ASSUME IInv, Types', NEW w \in Worker, Perform(w)
  PROVE  \E c \in Client : Service!Serve(c)
<1> DEFINE m == Head(workerIn[w])
<1>0. PICK c : c = m.from
  OBVIOUS
<1>1. /\ c \in Client /\ asked[c] = m.kind /\ asked[c] \in Kind
      /\ ~Carried(c) /\ Carried(c)'
      /\ \A d \in Client : d # c => (Carried(d)' <=> Carried(d))
  <2>1. Types /\ OnePlace /\ Asking
    BY DEF IInv
  <2> QED
    BY <1>0, <2>1, NamedPerform
<1>2. nClients' = CountAfter(m) /\ asked' = asked
  BY DEF Perform, clientVars
<1> HIDE DEF m
<1>3. ServedOf' = [ServedOf EXCEPT ![c] = TRUE]
  <2>1. Types
    BY DEF IInv
  <2> QED
    BY <1>1, <2>1, ServedChange
<1>4. ~Served(c) /\ asked[c] # None
  BY <1>1, ServedIs, ZMQNetAssumption DEF IInv
<1>5. CountAfter(m) = Service!CountAfter(asked[c], nClients)
  <2>1. CASE m.kind = "handshake"
    BY <1>1, <2>1 DEF CountAfter, Service!CountAfter
  <2>2. CASE m.kind = "quit"
    BY <1>1, <2>2 DEF CountAfter, Service!CountAfter
  <2>3. CASE m.kind # "handshake" /\ m.kind # "quit"
    BY <1>1, <2>3, Zenon DEF CountAfter, Service!CountAfter
  <2> QED
    BY <2>1, <2>2, <2>3
<1>6. Service!Serve(c)
  BY <1>1, <1>2, <1>3, <1>4, <1>5 DEF Service!Serve, ServedOf
<1> QED
  BY <1>1, <1>6

LEMMA SilentStep ==
  ASSUME IInv, Types',
         \/ \E w \in Worker : Reply(w) \/ MoveToWorker(w)
         \/ MoveToClient
         \/ Others
  PROVE  UNCHANGED Service!vars
<1>1. asked' = asked /\ nClients' = nClients
  BY OthersIdle DEF Reply, MoveToWorker, MoveToClient, clientVars, countVars
<1>2. \A d \in Client : Carried(d)' <=> Carried(d)
  BY CarriedKept DEF IInv
<1>3. ServedOf' = ServedOf
  <2>1. CASE Client = {}
    BY <2>1 DEF ServedOf
  <2>2. CASE Client # {}
    BY <1>2, <2>2, ServedChange DEF IInv
  <2> QED
    BY <2>1, <2>2
<1> QED
  BY <1>1, <1>3 DEF Service!vars, ServedOf

(* Router, workers and client sockets carry out every request once and by   *)
(* itself, and give each client the answer to its own request: they         *)
(* implement RequestReply.  What moves a message without carrying it out,   *)
(* and a client that gives up, are steps that RequestReply does not see.    *)
THEOREM RequestsServedOnce ==
  Spec => ServesRequests
<1>1. Init => Service!Init
  <2> SUFFICES ASSUME Init PROVE Service!Init
    OBVIOUS
  <2>1. Types /\ \A c \in Client : ~Carried(c)
    BY InitTypes, InitPlaces DEF Carried
  <2>2. \A c \in Client : Served(c) = FALSE
    <3>1. \A c \in Client : ~Served(c) /\ Served(c) \in BOOLEAN
      BY <2>1, ServedIs DEF Served
    <3> QED
      BY <3>1
  <2> QED
    BY <2>2 DEF Service!Init, Init
<1>2. IInv /\ IInv' /\ [Next]_vars => [Service!Next]_Service!vars
  <2> SUFFICES ASSUME IInv, IInv', [Next]_vars PROVE [Service!Next]_Service!vars
    OBVIOUS
  <2>1. Types'
    BY DEF IInv
  <2>2. CASE \E c \in Client, k \in Kind : Asks(c, k)
    BY <2>1, <2>2, AskStep DEF Service!Next
  <2>3. CASE \E c \in Client : Receive(c)
    BY <2>1, <2>3, AnswerStep DEF Service!Next
  <2>4. CASE \E w \in Worker : Perform(w)
    BY <2>1, <2>4, ServeStep DEF Service!Next
  <2>5. CASE \/ \E w \in Worker : Reply(w) \/ MoveToWorker(w)
             \/ MoveToClient
             \/ Others
    BY <2>1, <2>5, SilentStep
  <2> QED
    BY <2>2, <2>3, <2>4, <2>5, Courses DEF IInv
<1> QED
  BY <1>1, <1>2, EachInOnePlace, PTL DEF Spec, ServesRequests, Service!Spec
-----------------------------------------------------------------------------
(* The bounds of the counters.                                              *)

LEMMA QueueSize ==
  ASSUME NEW s \in Seq(Message), Once(s)
  PROVE  Len(s) <= Cardinality(From(s)) /\ IsFiniteSet(From(s))
<1> DEFINE f == [i \in 1 .. Len(s) |-> s[i].from]
<1>1. Len(s) \in Nat /\ DOMAIN s = 1 .. Len(s)
  OBVIOUS
<1>2. IsFiniteSet(1 .. Len(s)) /\ Cardinality(1 .. Len(s)) = Len(s)
  BY <1>1, FS_Interval
<1>3. From(s) \subseteq Client
  BY QueueEmpty
<1>4. IsFiniteSet(From(s))
  BY <1>3, FS_Subset, ZMQNetAssumption
<1>5. f \in Injection(1 .. Len(s), From(s))
  BY <1>1 DEF Injection, IsInjective, From, Once
<1>6. Cardinality(1 .. Len(s)) <= Cardinality(From(s))
  BY <1>4, <1>5, FS_Injection
<1> QED
  BY <1>2, <1>4, <1>6

LEMMA OutstandingBound ==
  ASSUME Types, OnePlace
  PROVE  Cardinality(AtWorkers) + Cardinality(Busy) + Len(backend) \in 0 .. Cardinality(Client)
<1> DEFINE Hands == UNION {InHand(w) : w \in Worker}
           f == [w \in Busy |-> replying[w].from]
           Two == AtWorkers \cup Hands
<1>1. AtWorkers \subseteq Client /\ Hands \subseteq Client /\ Returning \subseteq Client
  <2>1. \A w \in Worker : Waiting(w) \subseteq Client
    BY QueueEmpty DEF Types, Waiting
  <2>2. \A w \in Worker : InHand(w) \subseteq Client
    BY MessageFacts DEF Types, InHand
  <2>3. Returning \subseteq Client
    BY QueueEmpty DEF Types, Returning
  <2> QED
    BY <2>1, <2>2, <2>3 DEF AtWorkers
<1>2. AtWorkers \cap Hands = {} /\ Two \cap Returning = {}
  BY DEF OnePlace, AtWorkers
<1>3. f \in Injection(Busy, Hands)
  <2>1. \A w \in Busy : w \in Worker /\ InHand(w) = {replying[w].from}
    BY DEF Busy, InHand
  <2>2. \A w \in Busy : replying[w].from \in Hands
    BY <2>1
  <2>3. \A v, w \in Busy : replying[v].from = replying[w].from => v = w
    BY <2>1 DEF OnePlace
  <2> HIDE DEF Hands
  <2> QED
    BY <2>2, <2>3 DEF Injection, IsInjective
<1>4. Len(backend) <= Cardinality(Returning)
  BY QueueSize DEF Types, OnePlace, Returning
<1> HIDE DEF Hands, f
<1>5. IsFiniteSet(AtWorkers) /\ IsFiniteSet(Hands) /\ IsFiniteSet(Returning)
  BY <1>1, FS_Subset, ZMQNetAssumption
<1>6. Cardinality(Busy) <= Cardinality(Hands)
  BY <1>3, <1>5, FS_Injection
<1>7. IsFiniteSet(Two) /\ Cardinality(Two) = Cardinality(AtWorkers) + Cardinality(Hands)
  <2>1. Cardinality(Two) = Cardinality(AtWorkers) + Cardinality(Hands) - Cardinality(AtWorkers \cap Hands)
    BY <1>5, FS_Union
  <2>2. Cardinality(AtWorkers \cap Hands) = 0
    BY <1>2, FS_EmptySet
  <2>3. Cardinality(AtWorkers) \in Nat /\ Cardinality(Hands) \in Nat
    BY <1>5, FS_CardinalityType
  <2> QED
    BY <1>5, <2>1, <2>2, <2>3, FS_Union
<1>8. Cardinality(Two \cup Returning) = Cardinality(Two) + Cardinality(Returning)
  <2> HIDE DEF Two
  <2>1. Cardinality(Two \cup Returning)
          = Cardinality(Two) + Cardinality(Returning) - Cardinality(Two \cap Returning)
    BY <1>5, <1>7, FS_Union
  <2>2. Cardinality(Two \cap Returning) = 0
    BY <1>2, FS_EmptySet
  <2>3. Cardinality(Two) \in Nat /\ Cardinality(Returning) \in Nat
    BY <1>5, <1>7, FS_CardinalityType
  <2> QED
    BY <2>1, <2>2, <2>3
<1>9. Cardinality(Two \cup Returning) <= Cardinality(Client)
  BY <1>1, FS_Subset, ZMQNetAssumption
<1>10. /\ Cardinality(AtWorkers) \in Nat /\ Cardinality(Hands) \in Nat /\ Cardinality(Returning) \in Nat
       /\ Cardinality(Busy) \in Nat /\ Len(backend) \in Nat /\ Cardinality(Client) \in Nat
  BY <1>5, Sizes, FS_CardinalityType, ZMQNetAssumption
<1> DEFINE cT == Cardinality(Two)
           cU == Cardinality(Two \cup Returning)
<1>11. cT = Cardinality(AtWorkers) + Cardinality(Hands)
  BY <1>7
<1>12. cU = cT + Cardinality(Returning) /\ cU <= Cardinality(Client)
  BY <1>8, <1>9
<1> HIDE DEF cT, cU, Two
<1> QED
  BY <1>4, <1>6, <1>10, <1>11, <1>12

LEMMA OutstandingBoundNext ==
  Types' /\ OnePlace' =>
    (Cardinality(AtWorkers) + Cardinality(Busy) + Len(backend) \in 0 .. Cardinality(Client))'
<1>1. Types /\ OnePlace =>
        Cardinality(AtWorkers) + Cardinality(Busy) + Len(backend) \in 0 .. Cardinality(Client)
  BY OutstandingBound
<1> QED
  BY <1>1, PTL

Bounded == nRequests \in 0 .. Cardinality(Client)

(* Every variable has its type: m_n_requests and m_clients are never        *)
(* negative, and neither exceeds the number of clients.                     *)
THEOREM TypeCorrect ==
  Spec => []TypeOK
<1>1. Init => Bounded
  <2>1. Cardinality(Client) \in Nat
    BY FS_CardinalityType, ZMQNetAssumption
  <2> QED
    BY <2>1 DEF Init, Bounded
<1>2. IInv /\ IInv' /\ Bounded /\ [Next]_vars => Bounded'
  <2> SUFFICES ASSUME IInv, IInv', Bounded, [Next]_vars PROVE Bounded'
    OBVIOUS
  <2>1. CASE nRequests' = nRequests
    BY <2>1 DEF Bounded
  <2>2. CASE MovedToClients \/ MovedToWorkers
    <3> DEFINE S == Cardinality(AtWorkers) + Cardinality(Busy) + Len(backend)
    <3>1. S' \in 0 .. Cardinality(Client)
      BY OutstandingBoundNext DEF IInv
    <3>2. Moved' = 0
      BY <2>2 DEF MovedToClients, MovedToWorkers, Moved
    <3>3. nRequests' = S' + Moved'
      BY DEF IInv, Counts, Outstanding
    <3>4. Cardinality(Client) \in Nat
      BY FS_CardinalityType, ZMQNetAssumption
    <3>5. PICK n : n = S'
      OBVIOUS
    <3>6. n \in 0 .. Cardinality(Client)
      BY <3>1, <3>5
    <3>7. nRequests' = n + 0
      BY <3>2, <3>3, <3>5
    <3>8. nRequests' \in 0 .. Cardinality(Client)
      BY <3>4, <3>6, <3>7
    <3> QED
      BY <3>8 DEF Bounded
  <2> QED
    BY <2>1, <2>2, Courses DEF IInv, Asks, Receive, Perform, Reply, MoveToWorker, MoveToClient, Others,
       GiveUp, ReplyFails, Check, Poll, StopSocket, PollTimesOut, Signal, Stop, Finalize, vars, routerVars
<1>3. IInv /\ Bounded => TypeOK
  <2> SUFFICES ASSUME IInv, Bounded PROVE TypeOK
    OBVIOUS
  <2>1. nClients \in 0 .. Cardinality(Client)
    <3>1. nClients = Cardinality(Named) /\ Named \subseteq Client /\ IsFiniteSet(Named)
      BY Sizes DEF IInv, Counts, Named
    <3>2. Cardinality(Named) \in Nat /\ Cardinality(Client) \in Nat
      BY <3>1, FS_CardinalityType, ZMQNetAssumption
    <3>3. Cardinality(Named) <= Cardinality(Client)
      BY <3>1, FS_Subset, ZMQNetAssumption
    <3> QED
      BY <3>1, <3>2, <3>3
  <2> QED
    BY <2>1 DEF IInv, Types, Bounded, TypeOK
<1> QED
  BY <1>1, <1>2, <1>3, EachInOnePlace, PTL DEF Spec
=============================================================================
