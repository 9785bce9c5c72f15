------------------------------ MODULE RequestReply ------------------------------
(***************************************************************************)
(* What the parameter server's network promises to its clients: a client    *)
(* has at most one request outstanding, it is carried out once, by itself,  *)
(* and the answer the client gets is the answer to it.  The server keeps    *)
(* count of the clients that have announced themselves and not yet quit.    *)
(***************************************************************************)
EXTENDS Integers

CONSTANTS Client, Kind, None

VARIABLES
  asked,   \* asked[c]: the kind of the request of c that is outstanding, or None
  served,  \* served[c]: has it been carried out?
  clients  \* the number of clients counted in

vars == <<asked, served, clients>>

Init ==
  /\ asked = [c \in Client |-> None]
  /\ served = [c \in Client |-> FALSE]
  /\ clients = 0

Ask(c, k) ==
  /\ asked[c] = None
  /\ asked' = [asked EXCEPT ![c] = k]
  /\ UNCHANGED <<served, clients>>

CountAfter(k, n) ==
  CASE k = "handshake" -> n + 1
    [] k = "quit"      -> n - 1
    [] OTHER           -> n

Serve(c) ==
  /\ asked[c] # None /\ ~served[c]
  /\ served' = [served EXCEPT ![c] = TRUE]
  /\ clients' = CountAfter(asked[c], clients)
  /\ UNCHANGED asked

Answer(c) ==
  /\ asked[c] # None /\ served[c]
  /\ asked' = [asked EXCEPT ![c] = None]
  /\ served' = [served EXCEPT ![c] = FALSE]
  /\ UNCHANGED clients

Next ==
  \E c \in Client :
    \/ \E k \in Kind : Ask(c, k)
    \/ Serve(c)
    \/ Answer(c)

Spec == Init /\ [][Next]_vars
=============================================================================
