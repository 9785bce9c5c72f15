----------------------- MODULE ADThreadNetClientProofs -----------------------
(***************************************************************************)
(* Theorems about ADThreadNetClient, for any number of calls.               *)
(*                                                                          *)
(* The invariant they rest on says where every action is: performed, in the *)
(* worker's hands, or in the queue, in the order of the calls (Placed);     *)
(* which objects are destroyed (Destroyed); and what each thread's place    *)
(* says of the other (Lifetimes).  Timeouts adds which call of              *)
(* setRecvTimeout the client and its socket follow.                         *)
(***************************************************************************)
EXTENDS ADThreadNetClient, TLAPS

(* Every action is in exactly one place, in the order of the calls. *)
Placed ==
  /\ Len(performed) + (IF worker = "performing" THEN 1 ELSE 0) + Len(queue) = Len(kind)
  /\ \A i \in 1 .. Len(performed) : performed[i] = i
  /\ \A i \in 1 .. Len(queue) : queue[i] = Len(kind) - Len(queue) + i
  /\ worker = "performing" => item = Len(performed) + 1
  /\ worker \in {"notifying", "finishing"} => item = Len(performed) /\ item > 0
  /\ item > 0 => doDelete = (kind[item] \notin Blocking)
  /\ worker = "notifying" => item \notin complete /\ kind[item] \in Blocking
  /\ complete \subseteq 1 .. Len(performed)
  /\ main = "terminated" => worker = "performing"

(* What is destroyed: a blocking action by the main thread when it returns, *)
(* the others by the worker when it is through with them.                   *)
Destroyed ==
  /\ freed \subseteq 1 .. Len(performed)
  /\ \A i \in freed : kind[i] \in Blocking => i \in complete
  /\ worker = "finishing" /\ doDelete => item \notin freed
  /\ main = "waiting" =>
       Len(kind) > 0 /\ kind[Len(kind)] \in Blocking /\ Len(kind) \notin freed
  /\ \A i \in 1 .. Len(kind) :
       kind[i] \in Blocking /\ i \notin freed => i = Len(kind) /\ main \in {"waiting", "terminated"}
  /\ \A i \in 1 .. Len(performed) :
       kind[i] \notin Blocking /\ i \notin freed => i = item /\ worker = "finishing"

(* The worker runs until it has been told to stop, which is the last call.  *)
Lifetimes ==
  /\ running = (worker \notin {"starting", "gone"})
  /\ main = "constructing" => kind = <<>> /\ ~destructing
  /\ worker = "starting" => main = "constructing"
  /\ shutdown => \E i \in 1 .. Len(kind) : kind[i] = "stopWorkerThread"
  /\ \A i \in 1 .. Len(kind) : kind[i] = "stopWorkerThread" =>
       i = Len(kind) /\ main \in {"waiting", "joining", "destroyed", "terminated"}
  /\ worker = "gone" => shutdown /\ queue = <<>>
  /\ main = "destroyed" => worker = "gone"

(* The destructor makes two calls at most. *)
CallsBound ==
  /\ ~destructing => Len(kind) <= MaxCalls
  /\ destructing /\ main = "idle" => Len(kind) + (IF usePs THEN 1 ELSE 0) <= MaxCalls + 1
  /\ destructing /\ main = "waiting" /\ kind[Len(kind)] # "stopWorkerThread" =>
       Len(kind) <= MaxCalls + 1 /\ kind[Len(kind)] = "disconnect_ps"
  /\ Len(kind) <= MaxCalls + 2

IInv == TypeOK /\ Placed /\ Destroyed /\ Lifetimes /\ CallsBound

-----------------------------------------------------------------------------
(* Sequences.                                                               *)

LEMMA AppendFacts ==
  ASSUME NEW S, NEW s \in Seq(S), NEW e
  PROVE  /\ Len(s) \in Nat
         /\ Len(Append(s, e)) = Len(s) + 1
         /\ \A i \in 1 .. Len(s) : Append(s, e)[i] = s[i]
         /\ Append(s, e)[Len(s) + 1] = e
  OBVIOUS

LEMMA AppendTyped ==
  ASSUME NEW S, NEW s \in Seq(S), NEW e \in S
  PROVE  Append(s, e) \in Seq(S)
  OBVIOUS

LEMMA TailFacts ==
  ASSUME NEW S, NEW s \in Seq(S), s # <<>>
  PROVE  /\ Len(s) \in Nat \ {0}
         /\ Head(s) = s[1] /\ Head(s) \in S
         /\ Tail(s) \in Seq(S)
         /\ Len(Tail(s)) = Len(s) - 1
         /\ \A i \in 1 .. Len(Tail(s)) : Tail(s)[i] = s[i + 1]
  OBVIOUS

(* A sequence of actions is one of more actions. *)
LEMMA SeqGrows ==
  ASSUME NEW m \in Nat, NEW n \in Nat, m <= n, NEW s \in Seq(1 .. m)
  PROVE  s \in Seq(1 .. n)
  OBVIOUS

LEMMA KindFacts ==
  /\ Blocking \subseteq Kind /\ Sends \subseteq Kind
  /\ {"connect_ps", "disconnect_ps", "setRecvTimeout", "stopWorkerThread"} \subseteq Kind
  /\ {"connect_ps", "disconnect_ps", "stopWorkerThread"} \subseteq Blocking
  BY DEF Blocking, Sends, Kind

(* What a call, of the driver or of the destructor, does. *)
LEMMA Steps ==
  ASSUME Next
  PROVE  \/ \E k \in Kind : Call(k)
         \/ Destruct
         \/ Construct
         \/ Return
         \/ DestructorCall
         \/ Join
         \/ Start
         \/ Take
         \/ Perform
         \/ PerformFails
         \/ Notify
         \/ Finish
         \/ Exit
  BY DEF Next, Main, Worker

-----------------------------------------------------------------------------
(* The start.                                                               *)

LEMMA InvInit == Init => IInv
  <1> SUFFICES ASSUME Init
               PROVE  IInv
    OBVIOUS
  <1> USE ADThreadNetClientAssumption
  <1>1. TypeOK
    <2>1. Len(kind) = 0 /\ kind \in Seq(Kind)
      BY DEF Init
    <2>2. queue \in Seq(1 .. Len(kind)) /\ performed \in Seq(1 .. Len(kind))
      BY DEF Init
    <2>3. Len(kind) <= MaxCalls + 2
      BY <2>1
    <2>4. 0 \in 0 .. Len(kind)
      BY <2>1
    <2>5. QED BY <2>1, <2>2, <2>3, <2>4 DEF Init, TypeOK
  <1>2. Placed
    BY DEF Init, Placed
  <1>3. Destroyed
    BY DEF Init, Destroyed
  <1>4. Lifetimes
    <2>1. \A i \in 1 .. Len(kind) : FALSE
      BY DEF Init
    <2>2. QED BY <2>1 DEF Init, Lifetimes
  <1>5. CallsBound
    BY DEF Init, CallsBound
  <1>6. QED BY <1>1, <1>2, <1>3, <1>4, <1>5 DEF IInv

-----------------------------------------------------------------------------
(* A call.                                                                  *)

LEMMA EnqueueEffect ==
  ASSUME TypeOK, NEW k \in Kind, Enqueue(k)
  PROVE  /\ Len(kind) \in Nat /\ Len(queue) \in Nat
         /\ kind' \in Seq(Kind)
         /\ Len(kind') = Len(kind) + 1
         /\ \A i \in 1 .. Len(kind) : kind'[i] = kind[i]
         /\ kind'[Len(kind')] = k
         /\ queue' \in Seq(1 .. Len(kind'))
         /\ Len(queue') = Len(queue) + 1
         /\ \A i \in 1 .. Len(queue) : queue'[i] = queue[i]
         /\ queue'[Len(queue')] = Len(kind')
         /\ performed \in Seq(1 .. Len(kind'))
  <1>1. kind \in Seq(Kind) /\ Len(kind) \in Nat
    BY DEF TypeOK
  <1>2. /\ kind' \in Seq(Kind) /\ Len(kind') = Len(kind) + 1
        /\ \A i \in 1 .. Len(kind) : kind'[i] = kind[i]
        /\ kind'[Len(kind')] = k
    BY <1>1, AppendFacts, AppendTyped DEF Enqueue
  <1>3. \A s \in Seq(1 .. Len(kind)) : s \in Seq(1 .. Len(kind'))
    BY <1>1, <1>2, SeqGrows
  <1>4. queue \in Seq(1 .. Len(kind')) /\ performed \in Seq(1 .. Len(kind'))
    BY <1>3 DEF TypeOK
  <1>5. Len(kind') \in 1 .. Len(kind')
    BY <1>1, <1>2
  <1>6. queue' = Append(queue, Len(kind'))
    BY <1>2 DEF Enqueue
  <1>7. /\ queue' \in Seq(1 .. Len(kind')) /\ Len(queue) \in Nat
        /\ Len(queue') = Len(queue) + 1
        /\ \A i \in 1 .. Len(queue) : queue'[i] = queue[i]
        /\ queue'[Len(queue')] = Len(kind')
    BY <1>4, <1>5, <1>6, AppendFacts, AppendTyped
  <1>8. QED BY <1>1, <1>2, <1>4, <1>7

LEMMA EnqueueInv ==
  ASSUME IInv, NEW k \in Kind, Enqueue(k),
         Len(kind) <= MaxCalls + 1,
         ~destructing => Len(kind) < MaxCalls,
         destructing => IF usePs THEN k = "disconnect_ps" ELSE k = "stopWorkerThread",
         k = "stopWorkerThread" => destructing
  PROVE  IInv'
  <1> DEFINE m == Len(kind)
             n == Len(kind')
  <1> USE EnqueueEffect, ADThreadNetClientAssumption, KindFacts
  <1>1. m \in Nat /\ n = m + 1 /\ Len(queue) \in Nat /\ Len(performed) \in Nat
    BY DEF IInv, TypeOK
  <1>2. main = "idle" /\ main' = IF k \in Blocking THEN "waiting" ELSE "idle"
    BY DEF Enqueue
  <1>3. TypeOK'
    <2>1. \A S \in SUBSET (1 .. m) : S \subseteq 1 .. n
      BY <1>1
    <2>2. \A i \in 0 .. m : i \in 0 .. n
      BY <1>1
    <2>3. n <= MaxCalls + 2
      BY <1>1
    <2>4. freed' \subseteq 1 .. n /\ complete' \subseteq 1 .. n
      BY <2>1 DEF IInv, TypeOK, Enqueue
    <2>5. item' \in 0 .. n /\ timeout' \in 0 .. n /\ socketTimeout' \in 0 .. n
      BY <2>2 DEF IInv, TypeOK, Enqueue, netVars
    <2>6. performed' \in Seq(1 .. n)
      BY DEF IInv, Enqueue
    <2>7. main' \in {"waiting", "idle"}
      BY <1>2
    <2>8. QED BY <2>3, <2>4, <2>5, <2>6, <2>7 DEF IInv, TypeOK, Enqueue, netVars
  <1>4. Placed'
    <2>1. Len(performed') + (IF worker' = "performing" THEN 1 ELSE 0) + Len(queue') = n
      <3> DEFINE h == IF worker = "performing" THEN 1 ELSE 0
      <3>1. worker' = worker /\ performed' = performed /\ Len(queue') = Len(queue) + 1
        BY DEF IInv, Enqueue
      <3>2. Len(performed) + h + Len(queue) = m
        BY DEF IInv, Placed
      <3>3. h \in Nat
        OBVIOUS
      <3> HIDE DEF h
      <3>4. Len(performed) + h + (Len(queue) + 1) = m + 1
        BY <1>1, <3>2, <3>3
      <3>5. QED BY <1>1, <3>1, <3>4 DEF h
    <2>2. \A i \in 1 .. Len(queue') : queue'[i] = n - Len(queue') + i
      <3> SUFFICES ASSUME NEW i \in 1 .. Len(queue')
                   PROVE  queue'[i] = n - Len(queue') + i
        OBVIOUS
      <3>1. CASE i \in 1 .. Len(queue)
        <4>1. queue'[i] = m - Len(queue) + i
          BY <3>1 DEF IInv, Placed
        <4>2. Len(queue') = Len(queue) + 1
          BY DEF IInv
        <4>3. \A a, b, c \in Nat : a - b + c = (a + 1) - (b + 1) + c
          OBVIOUS
        <4>4. i \in Nat
          BY <1>1, <3>1
        <4>5. QED BY <1>1, <4>1, <4>2, <4>3, <4>4
      <3>2. CASE i = Len(queue')
        BY <1>1, <3>2 DEF IInv
      <3>3. QED BY <1>1, <3>1, <3>2 DEF IInv
    <2>3. item > 0 => kind'[item] = kind[item]
      BY <1>1 DEF IInv, TypeOK
    <2>4. worker = "notifying" => kind'[item] = kind[item]
      BY <1>1, <2>3 DEF IInv, Placed
    <2>5. main' # "terminated"
      BY <1>2
    <2>6. QED BY <2>1, <2>2, <2>3, <2>4, <2>5 DEF IInv, Placed, Enqueue
  <1>5. Destroyed'
    <2>1. \A i \in freed : kind'[i] = kind[i] /\ i # n
      BY <1>1 DEF IInv, TypeOK
    <2>2. Len(performed) <= m
      BY <1>1 DEF IInv, Placed
    <2>3. \A i \in 1 .. m : kind[i] \in Blocking => i \in freed
      BY <1>2 DEF IInv, Destroyed
    <2>4. \A i \in 1 .. n : kind'[i] \in Blocking /\ i \notin freed => i = n /\ main' = "waiting"
      <3> SUFFICES ASSUME NEW i \in 1 .. n, kind'[i] \in Blocking, i \notin freed
                   PROVE  i = n /\ main' = "waiting"
        OBVIOUS
      <3>1. i \in 1 .. m \/ i = n
        BY <1>1
      <3>2. i = n
        BY <2>3, <3>1 DEF IInv
      <3>3. QED BY <1>2, <3>2 DEF IInv
    <2>5. \A i \in 1 .. Len(performed) : kind'[i] = kind[i]
      BY <1>1, <2>2 DEF IInv
    <2>6. main' = "waiting" => n > 0 /\ kind'[n] \in Blocking /\ n \notin freed
      BY <1>1, <1>2, <2>1 DEF IInv
    <2>7. QED BY <2>1, <2>4, <2>5, <2>6 DEF IInv, Destroyed, Enqueue
  <1>6. Lifetimes'
    <2>1. \A i \in 1 .. m : kind[i] # "stopWorkerThread"
      BY <1>2 DEF IInv, Lifetimes
    <2>2. \A i \in 1 .. n : kind'[i] = "stopWorkerThread" => i = n /\ main' = "waiting"
      <3> SUFFICES ASSUME NEW i \in 1 .. n, kind'[i] = "stopWorkerThread"
                   PROVE  i = n /\ main' = "waiting"
        OBVIOUS
      <3>1. i \in 1 .. m \/ i = n
        BY <1>1
      <3>2. i = n
        BY <2>1, <3>1 DEF IInv
      <3>3. k = "stopWorkerThread"
        BY <3>2 DEF IInv
      <3>4. QED BY <1>2, <3>2, <3>3
    <2>3. ~shutdown
      BY <2>1 DEF IInv, Lifetimes
    <2>4. worker \notin {"starting", "gone"} /\ running
      BY <1>2, <2>3 DEF IInv, Lifetimes
    <2>5. main' \in {"waiting", "idle"}
      BY <1>2
    <2>6. QED BY <2>2, <2>3, <2>4, <2>5 DEF IInv, Lifetimes, Enqueue
  <1>7. CallsBound'
    <2>1. CASE ~destructing
      BY <1>1, <2>1 DEF IInv, CallsBound, Enqueue
    <2>2. CASE destructing /\ usePs
      <3>1. m <= MaxCalls
        BY <1>1, <1>2, <2>2 DEF IInv, CallsBound
      <3>2. main' = "waiting" /\ kind'[n] = "disconnect_ps"
        BY <1>2, <2>2 DEF IInv
      <3>3. QED BY <1>1, <2>2, <3>1, <3>2 DEF CallsBound, Enqueue
    <2>3. CASE destructing /\ ~usePs
      <3>1. main' = "waiting" /\ kind'[n] = "stopWorkerThread"
        BY <1>2, <2>3 DEF IInv
      <3>2. QED BY <1>1, <2>3, <3>1 DEF CallsBound, Enqueue
    <2>4. QED BY <2>1, <2>2, <2>3
  <1>8. QED BY <1>3, <1>4, <1>5, <1>6, <1>7 DEF IInv

LEMMA CallInv ==
  ASSUME IInv, NEW k \in Kind, Call(k)
  PROVE  IInv'
  <1>1. k # "stopWorkerThread"
    BY DEF Call, Sends
  <1>2. Len(kind) \in Nat /\ Len(kind) <= MaxCalls + 1
    BY ADThreadNetClientAssumption DEF IInv, TypeOK, Call
  <1>3. QED BY <1>1, <1>2, EnqueueInv DEF Call

LEMMA DestructorCallInv ==
  ASSUME IInv, DestructorCall
  PROVE  IInv'
  <1> DEFINE k == IF usePs THEN "disconnect_ps" ELSE "stopWorkerThread"
  <1>1. k \in Kind /\ Enqueue(k) /\ destructing
    BY KindFacts DEF DestructorCall
  <1>2. Len(kind) \in Nat /\ Len(kind) <= MaxCalls + 1
    <2>1. main = "idle"
      BY <1>1 DEF Enqueue
    <2>2. Len(kind) \in Nat
      BY DEF IInv, TypeOK
    <2>3. Len(kind) + (IF usePs THEN 1 ELSE 0) <= MaxCalls + 1
      BY <1>1, <2>1 DEF IInv, CallsBound
    <2>4. QED BY <2>2, <2>3, ADThreadNetClientAssumption
  <1>3. QED BY <1>1, <1>2, EnqueueInv

-----------------------------------------------------------------------------
(* The other steps of the main thread.                                      *)

LEMMA ConstructInv ==
  ASSUME IInv, Construct
  PROVE  IInv'
  <1>1. TypeOK'
    BY DEF IInv, TypeOK, Construct, netVars
  <1>2. Placed'
    BY DEF IInv, Placed, Construct
  <1>3. kind = <<>> /\ Len(kind) = 0
    BY DEF IInv, Lifetimes, Construct
  <1>4. \A i \in 1 .. Len(kind) : FALSE
    BY <1>3
  <1>5. Destroyed'
    BY <1>4 DEF IInv, Destroyed, Construct
  <1>6. Lifetimes'
    BY <1>4 DEF IInv, Lifetimes, Construct, WorkerIsUp
  <1>7. CallsBound'
    BY <1>3 DEF IInv, Lifetimes, CallsBound, Construct
  <1>8. QED BY <1>1, <1>2, <1>5, <1>6, <1>7 DEF IInv

LEMMA DestructInv ==
  ASSUME IInv, Destruct
  PROVE  IInv'
  <1>1. TypeOK'
    BY DEF IInv, TypeOK, Destruct, netVars
  <1>2. Placed'
    BY DEF IInv, Placed, Destruct
  <1>3. Destroyed'
    BY DEF IInv, Destroyed, Destruct
  <1>4. Lifetimes'
    BY DEF IInv, Lifetimes, Destruct
  <1>5. CallsBound'
    <2>1. Len(kind) \in Nat /\ Len(kind) <= MaxCalls
      BY DEF IInv, TypeOK, CallsBound, Destruct
    <2>2. (IF usePs THEN 1 ELSE 0) \in {0, 1}
      OBVIOUS
    <2>3. Len(kind) + (IF usePs THEN 1 ELSE 0) <= MaxCalls + 1
      BY <2>1, <2>2, ADThreadNetClientAssumption
    <2>4. QED BY <2>1, <2>3, ADThreadNetClientAssumption DEF CallsBound, Destruct
  <1>6. QED BY <1>1, <1>2, <1>3, <1>4, <1>5 DEF IInv

LEMMA ReturnFacts ==
  ASSUME IInv, Return
  PROVE  /\ Len(kind) \in complete
         /\ Len(performed) = Len(kind) /\ queue = <<>>
         /\ kind[Len(kind)] \in Blocking /\ Len(kind) \notin freed
  <1>1. Len(kind) \in complete /\ main = "waiting"
    BY DEF Return
  <1>2. Len(kind) \in 1 .. Len(performed)
    BY <1>1 DEF IInv, Placed
  <1>3. Len(kind) \in Nat /\ Len(performed) \in Nat /\ Len(queue) \in Nat
    BY DEF IInv, TypeOK
  <1>4. (IF worker = "performing" THEN 1 ELSE 0) \in Nat
    OBVIOUS
  <1>5. Len(performed) + (IF worker = "performing" THEN 1 ELSE 0) + Len(queue) = Len(kind)
    BY DEF IInv, Placed
  <1>6. \A p, b, q, n \in Nat : p + b + q = n /\ n <= p => p = n /\ q = 0
    OBVIOUS
  <1>7. Len(performed) = Len(kind) /\ Len(queue) = 0
    BY <1>2, <1>3, <1>4, <1>5, <1>6
  <1>8. queue = <<>>
    BY <1>7 DEF IInv, TypeOK
  <1>9. QED BY <1>1, <1>7, <1>8 DEF IInv, Destroyed

LEMMA ReturnInv ==
  ASSUME IInv, Return
  PROVE  IInv'
  <1> USE ReturnFacts
  <1>1. Len(kind) \in 1 .. Len(kind)
    BY DEF IInv, TypeOK
  <1>2. main' \in {"joining", "idle"} /\ main = "waiting"
    BY DEF Return
  <1>3. TypeOK'
    <2>1. usePs' \in BOOLEAN
      <3>1. UsePsAfter(kind[Len(kind)]) \in BOOLEAN
        BY DEF IInv, TypeOK, UsePsAfter
      <3>2. QED BY <3>1 DEF Return
    <2>2. freed' \subseteq 1 .. Len(kind)
      BY <1>1 DEF IInv, TypeOK, Return
    <2>3. QED BY <1>2, <2>1, <2>2 DEF IInv, TypeOK, Return, netVars
  <1>4. Placed'
    BY <1>2 DEF IInv, Placed, Return
  <1>5. Destroyed'
    <2>1. freed' \subseteq 1 .. Len(performed)
      BY <1>1 DEF IInv, Destroyed, Return
    <2>2. \A i \in freed' : kind[i] \in Blocking => i \in complete
      BY DEF IInv, Destroyed, Return
    <2>3. worker = "finishing" /\ doDelete => item \notin freed'
      <3> SUFFICES ASSUME worker = "finishing", doDelete
                   PROVE  item \notin freed'
        OBVIOUS
      <3>1. item \notin freed
        BY DEF IInv, Destroyed
      <3>2. kind[item] \notin Blocking
        BY DEF IInv, Placed
      <3>3. QED BY <3>1, <3>2 DEF Return
    <2>4. \A i \in 1 .. Len(kind) : kind[i] \in Blocking => i \in freed'
      BY DEF IInv, Destroyed, Return
    <2>5. \A i \in 1 .. Len(performed) :
            kind[i] \notin Blocking /\ i \notin freed' => i = item /\ worker = "finishing"
      BY DEF IInv, Destroyed, Return
    <2>6. QED BY <1>2, <2>1, <2>2, <2>3, <2>4, <2>5 DEF Destroyed, Return
  <1>6. Lifetimes'
    <2>1. \A i \in 1 .. Len(kind) : kind[i] = "stopWorkerThread" => i = Len(kind) /\ main' = "joining"
      BY DEF IInv, Lifetimes, Return
    <2>2. worker # "starting"
      BY <1>2 DEF IInv, Lifetimes
    <2>3. QED BY <1>2, <2>1, <2>2 DEF IInv, Lifetimes, Return
  <1>7. CallsBound'
    <2>1. CASE ~destructing
      BY <2>1 DEF IInv, CallsBound, Return
    <2>2. CASE destructing /\ kind[Len(kind)] = "stopWorkerThread"
      BY <2>2 DEF IInv, CallsBound, Return
    <2>3. CASE destructing /\ kind[Len(kind)] # "stopWorkerThread"
      <3>1. Len(kind) <= MaxCalls + 1 /\ kind[Len(kind)] = "disconnect_ps"
        BY <1>2, <2>3 DEF IInv, CallsBound
      <3>2. usePs' = FALSE
        BY <3>1 DEF Return, UsePsAfter
      <3>3. Len(kind) + (IF usePs' THEN 1 ELSE 0) <= MaxCalls + 1
        BY <1>1, <3>1, <3>2
      <3>4. QED BY <1>2, <3>3 DEF IInv, CallsBound, Return
    <2>4. QED BY <2>1, <2>2, <2>3
  <1>8. QED BY <1>3, <1>4, <1>5, <1>6, <1>7 DEF IInv

LEMMA JoinInv ==
  ASSUME IInv, Join
  PROVE  IInv'
  <1>1. TypeOK'
    BY DEF IInv, TypeOK, Join, netVars
  <1>2. Placed'
    BY DEF IInv, Placed, Join
  <1>3. Destroyed'
    BY DEF IInv, Destroyed, Join
  <1>4. Lifetimes'
    BY DEF IInv, Lifetimes, Join
  <1>5. CallsBound'
    BY DEF IInv, CallsBound, Join
  <1>6. QED BY <1>1, <1>2, <1>3, <1>4, <1>5 DEF IInv

-----------------------------------------------------------------------------
(* The steps of the worker.                                                 *)

LEMMA StartInv ==
  ASSUME IInv, Start
  PROVE  IInv'
  <1>1. TypeOK'
    BY DEF IInv, TypeOK, Start, netVars
  <1>2. Placed'
    BY DEF IInv, Placed, Start
  <1>3. Destroyed'
    BY DEF IInv, Destroyed, Start
  <1>4. Lifetimes'
    BY DEF IInv, Lifetimes, Start
  <1>5. CallsBound'
    BY DEF IInv, CallsBound, Start
  <1>6. QED BY <1>1, <1>2, <1>3, <1>4, <1>5 DEF IInv

LEMMA TakeInv ==
  ASSUME IInv, Take
  PROVE  IInv'
  <1>1. /\ worker = "looking" /\ worker' = "performing"
        /\ queue # <<>> /\ queue' = Tail(queue) /\ item' = Head(queue)
        /\ doDelete' = (kind[item'] \notin Blocking)
        /\ shutdown' = ShutdownAsked(item')
        /\ UNCHANGED <<kind, freed, complete, running, main, destructing, usePs,
                       netVars, performed>>
    BY DEF Take, TakeItem
  <1>2. /\ Len(queue) \in Nat \ {0}
        /\ item' = queue[1] /\ item' \in 1 .. Len(kind)
        /\ queue' \in Seq(1 .. Len(kind))
        /\ Len(queue') = Len(queue) - 1
        /\ \A i \in 1 .. Len(queue') : queue'[i] = queue[i + 1]
    <2>1. queue \in Seq(1 .. Len(kind))
      BY DEF IInv, TypeOK
    <2>2. QED BY <1>1, <2>1, TailFacts
  <1>3. Len(kind) \in Nat /\ Len(performed) \in Nat
    BY DEF IInv, TypeOK
  <1>4. Len(performed) + Len(queue) = Len(kind)
    BY <1>1, <1>2, <1>3 DEF IInv, Placed
  <1>5. item' = Len(performed) + 1
    <2>1. queue[1] = Len(kind) - Len(queue) + 1
      BY <1>2 DEF IInv, Placed
    <2>2. \A p, q \in Nat : (p + q) - q + 1 = p + 1
      OBVIOUS
    <2>3. Len(queue) \in Nat
      BY <1>2
    <2>4. QED BY <1>2, <1>3, <1>4, <2>1, <2>2, <2>3
  <1>6. shutdown' \in BOOLEAN /\ doDelete' \in BOOLEAN
    BY <1>1 DEF ShutdownAsked, IInv, TypeOK
  <1>7. TypeOK'
    BY <1>1, <1>2, <1>6 DEF IInv, TypeOK, netVars
  <1>8. Placed'
    <2>1. \A i \in 1 .. Len(queue') : queue'[i] = Len(kind) - Len(queue') + i
      <3> SUFFICES ASSUME NEW i \in 1 .. Len(queue')
                   PROVE  queue'[i] = Len(kind) - Len(queue') + i
        OBVIOUS
      <3>1. i \in Nat /\ i + 1 \in 1 .. Len(queue)
        BY <1>2
      <3>2. queue'[i] = Len(kind) - Len(queue) + (i + 1)
        BY <1>2, <3>1 DEF IInv, Placed
      <3>3. QED BY <1>2, <1>3, <3>1, <3>2
    <2>2. Len(performed) + 1 + Len(queue') = Len(kind)
      <3>1. \A p, q \in Nat : p + 1 + (q - 1) = p + q
        OBVIOUS
      <3>2. Len(queue) \in Nat /\ Len(queue') = Len(queue) - 1
        BY <1>2
      <3>3. QED BY <1>3, <1>4, <3>1, <3>2
    <2>3. main # "terminated"
      BY <1>1 DEF IInv, Placed
    <2>4. QED BY <1>1, <1>5, <2>1, <2>2, <2>3 DEF IInv, Placed
  <1>9. Destroyed'
    BY <1>1 DEF IInv, Destroyed
  <1>10. Lifetimes'
    <2>1. shutdown' => \E i \in 1 .. Len(kind) : kind[i] = "stopWorkerThread"
      BY <1>1, <1>2 DEF ShutdownAsked, IInv, Lifetimes
    <2>2. main # "destroyed" /\ running
      BY <1>1 DEF IInv, Lifetimes
    <2>3. QED BY <1>1, <2>1, <2>2 DEF IInv, Lifetimes
  <1>11. CallsBound'
    BY <1>1 DEF IInv, CallsBound
  <1>12. QED BY <1>7, <1>8, <1>9, <1>10, <1>11 DEF IInv

LEMMA PerformInv ==
  ASSUME IInv, Perform
  PROVE  IInv'
  <1>1. /\ worker = "performing" /\ main # "terminated"
        /\ performed' = Append(performed, item)
        /\ worker' = IF kind[item] \in Blocking THEN "notifying" ELSE "finishing"
        /\ UNCHANGED <<kind, queue, freed, complete, running, main, destructing,
                       usePs, item, shutdown, doDelete>>
    BY DEF Perform
  <1>2. /\ Len(kind) \in Nat /\ Len(performed) \in Nat /\ Len(queue) \in Nat
        /\ item = Len(performed) + 1
        /\ Len(performed) + 1 + Len(queue) = Len(kind)
    BY <1>1 DEF IInv, TypeOK, Placed
  <1>3. item \in 1 .. Len(kind)
    BY <1>2
  <1>4. /\ performed' \in Seq(1 .. Len(kind))
        /\ Len(performed') = Len(performed) + 1
        /\ \A i \in 1 .. Len(performed) : performed'[i] = performed[i]
        /\ performed'[Len(performed) + 1] = item
    <2>1. performed \in Seq(1 .. Len(kind))
      BY DEF IInv, TypeOK
    <2>2. QED BY <1>1, <1>3, <2>1, AppendFacts, AppendTyped
  <1>5. worker' \in {"notifying", "finishing"}
    BY <1>1
  <1>6. TypeOK'
    <2>1. connected' \in BOOLEAN /\ timeout' \in 0 .. Len(kind) /\ socketTimeout' \in 0 .. Len(kind)
      <3>1. connected \in BOOLEAN /\ timeout \in 0 .. Len(kind) /\ socketTimeout \in 0 .. Len(kind)
        BY DEF IInv, TypeOK
      <3>2. item \in 0 .. Len(kind)
        BY <1>3
      <3>3. QED BY <3>1, <3>2 DEF Perform, PerformConnect, PerformDisconnect,
                                   PerformSetRecvTimeout, netVars
    <2>2. QED BY <1>1, <1>4, <1>5, <2>1 DEF IInv, TypeOK
  <1>7. Placed'
    <2>1. \A i \in 1 .. Len(performed') : performed'[i] = i
      <3> SUFFICES ASSUME NEW i \in 1 .. Len(performed')
                   PROVE  performed'[i] = i
        OBVIOUS
      <3>1. i \in 1 .. Len(performed) \/ i = Len(performed) + 1
        BY <1>2, <1>4
      <3>2. QED BY <1>2, <1>4, <3>1 DEF IInv, Placed
    <2>2. item \notin complete
      BY <1>2 DEF IInv, Placed
    <2>3. \A S \in SUBSET (1 .. Len(performed)) : S \subseteq 1 .. Len(performed')
      BY <1>2, <1>4
    <2>4. complete \subseteq 1 .. Len(performed')
      BY <2>3 DEF IInv, Placed
    <2>5. Len(performed') + 0 + Len(queue) = Len(kind)
      BY <1>2, <1>4
    <2>6. worker' = "notifying" => kind[item] \in Blocking
      BY <1>1
    <2>7. item = Len(performed') /\ item > 0
      BY <1>2, <1>4
    <2>8. QED BY <1>1, <1>5, <2>1, <2>2, <2>4, <2>5, <2>6, <2>7 DEF IInv, Placed
  <1>8. Destroyed'
    <2>1. item \notin freed
      BY <1>2 DEF IInv, Destroyed
    <2>2. \A S \in SUBSET (1 .. Len(performed)) : S \subseteq 1 .. Len(performed')
      BY <1>2, <1>4
    <2>3. freed \subseteq 1 .. Len(performed')
      BY <2>2 DEF IInv, Destroyed
    <2>4. \A i \in 1 .. Len(performed') :
            kind[i] \notin Blocking /\ i \notin freed => i = item /\ worker' = "finishing"
      <3> SUFFICES ASSUME NEW i \in 1 .. Len(performed'), kind[i] \notin Blocking, i \notin freed
                   PROVE  i = item /\ worker' = "finishing"
        OBVIOUS
      <3>1. i \in 1 .. Len(performed) \/ i = item
        BY <1>2, <1>4
      <3>2. i = item
        BY <1>1, <3>1 DEF IInv, Destroyed
      <3>3. QED BY <1>1, <3>2
    <2>5. QED BY <1>1, <2>1, <2>3, <2>4 DEF IInv, Destroyed
  <1>9. Lifetimes'
    BY <1>1, <1>5 DEF IInv, Lifetimes
  <1>10. CallsBound'
    BY <1>1 DEF IInv, CallsBound
  <1>11. QED BY <1>6, <1>7, <1>8, <1>9, <1>10 DEF IInv

LEMMA PerformFailsInv ==
  ASSUME IInv, PerformFails
  PROVE  IInv'
  <1>1. TypeOK'
    BY DEF IInv, TypeOK, PerformFails, netVars
  <1>2. Placed'
    BY DEF IInv, Placed, PerformFails
  <1>3. Destroyed'
    <2>1. \A i \in 1 .. Len(kind) : kind[i] \in Blocking /\ i \notin freed => i = Len(kind)
      BY DEF IInv, Destroyed
    <2>2. QED BY <2>1 DEF IInv, Destroyed, PerformFails
  <1>4. Lifetimes'
    <2>1. \A i \in 1 .. Len(kind) : kind[i] = "stopWorkerThread" => i = Len(kind)
      BY DEF IInv, Lifetimes
    <2>2. worker # "starting"
      BY DEF PerformFails
    <2>3. QED BY <2>1, <2>2 DEF IInv, Lifetimes, PerformFails
  <1>5. CallsBound'
    BY DEF IInv, CallsBound, PerformFails
  <1>6. QED BY <1>1, <1>2, <1>3, <1>4, <1>5 DEF IInv

LEMMA NotifyInv ==
  ASSUME IInv, Notify
  PROVE  IInv'
  <1>1. /\ worker = "notifying" /\ worker' = "finishing"
        /\ complete' = complete \cup {item}
        /\ UNCHANGED <<kind, queue, freed, running, main, destructing, usePs, item,
                       shutdown, doDelete, netVars, performed>>
    BY DEF Notify, Completed
  <1>2. /\ Len(kind) \in Nat /\ Len(performed) \in Nat /\ Len(queue) \in Nat
        /\ item = Len(performed) /\ item > 0
        /\ Len(performed) + Len(queue) = Len(kind)
    BY <1>1 DEF IInv, TypeOK, Placed
  <1>3. item \in 1 .. Len(performed) /\ item \in 1 .. Len(kind)
    BY <1>2
  <1>4. kind[item] \in Blocking /\ ~doDelete
    BY <1>1, <1>2 DEF IInv, Placed
  <1>5. TypeOK'
    BY <1>1, <1>3 DEF IInv, TypeOK, netVars
  <1>6. Placed'
    BY <1>1, <1>2, <1>3 DEF IInv, Placed
  <1>7. Destroyed'
    BY <1>1, <1>4 DEF IInv, Destroyed
  <1>8. Lifetimes'
    BY <1>1 DEF IInv, Lifetimes
  <1>9. CallsBound'
    BY <1>1 DEF IInv, CallsBound
  <1>10. QED BY <1>5, <1>6, <1>7, <1>8, <1>9 DEF IInv

LEMMA FinishInv ==
  ASSUME IInv, Finish
  PROVE  IInv'
  <1>1. /\ worker = "finishing" /\ worker' = "looking"
        /\ freed' = freed \cup (IF doDelete THEN {item} ELSE {})
        /\ UNCHANGED <<kind, queue, complete, running, main, destructing, usePs,
                       item, shutdown, doDelete, netVars, performed>>
    BY DEF Finish, Deleted
  <1>2. /\ Len(kind) \in Nat /\ Len(performed) \in Nat /\ Len(queue) \in Nat
        /\ item = Len(performed) /\ item > 0
        /\ Len(performed) + Len(queue) = Len(kind)
    BY <1>1 DEF IInv, TypeOK, Placed
  <1>3. item \in 1 .. Len(performed) /\ item \in 1 .. Len(kind)
    BY <1>2
  <1>4. doDelete = (kind[item] \notin Blocking)
    BY <1>2 DEF IInv, Placed
  <1>5. freed' \subseteq 1 .. Len(performed) /\ freed' \subseteq 1 .. Len(kind)
    BY <1>1, <1>3 DEF IInv, Destroyed, TypeOK
  <1>6. TypeOK'
    BY <1>1, <1>5 DEF IInv, TypeOK, netVars
  <1>7. Placed'
    BY <1>1 DEF IInv, Placed
  <1>8. Destroyed'
    <2>1. \A i \in freed' : kind[i] \in Blocking => i \in complete
      BY <1>1, <1>4 DEF IInv, Destroyed
    <2>2. main = "waiting" => Len(kind) \notin freed'
      BY <1>1, <1>4 DEF IInv, Destroyed
    <2>3. \A i \in 1 .. Len(kind) :
            kind[i] \in Blocking /\ i \notin freed' => i = Len(kind) /\ main \in {"waiting", "terminated"}
      BY <1>1 DEF IInv, Destroyed
    <2>4. \A i \in 1 .. Len(performed) : kind[i] \in Blocking \/ i \in freed'
      BY <1>1, <1>4 DEF IInv, Destroyed
    <2>5. QED BY <1>1, <1>5, <2>1, <2>2, <2>3, <2>4 DEF IInv, Destroyed
  <1>9. Lifetimes'
    BY <1>1 DEF IInv, Lifetimes
  <1>10. CallsBound'
    BY <1>1 DEF IInv, CallsBound
  <1>11. QED BY <1>6, <1>7, <1>8, <1>9, <1>10 DEF IInv

LEMMA ExitInv ==
  ASSUME IInv, Exit
  PROVE  IInv'
  <1>1. TypeOK'
    BY DEF IInv, TypeOK, Exit, netVars
  <1>2. Placed'
    BY DEF IInv, Placed, Exit
  <1>3. Destroyed'
    BY DEF IInv, Destroyed, Exit
  <1>4. Lifetimes'
    BY DEF IInv, Lifetimes, Exit
  <1>5. CallsBound'
    BY DEF IInv, CallsBound, Exit
  <1>6. QED BY <1>1, <1>2, <1>3, <1>4, <1>5 DEF IInv

LEMMA InvNext == IInv /\ [Next]_vars => IInv'
  <1> SUFFICES ASSUME IInv, [Next]_vars
               PROVE  IInv'
    OBVIOUS
  <1>1. CASE Next
    BY <1>1, Steps, CallInv, DestructInv, ConstructInv, ReturnInv, DestructorCallInv,
       JoinInv, StartInv, TakeInv, PerformInv, PerformFailsInv, NotifyInv, FinishInv,
       ExitInv
  <1>2. CASE UNCHANGED vars
    <2>1. TypeOK'
      BY <1>2 DEF vars, netVars, IInv, TypeOK
    <2>2. Placed'
      BY <1>2 DEF vars, netVars, IInv, Placed
    <2>3. Destroyed'
      BY <1>2 DEF vars, netVars, IInv, Destroyed
    <2>4. Lifetimes'
      BY <1>2 DEF vars, netVars, IInv, Lifetimes
    <2>5. CallsBound'
      BY <1>2 DEF vars, netVars, IInv, CallsBound
    <2>6. QED BY <2>1, <2>2, <2>3, <2>4, <2>5 DEF IInv
  <1>3. QED BY <1>1, <1>2

LEMMA Invariance == Spec => []IInv
  BY InvInit, InvNext, PTL DEF Spec

-----------------------------------------------------------------------------
(* The theorems.                                                            *)

(* The variables keep their types, and the destructor makes two calls at    *)
(* most besides those of the driver.                                        *)
THEOREM TypeCorrect == Spec => []TypeOK
  <1>1. IInv => TypeOK
    BY DEF IInv
  <1>2. QED BY <1>1, Invariance, PTL

(* No action object is used after its end: the pointers that the worker     *)
(* holds and has in its queue are to objects not yet destroyed, whatever    *)
(* the calls and however the threads interleave.                            *)
THEOREM NoUseAfterDestruction == Spec => []ObjectsOutliveTheirUse
  <1>1. IInv => ObjectsOutliveTheirUse
    <2> SUFFICES ASSUME IInv
                 PROVE  ObjectsOutliveTheirUse
      OBVIOUS
    <2>1. /\ Len(kind) \in Nat /\ Len(performed) \in Nat /\ Len(queue) \in Nat
          /\ freed \subseteq 1 .. Len(performed)
      BY DEF IInv, TypeOK, Destroyed
    <2>2. worker = "performing" => item \notin freed
      BY <2>1 DEF IInv, Placed
    <2>3. worker = "notifying" => item \notin freed
      BY DEF IInv, Placed, Destroyed
    <2>4. \A i \in 1 .. Len(queue) : queue[i] \notin freed
      <3> SUFFICES ASSUME NEW i \in 1 .. Len(queue)
                   PROVE  queue[i] \notin freed
        OBVIOUS
      <3>1. queue[i] = Len(kind) - Len(queue) + i
        BY DEF IInv, Placed
      <3>2. Len(performed) + Len(queue) <= Len(kind)
        BY <2>1 DEF IInv, Placed
      <3>3. ~(queue[i] <= Len(performed))
        BY <2>1, <3>1, <3>2
      <3>4. \A j \in freed : j <= Len(performed)
        BY <2>1
      <3>5. QED BY <3>3, <3>4
    <2>5. QED BY <2>2, <2>3, <2>4 DEF IInv, Destroyed, ObjectsOutliveTheirUse
  <1>2. QED BY <1>1, Invariance, PTL

(* Between the constructor and the destructor, enqueue_action finds the     *)
(* worker running.                                                          *)
THEOREM WorkerAlwaysThere == Spec => []WorkerThereForEveryCall
  <1>1. IInv => WorkerThereForEveryCall
    BY DEF IInv, Lifetimes, WorkerThereForEveryCall
  <1>2. QED BY <1>1, Invariance, PTL

(* When the client is gone, every action has been performed and destroyed.  *)
THEOREM EverythingDone == Spec => []NothingLeftBehind
  <1>1. IInv => NothingLeftBehind
    <2> SUFFICES ASSUME IInv, main = "destroyed"
                 PROVE  /\ performed = [i \in 1 .. Len(kind) |-> i]
                        /\ freed = 1 .. Len(kind)
      BY DEF NothingLeftBehind
    <2>1. worker = "gone" /\ queue = <<>>
      BY DEF IInv, Lifetimes
    <2>2. Len(performed) = Len(kind) /\ Len(kind) \in Nat
      BY <2>1 DEF IInv, TypeOK, Placed
    <2>3. performed = [i \in 1 .. Len(kind) |-> i]
      <3>1. performed = [i \in 1 .. Len(performed) |-> performed[i]]
        BY DEF IInv, TypeOK
      <3>2. QED BY <2>2, <3>1 DEF IInv, Placed
    <2>4. \A i \in 1 .. Len(kind) : i \in freed
      BY <2>1, <2>2 DEF IInv, Destroyed
    <2>5. QED BY <2>3, <2>4 DEF IInv, TypeOK
  <1>2. QED BY <1>1, Invariance, PTL

(* The three together: action objects and the worker thread are there for   *)
(* as long as anybody needs them, and nothing is left of them in the end.   *)
THEOREM RequestsAreSafe == Spec => []RequestsSafe
  <1>1. ObjectsOutliveTheirUse /\ WorkerThereForEveryCall /\ NothingLeftBehind
          => RequestsSafe
    BY DEF RequestsSafe
  <1>2. QED BY <1>1, NoUseAfterDestruction, WorkerAlwaysThere, EverythingDone, PTL

-----------------------------------------------------------------------------
(* The timeout of the socket.                                               *)

(* The calls of setRecvTimeout up to the n-th call, 0 for the default. *)
TimeoutsUpTo(n) == {0} \cup {i \in 1 .. n : kind[i] = "setRecvTimeout"}
IsLast(x, S) == x \in S /\ \A j \in S : j <= x

LastConnect(c, n) ==
  /\ c \in 1 .. n /\ kind[c] = "connect_ps"
  /\ \A i \in 1 .. n : kind[i] = "connect_ps" => i <= c

(* The client has the timeout of the last setRecvTimeout performed; its     *)
(* socket has the one of the last before the last connect_ps performed; and *)
(* while m_use_ps is up no connect_ps is under way.                         *)
Timeouts ==
  /\ IsLast(timeout, TimeoutsUpTo(Len(performed)))
  /\ \A c \in Nat : LastConnect(c, Len(performed)) => IsLast(socketTimeout, TimeoutsUpTo(c))
  /\ usePs => \E c \in 1 .. Len(performed) : LastConnect(c, Len(kind))

LEMMA TimeoutsInit == Init => Timeouts
  <1> SUFFICES ASSUME Init
               PROVE  Timeouts
    OBVIOUS
  <1>1. Len(performed) = 0 /\ timeout = 0 /\ ~usePs
    BY DEF Init
  <1>2. \A i \in 1 .. Len(performed) : FALSE
    BY <1>1
  <1>3. TimeoutsUpTo(Len(performed)) = {0}
    BY <1>2 DEF TimeoutsUpTo
  <1>4. QED BY <1>1, <1>2, <1>3 DEF Timeouts, IsLast, LastConnect

(* A call changes nothing about the calls before it. *)
LEMMA EnqueueTimeouts ==
  ASSUME IInv, Timeouts, NEW k \in Kind, Enqueue(k), usePs => k # "connect_ps"
  PROVE  Timeouts'
  <1> USE EnqueueEffect
  <1>1. /\ Len(kind) \in Nat /\ Len(performed) \in Nat /\ Len(performed) <= Len(kind)
        /\ Len(kind') = Len(kind) + 1
        /\ \A i \in 1 .. Len(kind) : kind'[i] = kind[i]
        /\ kind'[Len(kind')] = k
        /\ UNCHANGED <<timeout, socketTimeout, performed, usePs>>
    <2>1. Len(kind) \in Nat /\ Len(performed) \in Nat /\ Len(queue) \in Nat
      BY DEF IInv, TypeOK
    <2>2. Len(performed) <= Len(kind)
      <3> DEFINE h == IF worker = "performing" THEN 1 ELSE 0
      <3>1. h \in Nat /\ Len(performed) + h + Len(queue) = Len(kind)
        BY DEF IInv, Placed
      <3> HIDE DEF h
      <3>2. QED BY <2>1, <3>1
    <2>3. Len(kind') = Len(kind) + 1 /\ kind'[Len(kind')] = k
      BY DEF IInv
    <2>4. \A i \in 1 .. Len(kind) : kind'[i] = kind[i]
      BY DEF IInv
    <2>5. UNCHANGED <<timeout, socketTimeout, performed, usePs>>
      BY DEF Enqueue, netVars
    <2>6. QED BY <2>1, <2>2, <2>3, <2>4, <2>5
  <1>2. ASSUME NEW n \in Nat, n <= Len(performed)
        PROVE  /\ \A i \in 1 .. n : kind'[i] = kind[i]
               /\ TimeoutsUpTo(n)' = TimeoutsUpTo(n)
    <2>1. \A i \in 1 .. n : kind'[i] = kind[i]
      BY <1>1, <1>2
    <2>2. QED BY <2>1 DEF TimeoutsUpTo
  <1>3. IsLast(timeout, TimeoutsUpTo(Len(performed)))'
    BY <1>1, <1>2 DEF Timeouts, IsLast, TimeoutsUpTo
  <1>4. ASSUME NEW c \in Nat, LastConnect(c, Len(performed))'
        PROVE  IsLast(socketTimeout, TimeoutsUpTo(c))'
    <2>1. c <= Len(performed) /\ LastConnect(c, Len(performed))
      BY <1>1, <1>2, <1>4 DEF LastConnect
    <2>2. IsLast(socketTimeout, TimeoutsUpTo(c)) /\ TimeoutsUpTo(c)' = TimeoutsUpTo(c)
      BY <1>2, <2>1 DEF Timeouts
    <2>3. QED BY <1>1, <2>2 DEF IsLast
  <1>5. ASSUME usePs'
        PROVE  \E c \in 1 .. Len(performed') : LastConnect(c, Len(kind))'
    <2>1. PICK c \in 1 .. Len(performed) : LastConnect(c, Len(kind))
      BY <1>1, <1>5 DEF Timeouts
    <2>2. k # "connect_ps"
      BY <1>1, <1>5
    <2>3. \A i \in 1 .. Len(kind') : i \in 1 .. Len(kind) \/ i = Len(kind')
      BY <1>1
    <2>4. c \in 1 .. Len(kind) /\ c \in 1 .. Len(kind')
      BY <1>1
    <2>5. LastConnect(c, Len(kind))'
      BY <1>1, <2>1, <2>2, <2>3, <2>4 DEF LastConnect
    <2>6. QED BY <1>1, <2>5
  <1>6. QED BY <1>3, <1>4, <1>5 DEF Timeouts

(* Steps that perform no action and make no call. *)
LEMMA OtherTimeouts ==
  ASSUME Timeouts, UNCHANGED <<kind, performed, timeout, socketTimeout>>, usePs' => usePs
  PROVE  Timeouts'
  BY DEF Timeouts, IsLast, TimeoutsUpTo, LastConnect

(* What connect_ps, having succeeded, has noted is in force. *)
LEMMA ReturnTimeouts ==
  ASSUME IInv, Timeouts, Return
  PROVE  Timeouts'
  <1> USE ReturnFacts
  <1>1. CASE kind[Len(kind)] = "connect_ps"
    <2>1. Len(kind) \in 1 .. Len(kind)
      BY DEF IInv, TypeOK
    <2>2. LastConnect(Len(kind), Len(kind))
      BY <1>1, <2>1 DEF LastConnect
    <2>3. UNCHANGED <<kind, performed, timeout, socketTimeout>>
      BY DEF Return, netVars
    <2>4. QED BY <2>1, <2>2, <2>3 DEF Timeouts, IsLast, TimeoutsUpTo, LastConnect
  <1>2. CASE kind[Len(kind)] # "connect_ps"
    <2>1. UsePsAfter(kind[Len(kind)]) => usePs
      BY <1>2 DEF UsePsAfter
    <2>2. QED BY <2>1, OtherTimeouts DEF Return, netVars
  <1>3. QED BY <1>1, <1>2

LEMMA PerformTimeouts ==
  ASSUME IInv, Timeouts, Perform
  PROVE  Timeouts'
  <1> DEFINE n == Len(performed)
             k == kind[item]
  <1>1. /\ n \in Nat /\ Len(kind) \in Nat
        /\ item = n + 1 /\ Len(performed') = n + 1
        /\ UNCHANGED <<kind, usePs>>
    <2>1. performed \in Seq(1 .. Len(kind)) /\ kind \in Seq(Kind)
      BY DEF IInv, TypeOK
    <2>2. QED BY <2>1, AppendFacts DEF Perform, IInv, Placed
  <1>2. k = "connect_ps" => socketTimeout' = timeout /\ timeout' = timeout
    BY DEF Perform, PerformConnect
  <1>3. k = "setRecvTimeout" => timeout' = item /\ socketTimeout' = socketTimeout
    BY DEF Perform, PerformSetRecvTimeout
  <1>4. k \notin {"connect_ps", "setRecvTimeout"} => UNCHANGED <<timeout, socketTimeout>>
    BY DEF Perform, PerformDisconnect, netVars
  <1> HIDE DEF n
  <1>5. \A i \in Nat : i \in 1 .. (n + 1) <=> i \in 1 .. n \/ i = n + 1
    BY <1>1
  <1>6. /\ k = "setRecvTimeout" => TimeoutsUpTo(n + 1) = TimeoutsUpTo(n) \cup {n + 1}
        /\ k # "setRecvTimeout" => TimeoutsUpTo(n + 1) = TimeoutsUpTo(n)
    BY <1>1, <1>5 DEF TimeoutsUpTo
  <1>7. IsLast(timeout, TimeoutsUpTo(n)) /\ \A j \in TimeoutsUpTo(n) : j <= n
    BY <1>1 DEF Timeouts, TimeoutsUpTo, n
  <1>8. IsLast(timeout', TimeoutsUpTo(n + 1))
    <2>1. CASE k = "setRecvTimeout"
      <3>1. TimeoutsUpTo(n + 1) = TimeoutsUpTo(n) \cup {n + 1} /\ timeout' = n + 1
        BY <1>1, <1>3, <1>6, <2>1
      <3>2. \A j \in TimeoutsUpTo(n) : j \in Nat /\ j <= n + 1
        BY <1>1, <1>7 DEF TimeoutsUpTo
      <3>3. QED BY <1>1, <3>1, <3>2 DEF IsLast
    <2>2. CASE k # "setRecvTimeout"
      BY <1>2, <1>4, <1>6, <1>7, <2>2
    <2>3. QED BY <2>1, <2>2
  <1>9. ASSUME NEW c \in Nat, LastConnect(c, n + 1)
        PROVE  IsLast(socketTimeout', TimeoutsUpTo(c))
    <2>1. CASE k = "connect_ps"
      <3>1. c = n + 1
        BY <1>1, <1>5, <1>9, <2>1 DEF LastConnect
      <3>2. QED BY <1>2, <1>6, <1>7, <2>1, <3>1
    <2>2. CASE k # "connect_ps"
      <3>1. LastConnect(c, n)
        BY <1>1, <1>5, <1>9, <2>2 DEF LastConnect
      <3>2. IsLast(socketTimeout, TimeoutsUpTo(c))
        BY <3>1 DEF Timeouts, n
      <3>3. QED BY <1>3, <1>4, <2>2, <3>2
    <2>3. QED BY <2>1, <2>2
  <1>10. ASSUME usePs
         PROVE  \E c \in 1 .. (n + 1) : LastConnect(c, Len(kind))
    BY <1>1, <1>5, <1>10 DEF Timeouts, n
  <1>11. QED BY <1>1, <1>8, <1>9, <1>10 DEF Timeouts, IsLast, TimeoutsUpTo, LastConnect

LEMMA TimeoutsStep == IInv /\ Timeouts /\ [Next]_vars => Timeouts'
  <1> SUFFICES ASSUME IInv, Timeouts, [Next]_vars
               PROVE  Timeouts'
    OBVIOUS
  <1>1. ASSUME NEW k \in Kind, Call(k)
        PROVE  Timeouts'
    BY <1>1, EnqueueTimeouts DEF Call, Sends
  <1>2. CASE DestructorCall
    BY <1>2, KindFacts, EnqueueTimeouts DEF DestructorCall
  <1>3. CASE Construct \/ Destruct \/ Join \/ PerformFails
    BY <1>3, OtherTimeouts DEF Construct, Destruct, Join, PerformFails, netVars
  <1>4. CASE Start \/ Take \/ Notify \/ Finish \/ Exit
    BY <1>4, OtherTimeouts DEF Start, Take, TakeItem, Notify, Finish, Exit, netVars
  <1>5. CASE UNCHANGED vars
    BY <1>5, OtherTimeouts DEF vars, netVars
  <1>6. QED
    BY <1>1, <1>2, <1>3, <1>4, <1>5, Steps, ReturnTimeouts, PerformTimeouts

(* While the client is connected its socket has the timeout that was last   *)
(* asked for before connect_ps was called, although setRecvTimeout does not *)
(* wait for the worker and may be called again and again.                   *)
THEOREM SocketHasTimeout == Spec => []TimeoutInForce
  <1>1. IInv /\ Timeouts => TimeoutInForce
    <2> SUFFICES ASSUME IInv, Timeouts, usePs
                 PROVE  TimeoutInForce
      BY DEF TimeoutInForce
    <2> DEFINE Calls(k) == {i \in 1 .. Len(kind) : kind[i] = k}
               Last(S) == CHOOSE i \in S : \A j \in S : j <= i
    <2>1. Len(kind) \in Nat /\ Len(performed) \in Nat /\ Len(performed) <= Len(kind)
      BY DEF IInv, TypeOK, Placed
    <2>2. PICK c \in 1 .. Len(performed) : LastConnect(c, Len(kind))
      BY DEF Timeouts
    <2>3. LastConnect(c, Len(performed)) /\ c \in 1 .. Len(kind) /\ c \in Nat
      BY <2>1, <2>2 DEF LastConnect
    <2>4. ASSUME NEW S \in SUBSET Nat, NEW x, IsLast(x, S)
          PROVE  Last(S) = x
      <3>1. x \in S /\ \A j \in S : j <= x
        BY <2>4 DEF IsLast
      <3>2. Last(S) \in S /\ \A j \in S : j <= Last(S)
        BY <3>1
      <3>3. \A a, b \in Nat : a <= b /\ b <= a => a = b
        OBVIOUS
      <3> HIDE DEF Last
      <3>4. QED BY <3>1, <3>2, <3>3
    <2>5. IsLast(c, Calls("connect_ps")) /\ Calls("connect_ps") \subseteq Nat
      BY <2>1, <2>2, <2>3 DEF LastConnect, IsLast
    <2>6. Last(Calls("connect_ps")) = c
      BY <2>4, <2>5
    <2>7. {0} \cup {i \in Calls("setRecvTimeout") : i < c} = TimeoutsUpTo(c)
      <3>1. kind[c] # "setRecvTimeout"
        BY <2>3 DEF LastConnect
      <3>2. \A i \in 1 .. c : i \in 1 .. Len(kind) /\ (i # c => i < c)
        BY <2>1, <2>3
      <3>3. \A i \in 1 .. Len(kind) : i < c => i \in 1 .. c
        BY <2>1, <2>3
      <3>4. QED BY <3>1, <3>2, <3>3 DEF TimeoutsUpTo
    <2>8. IsLast(socketTimeout, TimeoutsUpTo(c)) /\ TimeoutsUpTo(c) \subseteq Nat
      BY <2>3 DEF Timeouts, TimeoutsUpTo
    <2>9. Last(TimeoutsUpTo(c)) = socketTimeout
      BY <2>4, <2>8
    <2> HIDE DEF Last, Calls
    <2>10. socketTimeout = Last({0} \cup {i \in Calls("setRecvTimeout") : i < Last(Calls("connect_ps"))})
      BY <2>6, <2>7, <2>9
    <2>11. QED BY <2>10 DEF TimeoutInForce, Last, Calls
  <1>2. QED BY <1>1, TimeoutsInit, TimeoutsStep, InvInit, InvNext, PTL DEF Spec

-----------------------------------------------------------------------------
(* The queue and the thread implement OrderedRequests.                      *)

LEMMA RequestsInit == Init => Requests!Init
  <1> SUFFICES ASSUME Init
               PROVE  Requests!Init
    OBVIOUS
  <1>1. Len(kind) = 0 /\ performed = <<>> /\ main = "constructing"
    BY DEF Init
  <1>2. ~(Len(kind) > 0)
    BY <1>1
  <1>3. (Len(kind) > 0 /\ kind[Len(kind)] \in Blocking /\ Len(kind) \notin freed) = FALSE
    BY <1>2
  <1>4. (main # "terminated") = TRUE
    BY <1>1
  <1>5. QED BY <1>1, <1>3, <1>4 DEF Requests!Init

(* A call is a request. *)
LEMMA EnqueueMakes ==
  ASSUME IInv, NEW k \in Kind, Enqueue(k)
  PROVE  Requests!Make(k \in Blocking)
  <1> USE EnqueueEffect
  <1>1. main = "idle" /\ main' # "terminated" /\ freed' = freed /\ performed' = performed
    BY DEF Enqueue
  <1>2. Len(kind) \in Nat /\ Len(kind') = Len(kind) + 1 /\ kind'[Len(kind')] = k
    BY DEF IInv
  <1>3. Len(kind) > 0 /\ kind[Len(kind)] \in Blocking => Len(kind) \in freed
    <2>1. Len(kind) > 0 => Len(kind) \in 1 .. Len(kind)
      BY <1>2
    <2>2. QED BY <1>1, <2>1 DEF IInv, Destroyed
  <1>4. Len(kind') \notin freed'
    BY <1>1, <1>2 DEF IInv, TypeOK
  <1>5. (Len(kind') > 0 /\ kind'[Len(kind')] \in Blocking /\ Len(kind') \notin freed') = (k \in Blocking)
    BY <1>2, <1>4
  <1>6. (main # "terminated")' = (main # "terminated")
    BY <1>1
  <1>7. QED BY <1>1, <1>2, <1>3, <1>5, <1>6 DEF Requests!Make

LEMMA RequestsStep == IInv /\ [Next]_vars => [Requests!Next]_(Requests!vars)
  <1> SUFFICES ASSUME IInv, [Next]_vars
               PROVE  [Requests!Next]_(Requests!vars)
    OBVIOUS
  <1> DEFINE blocked == Len(kind) > 0 /\ kind[Len(kind)] \in Blocking /\ Len(kind) \notin freed
  <1>1. ASSUME NEW k \in Kind, Enqueue(k)
        PROVE  Requests!Next
    <2>1. (k \in Blocking) \in BOOLEAN
      OBVIOUS
    <2>2. QED BY <1>1, <2>1, EnqueueMakes DEF Requests!Next
  <1>2. ASSUME NEW k \in Kind, Call(k)
        PROVE  Requests!Next
    BY <1>1, <1>2 DEF Call
  <1>3. CASE DestructorCall
    <2>1. (IF usePs THEN "disconnect_ps" ELSE "stopWorkerThread") \in Kind
      BY KindFacts
    <2>2. QED BY <1>1, <1>3, <2>1 DEF DestructorCall
  <1>4. CASE Return
    <2>1. /\ main = "waiting" /\ main' # "terminated"
          /\ freed' = freed \cup {Len(kind)}
          /\ UNCHANGED <<kind, performed>>
      BY <1>4 DEF Return
    <2>2. Len(kind) > 0 /\ Len(performed) = Len(kind)
      BY <1>4, <2>1, ReturnFacts DEF IInv, Destroyed
    <2>3. blocked /\ blocked' = FALSE
      BY <1>4, <2>1, <2>2, ReturnFacts
    <2>4. (main # "terminated")' = (main # "terminated")
      BY <2>1
    <2>5. Requests!Return
      BY <2>1, <2>2, <2>3, <2>4 DEF Requests!Return
    <2>6. QED BY <2>5 DEF Requests!Next
  <1>5. CASE Perform
    <2>1. /\ main # "terminated" /\ performed' = Append(performed, item)
          /\ item = Len(performed) + 1
          /\ UNCHANGED <<kind, freed, main>>
      BY <1>5 DEF Perform, IInv, Placed
    <2>2. Len(performed) < Len(kind)
      <3>1. Len(performed) + 1 + Len(queue) = Len(kind)
        BY <1>5 DEF Perform, IInv, Placed
      <3>2. QED BY <3>1 DEF IInv, TypeOK
    <2>3. Requests!CarryOut
      BY <2>1, <2>2 DEF Requests!CarryOut
    <2>4. QED BY <2>3 DEF Requests!Next
  <1>6. CASE PerformFails
    <2>1. /\ main # "terminated" /\ (main' # "terminated") = FALSE
          /\ UNCHANGED <<kind, freed, performed>>
      BY <1>6 DEF PerformFails
    <2>2. Requests!Fail
      BY <2>1 DEF Requests!Fail
    <2>3. QED BY <2>2 DEF Requests!Next
  <1>7. CASE Finish
    <2>1. /\ freed' = freed \cup (IF doDelete THEN {item} ELSE {})
          /\ UNCHANGED <<kind, performed, main>>
      BY <1>7 DEF Finish, Deleted
    <2>2. item > 0
      BY <1>7 DEF Finish, IInv, Placed
    <2>3. doDelete => kind[item] \notin Blocking
      BY <2>2 DEF IInv, Placed
    <2>4. blocked' = blocked
      BY <2>1, <2>3
    <2>5. QED BY <2>1, <2>4 DEF Requests!vars
  <1>8. CASE Construct \/ Destruct \/ Join
    <2>1. /\ UNCHANGED <<kind, performed, freed>>
          /\ (main' # "terminated") = (main # "terminated")
      BY <1>8 DEF Construct, Destruct, Join
    <2>2. QED BY <2>1 DEF Requests!vars
  <1>9. CASE Start \/ Take \/ Notify \/ Exit
    <2>1. UNCHANGED <<kind, performed, freed, main>>
      BY <1>9 DEF Start, Take, TakeItem, Notify, Exit
    <2>2. QED BY <2>1 DEF Requests!vars
  <1>10. CASE UNCHANGED vars
    BY <1>10 DEF vars, Requests!vars
  <1>11. QED
    BY <1>2, <1>3, <1>4, <1>5, <1>6, <1>7, <1>8, <1>9, <1>10, Steps

(* The rank's calls are carried out as a synchronous client would carry     *)
(* them out: in the order of the calls, each once, and a blocking one, with *)
(* all before it, before it returns.                                        *)
THEOREM ImplementsOrderedRequests == Spec => CarriesOutInOrder
  BY RequestsInit, RequestsStep, Invariance, PTL DEF Spec, CarriesOutInOrder, Requests!Spec

=============================================================================
