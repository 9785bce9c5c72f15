--------------------------- MODULE TaskQueuesProofs ---------------------------
(***************************************************************************)
(* Theorems about TaskQueues, for any threads and any number of tasks.      *)
(*                                                                          *)
(* The invariant they rest on says that a task handed over is in exactly    *)
(* one place: in the queue, in the hands of a thread, or done (Placed), and *)
(* what is left when threads and callers have ended (Ends).  With one       *)
(* thread, the tasks done, in its hands and in the queue are consecutive    *)
(* numbers (Ordered).                                                       *)
(***************************************************************************)
EXTENDS TaskQueues, TLAPS

Distinct(s) == \A i, j \in DOMAIN s : s[i] = s[j] => i = j

Queued == Range(queue)
Done == Range(done)
Running(t) == t \in pool /\ thread[t] = "running"

(* Every task is in exactly one place. *)
Placed ==
  /\ Distinct(queue) /\ Distinct(done)
  /\ Queued \subseteq 1 .. submitted /\ Done \subseteq 1 .. submitted
  /\ Queued \cap Done = {}
  /\ \A t \in Thread : thread[t] = "running" =>
       t \in pool /\ job[t] \in 1 .. submitted /\ job[t] \notin Queued /\ job[t] \notin Done
  /\ \A t, u \in Thread : thread[t] = "running" /\ thread[u] = "running" /\ job[t] = job[u] => t = u
  /\ \A n \in 1 .. submitted :
       n \in Queued \/ n \in Done \/ \E t \in pool : thread[t] = "running" /\ job[t] = n

(* Who has ended has left nothing to do, but for what is in the queue of a  *)
(* threadPool. *)
Ends ==
  /\ \A t \in Thread : thread[t] = "none" =>
       kind = "ADio" /\ ~quit /\ queue = <<>> /\ \A u \in Thread : thread[u] = "none"
  /\ caller \in {"polling", "quitting"} => \A t \in Thread : thread[t] # "none"
  /\ \A t \in Thread : thread[t] = "checking" => kind = "threadPool"
  /\ \A t \in pool : thread[t] = "ended" => quit /\ (kind # "threadPool" => queue = <<>>)
  /\ quit => caller \in {"waking", "joining", "destroyed", "awaiting", "terminated"}
  /\ caller = "awaiting" => kind = "threadPool"
  /\ caller \in {"awaiting", "terminated"} /\ kind = "threadPool" => awaited \in futures
  /\ futures \subseteq 1 .. submitted
  /\ futures # {} => kind = "threadPool"
  /\ caller = "terminated" /\ kind = "threadPool" => quit /\ awaited \notin Done
  /\ quit /\ (caller \in {"destroyed", "awaiting"} \/ (caller = "terminated" /\ kind = "threadPool")) =>
       \A t \in pool : thread[t] = "ended"
  /\ caller \in {"waking", "joining"} => quit
  /\ caller = "destroyed" /\ ~quit => \A t \in pool : thread[t] = "none"
  /\ caller = "destroyed" /\ kind = "threadPool" => quit
  /\ ~valid => kind = "threadPool"

IInv == TypeOK /\ Placed /\ Ends

-----------------------------------------------------------------------------
(* Sequences without repetition.                                            *)

LEMMA AppendRange ==
  ASSUME NEW s \in Seq(Nat), NEW x \in Nat
  PROVE  Range(Append(s, x)) = Range(s) \cup {x}
<1> DEFINE a == Append(s, x)
<1>1. /\ Len(s) \in Nat
      /\ DOMAIN s = 1 .. Len(s) /\ DOMAIN a = 1 .. (Len(s) + 1)
      /\ \A i \in 1 .. Len(s) : a[i] = s[i]
      /\ a[Len(s) + 1] = x
  OBVIOUS
<1>2. \A i \in DOMAIN a : a[i] \in Range(s) \cup {x}
  BY <1>1 DEF Range
<1>3. \A i \in DOMAIN s : i \in DOMAIN a /\ a[i] = s[i]
  BY <1>1
<1>4. Len(s) + 1 \in DOMAIN a
  BY <1>1
<1> QED
  BY <1>1, <1>2, <1>3, <1>4 DEF Range

LEMMA AppendDistinct ==
  ASSUME NEW s \in Seq(Nat), NEW x \in Nat, Distinct(s), x \notin Range(s)
  PROVE  Distinct(Append(s, x))
<1> DEFINE a == Append(s, x)
<1>1. /\ Len(s) \in Nat
      /\ DOMAIN s = 1 .. Len(s) /\ DOMAIN a = 1 .. (Len(s) + 1)
      /\ \A i \in 1 .. Len(s) : a[i] = s[i]
      /\ a[Len(s) + 1] = x
  OBVIOUS
<1>2. \A i \in 1 .. Len(s) : a[i] # x
  BY <1>1 DEF Range
<1>3. ASSUME NEW i \in DOMAIN a, NEW j \in DOMAIN a, a[i] = a[j]
      PROVE  i = j
  <2>1. i \in 1 .. Len(s) \/ i = Len(s) + 1
    BY <1>1
  <2>2. j \in 1 .. Len(s) \/ j = Len(s) + 1
    BY <1>1
  <2> QED
    BY <1>1, <1>2, <1>3, <2>1, <2>2 DEF Distinct
<1> QED
  BY <1>3 DEF Distinct

LEMMA TailRange ==
  ASSUME NEW s \in Seq(Nat), s # <<>>
  PROVE  /\ Head(s) \in Range(s)
         /\ Range(s) = Range(Tail(s)) \cup {Head(s)}
<1> DEFINE t == Tail(s)
<1>1. /\ Len(s) \in Nat \ {0}
      /\ DOMAIN s = 1 .. Len(s) /\ DOMAIN t = 1 .. (Len(s) - 1)
      /\ Head(s) = s[1]
      /\ \A i \in 1 .. (Len(s) - 1) : t[i] = s[i + 1]
  OBVIOUS
<1>2. \A i \in DOMAIN t : i + 1 \in DOMAIN s /\ t[i] = s[i + 1]
  BY <1>1
<1>3. \A i \in DOMAIN s : i = 1 \/ (i - 1 \in DOMAIN t /\ t[i - 1] = s[i])
  BY <1>1
<1>4. 1 \in DOMAIN s
  BY <1>1
<1>5. Range(t) \subseteq Range(s)
  BY <1>2 DEF Range
<1>6. Range(s) \subseteq Range(t) \cup {Head(s)}
  BY <1>1, <1>3 DEF Range
<1> QED
  BY <1>1, <1>4, <1>5, <1>6 DEF Range

LEMMA TailDistinct ==
  ASSUME NEW s \in Seq(Nat), s # <<>>, Distinct(s)
  PROVE  Distinct(Tail(s)) /\ Head(s) \notin Range(Tail(s))
<1> DEFINE t == Tail(s)
<1>1. /\ Len(s) \in Nat \ {0}
      /\ DOMAIN s = 1 .. Len(s) /\ DOMAIN t = 1 .. (Len(s) - 1)
      /\ Head(s) = s[1]
      /\ \A i \in 1 .. (Len(s) - 1) : t[i] = s[i + 1]
  OBVIOUS
<1>2. \A i \in DOMAIN t : i + 1 \in DOMAIN s /\ t[i] = s[i + 1] /\ i + 1 # 1
  BY <1>1
<1>3. \A i, j \in DOMAIN t : i + 1 = j + 1 => i = j
  BY <1>1
<1>4. Distinct(t)
  BY <1>2, <1>3 DEF Distinct
<1>5. 1 \in DOMAIN s
  BY <1>1
<1>6. \A i \in DOMAIN t : t[i] # Head(s)
  BY <1>1, <1>2, <1>5 DEF Distinct
<1> QED
  BY <1>4, <1>6 DEF Range

LEMMA EmptyRange == Range(<<>>) = {} /\ Distinct(<<>>)
  BY DEF Range, Distinct

-----------------------------------------------------------------------------
(* Types.                                                                   *)

LEMMA TasksAreNumbers ==
  ASSUME TypeOK
  PROVE  /\ queue \in Seq(Nat) /\ done \in Seq(Nat)
         /\ \A t \in Thread : job[t] \in Nat
<1>1. queue \in Seq(1 .. MaxTasks) /\ done \in Seq(1 .. MaxTasks)
  BY DEF TypeOK
<1>2. \A s \in Seq(1 .. MaxTasks) : s \in Seq(Nat)
  BY TaskQueuesAssumption
<1>3. \A t \in Thread : job[t] \in Nat
  BY TaskQueuesAssumption DEF TypeOK
<1> QED
  BY <1>1, <1>2, <1>3

LEMMA InitType == Init => TypeOK
<1> SUFFICES ASSUME Init PROVE TypeOK
  OBVIOUS
<1>1. thread \in [Thread -> {"none", "checking", "locking", "waiting", "running", "ended"}]
  BY DEF Init, First
<1>2. 0 \in 0 .. MaxTasks /\ <<>> \in Seq(1 .. MaxTasks)
  BY TaskQueuesAssumption
<1>3. job \in [Thread -> 0 .. MaxTasks]
  BY <1>2 DEF Init
<1> QED
  BY <1>1, <1>2, <1>3 DEF Init, TypeOK

LEMMA WokenType ==
  ASSUME TypeOK, NEW W
  PROVE  Woken(W) \in [Thread -> {"none", "checking", "locking", "waiting", "running", "ended"}]
  BY DEF TypeOK, Woken

LEMMA TypeStep ==
  ASSUME TypeOK, Placed, [Next]_vars
  PROVE  TypeOK'
<1> USE TaskQueuesAssumption DEF TypeOK
<1>1. CASE SetDispatcher
  BY <1>1 DEF SetDispatcher
<1>2. CASE WriteDirectly
  <2>1. submitted + 1 \in 1 .. MaxTasks
    BY <1>2 DEF WriteDirectly
  <2> QED BY <1>2, <2>1, TaskQueuesAssumption DEF WriteDirectly
<1>3. CASE Dispatch
  <2>1. submitted + 1 \in 1 .. MaxTasks
    BY <1>3 DEF Dispatch
  <2> QED BY <1>3, <2>1 DEF Dispatch
<1>4. CASE Submit
  <2>1. submitted + 1 \in 1 .. MaxTasks
    BY <1>4 DEF Submit
  <2> QED BY <1>4, <2>1, WokenType DEF Submit
<1>5. ASSUME NEW n \in 1 .. MaxTasks, Await(n) PROVE TypeOK'
  BY <1>5 DEF Await
<1>6. CASE BeginDestructor
  BY <1>6 DEF BeginDestructor
<1>7. CASE NotifyAll
  BY <1>7, WokenType DEF NotifyAll
<1>8. CASE Answered
  BY <1>8 DEF Answered
<1>9. CASE Broken
  <2>1. awaited' \in 0 .. MaxTasks /\ futures' \subseteq 1 .. MaxTasks
    <3>1. 0 \in 0 .. MaxTasks /\ futures \ {awaited} \subseteq 1 .. MaxTasks
      OBVIOUS
    <3> QED
      BY <1>9, <3>1 DEF Broken
  <2>2. caller' \in {"terminated", "destroyed"}
    BY <1>9 DEF Broken
  <2> QED
    BY <1>9, <2>1, <2>2 DEF Broken
<1>10. CASE Polled
  BY <1>10 DEF Polled
<1>11. CASE SetQuit
  BY <1>11 DEF SetQuit
<1>12. CASE WakeAll
  BY <1>12, WokenType DEF WakeAll
<1>13. CASE Join
  BY <1>13 DEF Join
<1>14. ASSUME NEW t \in pool, CheckDone(t) PROVE TypeOK'
  BY <1>14 DEF CheckDone, Goto
<1>15. ASSUME NEW t \in pool, Take(t) PROVE TypeOK'
  <2>1. Head(queue) \in 1 .. MaxTasks /\ Tail(queue) \in Seq(1 .. MaxTasks)
    BY <1>15 DEF Take
  <2>2. queue' = Tail(queue) /\ job' = [job EXCEPT ![t] = Head(queue)]
    BY <1>15 DEF Take, Popped
  <2> QED BY <1>15, <2>1, <2>2 DEF Take, Goto
<1>16. ASSUME NEW t \in pool, Wait(t) PROVE TypeOK'
  BY <1>16 DEF Wait, Goto
<1>17. ASSUME NEW t \in pool, Leave(t) PROVE TypeOK'
  BY <1>17 DEF Leave, Goto
<1>18. ASSUME NEW t \in pool, FindInvalid(t) PROVE TypeOK'
  BY <1>18 DEF FindInvalid, Goto
<1>19. ASSUME NEW t \in pool, CarryOut(t) PROVE TypeOK'
  <2>0. job[t] \in 1 .. MaxTasks
    BY <1>19 DEF CarryOut, Placed
  <2>1. done' \in Seq(1 .. MaxTasks)
    BY <1>19, <2>0 DEF CarryOut
  <2> QED BY <1>19, <2>1 DEF CarryOut, Goto, First
<1>20. ASSUME NEW t \in pool, WakeSpuriously(t) PROVE TypeOK'
  BY <1>20 DEF WakeSpuriously, Goto
<1>21. ASSUME NEW t \in pool, TaskThrows(t) PROVE TypeOK'
  BY <1>21 DEF TaskThrows
<1>22. CASE UNCHANGED vars
  BY <1>22 DEF vars
<1> QED
  BY <1>1, <1>2, <1>3, <1>4, <1>5, <1>6, <1>7, <1>8, <1>9, <1>10, <1>11, <1>12, <1>13, <1>14,
     <1>15, <1>16, <1>17, <1>18, <1>19, <1>20, <1>21, <1>22 DEF Next, CallEnds, ThreadStep

-----------------------------------------------------------------------------
(* Every task is in one place.                                              *)

LEMMA InitPlaced == Init => Placed
<1> SUFFICES ASSUME Init PROVE Placed
  OBVIOUS
<1>1. Queued = {} /\ Done = {} /\ Distinct(queue) /\ Distinct(done)
  BY EmptyRange DEF Init, Queued, Done
<1>2. 1 .. submitted = {}
  BY DEF Init
<1>3. \A t \in Thread : thread[t] # "running"
  BY DEF Init, First
<1> QED
  BY <1>1, <1>2, <1>3 DEF Placed

(* Steps that leave the tasks where they are, and let no thread begin or    *)
(* end a task. *)
LEMMA PlacedKept ==
  ASSUME TypeOK, Placed, UNCHANGED <<pool, job, queue, submitted, done>>,
         \A t \in Thread : (thread'[t] = "running") = (thread[t] = "running")
  PROVE  Placed'
<1>1. Queued' = Queued /\ Done' = Done /\ Distinct(queue)' = Distinct(queue)
      /\ Distinct(done)' = Distinct(done)
  BY DEF Queued, Done, Distinct
<1>2. \A t \in pool : t \in Thread
  BY DEF TypeOK
<1> QED
  BY <1>1, <1>2 DEF Placed

LEMMA WokenRuns ==
  ASSUME TypeOK, NEW W \in SUBSET Waiting, thread' = Woken(W)
  PROVE  \A t \in Thread : (thread'[t] = "running") = (thread[t] = "running")
  BY DEF Woken, Waiting

LEMMA GotoRuns ==
  ASSUME TypeOK, NEW t \in pool, NEW place, Goto(t, place),
         thread[t] # "running", place # "running"
  PROVE  \A u \in Thread : (thread'[u] = "running") = (thread[u] = "running")
  BY DEF Goto, TypeOK

(* A task that is handed over joins the queue. *)
LEMMA PlacedPush ==
  ASSUME TypeOK, Placed, submitted < MaxTasks,
         submitted' = submitted + 1, queue' = Append(queue, submitted + 1),
         UNCHANGED <<pool, job, done>>,
         \A t \in Thread : (thread'[t] = "running") = (thread[t] = "running")
  PROVE  Placed'
<1>1. submitted + 1 \in 1 .. MaxTasks /\ submitted \in Nat
  BY TaskQueuesAssumption DEF TypeOK
<1>2. Queued' = Queued \cup {submitted + 1}
  <2>1. queue \in Seq(Nat) /\ submitted + 1 \in Nat
    BY <1>1, TasksAreNumbers
  <2>2. Range(Append(queue, submitted + 1)) = Range(queue) \cup {submitted + 1}
    BY <1>1, <2>1, AppendRange
  <2> QED
    BY <2>2 DEF Queued, Range
<1>3. submitted + 1 \notin 1 .. submitted
  BY <1>1
<1>4. Distinct(queue)'
  <2>1. submitted + 1 \notin Range(queue)
    BY <1>3 DEF Placed, Queued
  <2>2. Distinct(Append(queue, submitted + 1))
    BY <1>1, <2>1, AppendDistinct, TasksAreNumbers DEF Placed
  <2> QED
    BY <2>2 DEF Distinct
<1>5. Done' = Done /\ Distinct(done)' = Distinct(done)
  BY DEF Done, Distinct
<1>6. 1 .. submitted' = 1 .. submitted \cup {submitted + 1}
  BY <1>1
<1>7. \A t \in pool : t \in Thread
  BY DEF TypeOK
<1> QED
  BY <1>2, <1>3, <1>4, <1>5, <1>6, <1>7 DEF Placed

LEMMA PlacedStep ==
  ASSUME TypeOK, Placed, Ends, [Next]_vars
  PROVE  Placed'
<1>0. \A t \in pool : t \in Thread
  BY DEF TypeOK
<1>1. CASE SetDispatcher
  <2>1. \A t \in Thread : thread[t] # "running"
    BY <1>1 DEF SetDispatcher, Dispatching, Ends, Placed
  <2> QED
    BY <1>1, <2>1, PlacedKept DEF SetDispatcher
<1>2. CASE WriteDirectly
  <2>1. submitted + 1 \in Nat /\ submitted \in Nat /\ done \in Seq(Nat)
    BY <1>2, TasksAreNumbers DEF TypeOK
  <2>2. submitted + 1 \notin 1 .. submitted /\ 1 .. (submitted + 1) = 1 .. submitted \cup {submitted + 1}
    BY <2>1
  <2>3. Range(Append(done, submitted + 1)) = Range(done) \cup {submitted + 1}
    BY <2>1, AppendRange
  <2>4. Distinct(Append(done, submitted + 1))
    BY <2>1, <2>2, AppendDistinct DEF Placed, Done
  <2>5. Done' = Done \cup {submitted + 1} /\ Distinct(done)'
    BY <1>2, <2>3, <2>4 DEF WriteDirectly, Done, Range, Distinct
  <2>6. Queued' = Queued /\ Distinct(queue)' = Distinct(queue)
    BY <1>2 DEF WriteDirectly, Queued, Distinct
  <2>7. \A t \in Thread : thread'[t] = thread[t] /\ job'[t] = job[t] /\ pool' = pool
    BY <1>2 DEF WriteDirectly
  <2>8. submitted' = submitted + 1
    BY <1>2 DEF WriteDirectly
  <2>9. \A t \in Thread : thread[t] # "running"
    BY <1>2 DEF WriteDirectly, Dispatching, Ends, Placed
  <2>10. \A n \in 1 .. submitted : n \in Queued \/ n \in Done
    BY <1>0, <2>9 DEF Placed
  <2>11. Queued \cap Done' = {} /\ Queued \subseteq 1 .. submitted' /\ Done' \subseteq 1 .. submitted'
    BY <2>2, <2>5, <2>8 DEF Placed
  <2>12. \A n \in 1 .. submitted' : n \in Queued' \/ n \in Done'
    BY <2>2, <2>5, <2>6, <2>8, <2>10
  <2> QED
    BY <2>5, <2>6, <2>7, <2>9, <2>11, <2>12 DEF Placed
<1>3. CASE Dispatch
  BY <1>3, PlacedPush DEF Dispatch
<1>4. CASE Submit
  <2>1. PICK W \in Notified : thread' = Woken(W)
    BY <1>4 DEF Submit
  <2>2. W \in SUBSET Waiting
    BY <2>1 DEF Notified
  <2> QED
    BY <1>4, <2>1, <2>2, WokenRuns, PlacedPush DEF Submit
<1>5. ASSUME NEW n \in 1 .. MaxTasks, Await(n) PROVE Placed'
  BY <1>5, PlacedKept DEF Await
<1>6. CASE BeginDestructor
  BY <1>6, PlacedKept DEF BeginDestructor
<1>7. CASE NotifyAll
  BY <1>7, WokenRuns, PlacedKept DEF NotifyAll
<1>8. CASE Answered
  BY <1>8, PlacedKept DEF Answered
<1>9. CASE Broken
  BY <1>9, PlacedKept DEF Broken
<1>10. CASE Polled
  BY <1>10, PlacedKept DEF Polled
<1>11. CASE SetQuit
  BY <1>11, PlacedKept DEF SetQuit
<1>12. CASE WakeAll
  BY <1>12, WokenRuns, PlacedKept DEF WakeAll
<1>13. CASE Join
  BY <1>13, PlacedKept DEF Join
<1>14. ASSUME NEW t \in pool, CheckDone(t) PROVE Placed'
  <2>1. \A u \in Thread : (thread'[u] = "running") = (thread[u] = "running")
    BY <1>14, GotoRuns DEF CheckDone
  <2> QED
    BY <1>14, <2>1, PlacedKept DEF CheckDone, Goto
<1>15. ASSUME NEW t \in pool, Take(t) PROVE Placed'
  <2>1. queue \in Seq(Nat) /\ queue # <<>> /\ t \in Thread
    BY <1>15, <1>0, TasksAreNumbers DEF Take
  <2>2. /\ Range(queue) = Range(Tail(queue)) \cup {Head(queue)}
        /\ Distinct(Tail(queue)) /\ Head(queue) \notin Range(Tail(queue))
    BY <2>1, TailRange, TailDistinct DEF Placed
  <2>3. queue' = Tail(queue) /\ job' = [job EXCEPT ![t] = Head(queue)]
    BY <1>15 DEF Take, Popped
  <2>4. Queued = Queued' \cup {Head(queue)} /\ Head(queue) \notin Queued' /\ Distinct(queue)'
    BY <2>2, <2>3 DEF Queued, Range, Distinct
  <2>5. Done' = Done /\ Distinct(done)' = Distinct(done) /\ submitted' = submitted /\ pool' = pool
    BY <1>15 DEF Take, Goto, Done, Distinct
  <2>6. /\ thread[t] = "locking" /\ thread'[t] = "running" /\ job'[t] = Head(queue)
        /\ \A u \in Thread : u # t => thread'[u] = thread[u] /\ job'[u] = job[u]
    BY <1>15, <2>1, <2>3 DEF Take, Goto, TypeOK
  <2> QED
    BY <1>0, <2>1, <2>4, <2>5, <2>6 DEF Placed
<1>16. ASSUME NEW t \in pool, Wait(t) PROVE Placed'
  <2>1. \A u \in Thread : (thread'[u] = "running") = (thread[u] = "running")
    BY <1>16, GotoRuns DEF Wait
  <2> QED
    BY <1>16, <2>1, PlacedKept DEF Wait, Goto
<1>17. ASSUME NEW t \in pool, Leave(t) PROVE Placed'
  <2>1. \A u \in Thread : (thread'[u] = "running") = (thread[u] = "running")
    BY <1>17, GotoRuns DEF Leave
  <2> QED
    BY <1>17, <2>1, PlacedKept DEF Leave, Goto
<1>18. ASSUME NEW t \in pool, FindInvalid(t) PROVE Placed'
  <2>1. \A u \in Thread : (thread'[u] = "running") = (thread[u] = "running")
    BY <1>18, GotoRuns DEF FindInvalid
  <2> QED
    BY <1>18, <2>1, PlacedKept DEF FindInvalid, Goto
<1>19. ASSUME NEW t \in pool, CarryOut(t) PROVE Placed'
  <2>1. t \in Thread /\ thread[t] = "running" /\ done \in Seq(Nat)
    BY <1>19, <1>0, TasksAreNumbers DEF CarryOut
  <2>2. job[t] \in Nat /\ job[t] \in 1 .. submitted /\ job[t] \notin Range(done)
        /\ job[t] \notin Queued
    BY <2>1, TasksAreNumbers DEF Placed, Done
  <2>3. Range(Append(done, job[t])) = Range(done) \cup {job[t]} /\ Distinct(Append(done, job[t]))
    BY <2>1, <2>2, AppendRange, AppendDistinct DEF Placed
  <2>4. Done' = Done \cup {job[t]} /\ Distinct(done)'
    BY <1>19, <2>3 DEF CarryOut, Done, Range, Distinct
  <2>5. Queued' = Queued /\ Distinct(queue)' = Distinct(queue) /\ submitted' = submitted /\ pool' = pool
    BY <1>19 DEF CarryOut, Goto, Queued, Distinct
  <2>6. /\ thread'[t] # "running"
        /\ \A u \in Thread : u # t => thread'[u] = thread[u] /\ job'[u] = job[u]
    BY <1>19, <2>1 DEF CarryOut, Goto, TypeOK, First
  <2>7. \A u \in Thread : u # t /\ thread[u] = "running" => job[u] # job[t]
    BY <2>1 DEF Placed
  <2>8. /\ Queued' \cap Done' = {} /\ Queued' \subseteq 1 .. submitted'
        /\ Done' \subseteq 1 .. submitted' /\ Distinct(queue)' /\ Distinct(done)'
    BY <2>2, <2>4, <2>5 DEF Placed
  <2>9. \A u \in Thread : thread'[u] = "running" =>
          u \in pool' /\ job'[u] \in 1 .. submitted' /\ job'[u] \notin Queued' /\ job'[u] \notin Done'
    BY <2>4, <2>5, <2>6, <2>7 DEF Placed
  <2>10. \A u, w \in Thread : thread'[u] = "running" /\ thread'[w] = "running" /\ job'[u] = job'[w]
           => u = w
    BY <2>6 DEF Placed
  <2>11. \A n \in 1 .. submitted' :
           n \in Queued' \/ n \in Done' \/ \E u \in pool' : thread'[u] = "running" /\ job'[u] = n
    BY <1>0, <2>4, <2>5, <2>6 DEF Placed
  <2> QED
    BY <2>8, <2>9, <2>10, <2>11 DEF Placed
<1>20. ASSUME NEW t \in pool, WakeSpuriously(t) PROVE Placed'
  <2>1. \A u \in Thread : (thread'[u] = "running") = (thread[u] = "running")
    BY <1>20, GotoRuns DEF WakeSpuriously
  <2> QED
    BY <1>20, <2>1, PlacedKept DEF WakeSpuriously, Goto
<1>21. ASSUME NEW t \in pool, TaskThrows(t) PROVE Placed'
  BY <1>21, PlacedKept DEF TaskThrows
<1>22. CASE UNCHANGED vars
  BY <1>22, PlacedKept DEF vars
<1> QED
  BY <1>1, <1>2, <1>3, <1>4, <1>5, <1>6, <1>7, <1>8, <1>9, <1>10, <1>11, <1>12, <1>13, <1>14,
     <1>15, <1>16, <1>17, <1>18, <1>19, <1>20, <1>21, <1>22 DEF Next, CallEnds, ThreadStep

-----------------------------------------------------------------------------
(* What is left at the end.                                                 *)

LEMMA InitEnds == Init => Ends
<1> SUFFICES ASSUME Init PROVE Ends
  OBVIOUS
<1>1. \A t \in Thread : thread[t] = "none" => kind = "ADio" /\ \A u \in Thread : thread[u] = "none"
  BY DEF Init, First
<1>2. \A t \in Thread : thread[t] # "ended" /\ (thread[t] = "checking" => kind = "threadPool")
  BY DEF Init, First
<1> QED
  BY <1>1, <1>2 DEF Init, Ends

LEMMA WokenEnds ==
  ASSUME TypeOK, NEW W \in SUBSET Waiting, thread' = Woken(W)
  PROVE  \A t \in Thread : /\ (thread'[t] = "none") = (thread[t] = "none")
                           /\ thread'[t] = "checking" => thread[t] = "checking"
                           /\ (thread'[t] = "ended") = (thread[t] = "ended")
  BY DEF Woken, Waiting

LEMMA GotoEnds ==
  ASSUME TypeOK, NEW t \in pool, NEW place, Goto(t, place)
  PROVE  /\ t \in Thread /\ thread'[t] = place
         /\ \A u \in Thread : u # t => thread'[u] = thread[u]
         /\ UNCHANGED <<kind, pool, quit, valid, caller, submitted, futures, awaited>>
  BY DEF Goto, TypeOK

(* A step of a thread that goes on. *)
LEMMA EndsGoto ==
  ASSUME TypeOK, Ends, NEW t \in pool, NEW place, Goto(t, place),
         thread[t] \notin {"none", "ended"}, place \notin {"none", "ended"},
         place = "checking" => kind = "threadPool",
         queue' = queue \/ queue # <<>>, caller # "terminated"
  PROVE  Ends'
<1>1. /\ t \in Thread /\ thread'[t] = place
      /\ \A u \in Thread : u # t => thread'[u] = thread[u]
      /\ UNCHANGED <<kind, pool, quit, valid, caller, submitted, futures, awaited>>
  BY GotoEnds
<1>2. \A u \in pool : u \in Thread
  BY DEF TypeOK
<1>3. \A u \in Thread : thread[u] # "none" /\ thread'[u] # "none"
  BY <1>1 DEF Ends
<1>4. \A u \in pool : thread'[u] = "ended" => thread[u] = "ended"
  BY <1>1, <1>2
<1>5. ~(quit /\ caller \in {"destroyed", "awaiting"})
  BY DEF Ends
<1>6. ~(caller = "destroyed" /\ ~quit)
  BY <1>2, <1>3 DEF Ends
<1>7. \A u \in pool' : thread'[u] = "ended" => quit' /\ (kind' # "threadPool" => queue' = <<>>)
  BY <1>1, <1>4 DEF Ends
<1> QED
  BY <1>1, <1>3, <1>5, <1>6, <1>7 DEF Ends

LEMMA EndsStep ==
  ASSUME TypeOK, Placed, Ends, [Next]_vars
  PROVE  Ends'
<1>0. \A t \in pool : t \in Thread
  BY DEF TypeOK
<1>1. CASE SetDispatcher
  <2>1. \A t \in Thread : thread'[t] = "locking"
    BY <1>1 DEF SetDispatcher
  <2> QED
    BY <1>0, <1>1, <2>1 DEF SetDispatcher, Ends
<1>2. CASE WriteDirectly
  <2>1. submitted \in Nat /\ 1 .. submitted \subseteq 1 .. (submitted + 1)
    BY DEF TypeOK
  <2>2. futures \subseteq 1 .. (submitted + 1)
    BY <2>1 DEF Ends
  <2> QED
    BY <1>2, <2>2 DEF WriteDirectly, Ends
<1>3. CASE Dispatch
  <2>1. submitted \in Nat /\ 1 .. submitted \subseteq 1 .. (submitted + 1)
    BY DEF TypeOK
  <2>2. futures \subseteq 1 .. (submitted + 1)
    BY <2>1 DEF Ends
  <2>3. \A t \in Thread : thread[t] # "none"
    BY <1>0, <1>3 DEF Dispatch, Dispatching, Ends
  <2>4. \A t \in pool : thread[t] # "ended"
    BY <1>3 DEF Dispatch, Ends
  <2> QED
    BY <1>3, <2>2, <2>3, <2>4 DEF Dispatch, Ends
<1>4. CASE Submit
  <2>1. submitted \in Nat /\ 1 .. submitted \subseteq 1 .. (submitted + 1)
        /\ submitted + 1 \in 1 .. (submitted + 1)
    BY DEF TypeOK
  <2>2. futures' \subseteq 1 .. submitted'
    BY <1>4, <2>1 DEF Submit, Ends
  <2>3. PICK W \in Notified : thread' = Woken(W)
    BY <1>4 DEF Submit
  <2>4. W \in SUBSET Waiting
    BY DEF Notified
  <2>5. \A t \in Thread : thread[t] # "none" /\ thread'[t] # "none"
    BY <1>4, <2>3, <2>4, WokenEnds DEF Submit, Ends
  <2>6. \A t \in pool : thread[t] # "ended" /\ thread'[t] # "ended"
    BY <1>0, <1>4, <2>3, <2>4, WokenEnds DEF Submit, Ends
  <2> QED
    BY <1>4, <2>2, <2>5, <2>6 DEF Submit, Ends
<1>5. ASSUME NEW n \in 1 .. MaxTasks, Await(n) PROVE Ends'
  <2>1. kind = "threadPool"
    BY <1>5 DEF Await, Ends
  <2> QED
    BY <1>5, <2>1 DEF Await, Ends
<1>6. CASE BeginDestructor
  <2>1. ~quit
    BY <1>6 DEF BeginDestructor, Ends
  <2>2. caller' \in {"quitting", "polling"} \/ (caller' = "destroyed" /\ kind = "ADio" /\ ~Dispatching)
    BY <1>6 DEF BeginDestructor
  <2>3. ~Dispatching => \A t \in pool : thread[t] = "none"
    BY DEF Dispatching
  <2>4. caller' # "destroyed" => \A t \in Thread : thread[t] # "none"
    BY <1>0, <1>6 DEF BeginDestructor, Dispatching, Ends
  <2> QED
    BY <1>6, <2>1, <2>2, <2>3, <2>4 DEF BeginDestructor, Ends
<1>7. CASE NotifyAll
  <2>1. \A t \in Thread : /\ (thread'[t] = "none") = (thread[t] = "none")
                          /\ thread'[t] = "checking" => thread[t] = "checking"
                          /\ (thread'[t] = "ended") = (thread[t] = "ended")
    BY <1>7, WokenEnds DEF NotifyAll
  <2> QED
    BY <1>0, <1>7, <2>1 DEF NotifyAll, Ends
<1>8. CASE Answered
  <2>1. kind = "threadPool"
    BY <1>8 DEF Answered, Ends
  <2> QED
    BY <1>8, <2>1 DEF Answered, Ends
<1>9. CASE Broken
  BY <1>9 DEF Broken, Ends, Done
<1>10. CASE Polled
  BY <1>10 DEF Polled, Ends
<1>11. CASE SetQuit
  <2>1. \A t \in Thread : thread[t] # "none"
    BY <1>11 DEF SetQuit, Ends
  <2> QED
    BY <1>11, <2>1 DEF SetQuit, Ends
<1>12. CASE WakeAll
  <2>1. \A t \in Thread : /\ (thread'[t] = "none") = (thread[t] = "none")
                          /\ thread'[t] = "checking" => thread[t] = "checking"
                          /\ (thread'[t] = "ended") = (thread[t] = "ended")
    BY <1>12, WokenEnds DEF WakeAll
  <2>2. quit
    BY <1>12 DEF WakeAll, Ends
  <2> QED
    BY <1>0, <1>12, <2>1, <2>2 DEF WakeAll, Ends
<1>13. CASE Join
  BY <1>13 DEF Join, Joined, Ends
<1>14. ASSUME NEW t \in pool, caller # "terminated", CheckDone(t) PROVE Ends'
  <2>1. CASE ~quit
    BY <1>14, <2>1, EndsGoto DEF CheckDone
  <2>2. CASE quit
    <3>1. kind = "threadPool"
      BY <1>0, <1>14 DEF CheckDone, Ends
    <3> QED
      BY <1>14, <2>2, <3>1, GotoEnds DEF CheckDone, Ends
  <2> QED
    BY <2>1, <2>2
<1>15. ASSUME NEW t \in pool, caller # "terminated", Take(t) PROVE Ends'
  BY <1>15, EndsGoto DEF Take
<1>16. ASSUME NEW t \in pool, caller # "terminated", Wait(t) PROVE Ends'
  BY <1>16, EndsGoto DEF Wait
<1>17. ASSUME NEW t \in pool, caller # "terminated", Leave(t) PROVE Ends'
  <2>1. /\ t \in Thread /\ thread'[t] = "ended" /\ thread[t] = "locking"
        /\ \A u \in Thread : u # t => thread'[u] = thread[u]
        /\ UNCHANGED <<kind, pool, quit, valid, caller, submitted, futures, awaited, queue, done>>
        /\ quit /\ queue = <<>>
    BY <1>17, GotoEnds DEF Leave, MayLeave
  <2>2. \A u \in Thread : thread[u] # "none" /\ thread'[u] # "none"
    BY <2>1 DEF Ends
  <2>3. ~(caller \in {"destroyed", "awaiting", "terminated"})
    BY <1>17, <2>1 DEF Ends
  <2> QED
    BY <1>0, <2>1, <2>2, <2>3 DEF Ends
<1>18. ASSUME NEW t \in pool, caller # "terminated", FindInvalid(t) PROVE Ends'
  <2>1. kind = "threadPool"
    BY <1>18 DEF FindInvalid, Ends
  <2> QED
    BY <1>18, <2>1, EndsGoto DEF FindInvalid
<1>19. ASSUME NEW t \in pool, caller # "terminated", CarryOut(t) PROVE Ends'
  BY <1>19, EndsGoto DEF CarryOut, First
<1>20. ASSUME NEW t \in pool, WakeSpuriously(t) PROVE Ends'
  BY <1>20, EndsGoto DEF WakeSpuriously
<1>21. ASSUME NEW t \in pool, caller # "terminated", TaskThrows(t) PROVE Ends'
  BY <1>0, <1>21 DEF TaskThrows, Ends
<1>22. CASE UNCHANGED vars
  BY <1>22 DEF vars, Ends, Done
<1> QED
  BY <1>1, <1>2, <1>3, <1>4, <1>5, <1>6, <1>7, <1>8, <1>9, <1>10, <1>11, <1>12, <1>13, <1>14,
     <1>15, <1>16, <1>17, <1>18, <1>19, <1>20, <1>21, <1>22 DEF Next, CallEnds, ThreadStep

-----------------------------------------------------------------------------
(* One thread: the tasks that are done, the one in its hands and those in   *)
(* the queue are consecutive numbers.                                       *)

InLine(first) ==
  /\ \A i \in DOMAIN queue : queue[i] = first + i
  /\ submitted = first + Len(queue)

Ordered == \A p \in Thread : pool = {p} =>
  /\ \A i \in DOMAIN done : done[i] = i
  /\ thread[p] = "running" => job[p] = Len(done) + 1 /\ InLine(Len(done) + 1)
  /\ thread[p] # "running" => InLine(Len(done))

(* What a queue keeps, gets or gives leaves its tasks in line. *)
LEMMA InLinePush ==
  ASSUME queue \in Seq(Nat), submitted \in Nat, NEW first \in Nat, InLine(first),
         submitted' = submitted + 1, queue' = Append(queue, submitted + 1)
  PROVE  InLine(first)'
<1>1. /\ Len(queue) \in Nat /\ DOMAIN queue = 1 .. Len(queue)
      /\ Len(queue') = Len(queue) + 1 /\ DOMAIN queue' = 1 .. (Len(queue) + 1)
      /\ \A i \in 1 .. Len(queue) : queue'[i] = queue[i]
      /\ queue'[Len(queue) + 1] = submitted + 1
  OBVIOUS
<1>2. submitted = first + Len(queue) /\ \A i \in 1 .. Len(queue) : queue[i] = first + i
  BY <1>1 DEF InLine
<1>3. submitted' = first + Len(queue')
  BY <1>1, <1>2
<1>4. ASSUME NEW i \in DOMAIN queue' PROVE queue'[i] = first + i
  <2>1. CASE i \in 1 .. Len(queue)
    BY <1>1, <1>2, <2>1
  <2>2. CASE i = Len(queue) + 1
    BY <1>1, <1>2, <2>2
  <2> QED
    BY <1>1, <2>1, <2>2
<1> QED
  BY <1>3, <1>4 DEF InLine

LEMMA InLinePop ==
  ASSUME queue \in Seq(Nat), queue # <<>>, NEW first \in Nat, InLine(first),
         submitted' = submitted, queue' = Tail(queue)
  PROVE  Head(queue) = first + 1 /\ InLine(first + 1)'
<1>1. /\ Len(queue) \in Nat \ {0} /\ DOMAIN queue = 1 .. Len(queue) /\ Head(queue) = queue[1]
      /\ Len(queue') = Len(queue) - 1 /\ DOMAIN queue' = 1 .. (Len(queue) - 1)
      /\ \A i \in 1 .. (Len(queue) - 1) : queue'[i] = queue[i + 1]
  OBVIOUS
<1>2. submitted = first + Len(queue) /\ \A i \in 1 .. Len(queue) : queue[i] = first + i
  BY <1>1 DEF InLine
<1>3. Head(queue) = first + 1
  BY <1>1, <1>2
<1>4. submitted' = first + 1 + Len(queue')
  BY <1>1, <1>2
<1>5. ASSUME NEW i \in DOMAIN queue' PROVE queue'[i] = first + 1 + i
  <2>1. i \in Nat /\ i + 1 \in 1 .. Len(queue) /\ queue'[i] = queue[i + 1]
    BY <1>1
  <2> QED
    BY <1>2, <2>1
<1> QED
  BY <1>3, <1>4, <1>5 DEF InLine

LEMMA InitOrdered == Init => Ordered
<1> SUFFICES ASSUME Init, NEW p \in Thread
             PROVE  (\A i \in DOMAIN done : done[i] = i) /\ thread[p] # "running" /\ InLine(Len(done))
  BY DEF Ordered
<1>1. thread[p] # "running"
  BY DEF Init, First
<1>2. queue = <<>> /\ done = <<>> /\ submitted = 0
  BY DEF Init
<1> QED
  BY <1>1, <1>2 DEF InLine

(* Steps that leave the tasks where they are. *)
LEMMA OrderedKept ==
  ASSUME TypeOK, Ordered, UNCHANGED <<pool, job, queue, submitted, done>>,
         \A t \in Thread : (thread'[t] = "running") = (thread[t] = "running")
  PROVE  Ordered'
<1> SUFFICES ASSUME NEW p \in Thread, pool' = {p}
             PROVE  /\ \A i \in DOMAIN done' : done'[i] = i
                    /\ thread'[p] = "running" => job'[p] = Len(done') + 1 /\ InLine(Len(done) + 1)'
                    /\ thread'[p] # "running" => InLine(Len(done))'
  BY DEF Ordered
<1>1. InLine(Len(done) + 1)' = InLine(Len(done) + 1) /\ InLine(Len(done))' = InLine(Len(done))
  BY DEF InLine
<1> QED
  BY <1>1 DEF Ordered

LEMMA OrderedPush ==
  ASSUME TypeOK, Ordered, submitted' = submitted + 1, queue' = Append(queue, submitted + 1),
         UNCHANGED <<pool, job, done>>,
         \A t \in Thread : (thread'[t] = "running") = (thread[t] = "running")
  PROVE  Ordered'
<1> SUFFICES ASSUME NEW p \in Thread, pool' = {p}
             PROVE  /\ \A i \in DOMAIN done' : done'[i] = i
                    /\ thread'[p] = "running" => job'[p] = Len(done') + 1 /\ InLine(Len(done) + 1)'
                    /\ thread'[p] # "running" => InLine(Len(done))'
  BY DEF Ordered
<1>1. queue \in Seq(Nat) /\ done \in Seq(Nat) /\ submitted \in Nat
  BY TasksAreNumbers DEF TypeOK
<1>2. Len(done) \in Nat /\ Len(done) + 1 \in Nat
  BY <1>1
<1>3. done' = done
  OBVIOUS
<1>4. ASSUME InLine(Len(done)) PROVE InLine(Len(done))'
  BY <1>1, <1>2, <1>3, <1>4, InLinePush DEF InLine
<1>5. ASSUME InLine(Len(done) + 1) PROVE InLine(Len(done) + 1)'
  BY <1>1, <1>2, <1>3, <1>5, InLinePush DEF InLine
<1> QED
  BY <1>4, <1>5 DEF Ordered

LEMMA OrderedStep ==
  ASSUME TypeOK, Placed, Ends, Ordered, [Next]_vars
  PROVE  Ordered'
<1>0. /\ \A t \in pool : t \in Thread
      /\ queue \in Seq(Nat) /\ done \in Seq(Nat) /\ submitted \in Nat
      /\ Len(done) \in Nat
  BY TasksAreNumbers DEF TypeOK
<1>1. CASE SetDispatcher
  <2>1. \A t \in Thread : thread[t] # "running"
    BY <1>1 DEF SetDispatcher, Dispatching, Ends, Placed
  <2> QED
    BY <1>1, <2>1, OrderedKept DEF SetDispatcher
<1>2. CASE WriteDirectly
  <2>1. \A t \in Thread : thread[t] # "running" /\ (t \in pool => thread[t] = "none")
    BY <1>0, <1>2 DEF WriteDirectly, Dispatching, Placed
  <2> SUFFICES ASSUME NEW p \in Thread, pool' = {p}
               PROVE  /\ \A i \in DOMAIN done' : done'[i] = i
                      /\ InLine(Len(done))'
    BY <1>2, <2>1 DEF Ordered, WriteDirectly
  <2>2. queue = <<>> /\ queue' = <<>>
    BY <1>2, <2>1 DEF WriteDirectly, Ends
  <2>3. submitted = Len(done) /\ \A i \in DOMAIN done : done[i] = i
    <3>1. InLine(Len(done)) /\ \A i \in DOMAIN done : done[i] = i
      BY <1>2, <2>1 DEF Ordered, WriteDirectly
    <3>2. submitted = Len(done) + Len(queue) /\ Len(queue) = 0
      BY <2>2, <3>1 DEF InLine
    <3> QED
      BY <1>0, <3>1, <3>2
  <2>4. done' = Append(done, Len(done) + 1) /\ submitted' = Len(done) + 1
    BY <1>2, <2>3 DEF WriteDirectly
  <2>5. \A i \in DOMAIN done' : done'[i] = i
    BY <1>0, <2>3, <2>4
  <2>6. submitted' = Len(done') + Len(queue')
    BY <1>0, <2>2, <2>4
  <2> QED
    BY <2>2, <2>5, <2>6 DEF InLine
<1>3. CASE Dispatch
  BY <1>3, OrderedPush DEF Dispatch
<1>4. CASE Submit
  <2>1. PICK W \in Notified : thread' = Woken(W)
    BY <1>4 DEF Submit
  <2>2. W \in SUBSET Waiting
    BY <2>1 DEF Notified
  <2> QED
    BY <1>4, <2>1, <2>2, WokenRuns, OrderedPush DEF Submit
<1>5. ASSUME NEW n \in 1 .. MaxTasks, Await(n) PROVE Ordered'
  BY <1>5, OrderedKept DEF Await
<1>6. CASE BeginDestructor
  BY <1>6, OrderedKept DEF BeginDestructor
<1>7. CASE NotifyAll
  BY <1>7, WokenRuns, OrderedKept DEF NotifyAll
<1>8. CASE Answered
  BY <1>8, OrderedKept DEF Answered
<1>9. CASE Broken
  BY <1>9, OrderedKept DEF Broken
<1>10. CASE Polled
  BY <1>10, OrderedKept DEF Polled
<1>11. CASE SetQuit
  BY <1>11, OrderedKept DEF SetQuit
<1>12. CASE WakeAll
  BY <1>12, WokenRuns, OrderedKept DEF WakeAll
<1>13. CASE Join
  BY <1>13, OrderedKept DEF Join
<1>14. ASSUME NEW t \in pool, CheckDone(t) PROVE Ordered'
  <2>1. \A u \in Thread : (thread'[u] = "running") = (thread[u] = "running")
    BY <1>14, GotoRuns DEF CheckDone
  <2> QED
    BY <1>14, <2>1, OrderedKept DEF CheckDone, Goto
<1>15. ASSUME NEW t \in pool, Take(t) PROVE Ordered'
  <2> SUFFICES ASSUME pool = {t}
               PROVE  /\ \A i \in DOMAIN done' : done'[i] = i
                      /\ job'[t] = Len(done') + 1 /\ InLine(Len(done) + 1)'
                      /\ thread'[t] = "running"
    BY <1>0, <1>15 DEF Ordered, Take, Goto
  <2>1. /\ queue # <<>> /\ queue' = Tail(queue) /\ submitted' = submitted /\ done' = done
        /\ job'[t] = Head(queue) /\ thread'[t] = "running" /\ thread[t] = "locking"
    BY <1>0, <1>15 DEF Take, Popped, Goto, TypeOK
  <2>2. InLine(Len(done)) /\ \A i \in DOMAIN done : done[i] = i
    BY <1>0, <2>1 DEF Ordered
  <2>3. Head(queue) = Len(done) + 1 /\ InLine(Len(done) + 1)'
    BY <1>0, <2>1, <2>2, InLinePop DEF InLine
  <2> QED
    BY <2>1, <2>2, <2>3
<1>16. ASSUME NEW t \in pool, Wait(t) PROVE Ordered'
  <2>1. \A u \in Thread : (thread'[u] = "running") = (thread[u] = "running")
    BY <1>16, GotoRuns DEF Wait
  <2> QED
    BY <1>16, <2>1, OrderedKept DEF Wait, Goto
<1>17. ASSUME NEW t \in pool, Leave(t) PROVE Ordered'
  <2>1. \A u \in Thread : (thread'[u] = "running") = (thread[u] = "running")
    BY <1>17, GotoRuns DEF Leave
  <2> QED
    BY <1>17, <2>1, OrderedKept DEF Leave, Goto
<1>18. ASSUME NEW t \in pool, FindInvalid(t) PROVE Ordered'
  <2>1. \A u \in Thread : (thread'[u] = "running") = (thread[u] = "running")
    BY <1>18, GotoRuns DEF FindInvalid
  <2> QED
    BY <1>18, <2>1, OrderedKept DEF FindInvalid, Goto
<1>19. ASSUME NEW t \in pool, CarryOut(t) PROVE Ordered'
  <2> SUFFICES ASSUME pool = {t}
               PROVE  /\ \A i \in DOMAIN done' : done'[i] = i
                      /\ InLine(Len(done))'
                      /\ thread'[t] # "running"
    BY <1>0, <1>19 DEF Ordered, CarryOut, Goto
  <2>1. /\ queue' = queue /\ submitted' = submitted /\ done' = Append(done, job[t])
        /\ thread'[t] # "running" /\ thread[t] = "running"
    BY <1>0, <1>19 DEF CarryOut, First, Goto, TypeOK
  <2>2. InLine(Len(done) + 1) /\ job[t] = Len(done) + 1 /\ \A i \in DOMAIN done : done[i] = i
    BY <1>0, <2>1 DEF Ordered
  <2>3. (\A i \in DOMAIN done' : done'[i] = i) /\ Len(done') = Len(done) + 1
    BY <1>0, <2>1, <2>2
  <2> QED
    BY <2>1, <2>2, <2>3 DEF InLine
<1>20. ASSUME NEW t \in pool, WakeSpuriously(t) PROVE Ordered'
  <2>1. \A u \in Thread : (thread'[u] = "running") = (thread[u] = "running")
    BY <1>20, GotoRuns DEF WakeSpuriously
  <2> QED
    BY <1>20, <2>1, OrderedKept DEF WakeSpuriously, Goto
<1>21. ASSUME NEW t \in pool, TaskThrows(t) PROVE Ordered'
  BY <1>21, OrderedKept DEF TaskThrows
<1>22. CASE UNCHANGED vars
  BY <1>22, OrderedKept DEF vars
<1> QED
  BY <1>1, <1>2, <1>3, <1>4, <1>5, <1>6, <1>7, <1>8, <1>9, <1>10, <1>11, <1>12, <1>13, <1>14,
     <1>15, <1>16, <1>17, <1>18, <1>19, <1>20, <1>21, <1>22 DEF Next, CallEnds, ThreadStep

-----------------------------------------------------------------------------
LEMMA IInvHolds == Spec => []IInv
<1>1. Init => IInv
  BY InitType, InitPlaced, InitEnds DEF IInv
<1>2. IInv /\ [Next]_vars => IInv'
  BY TypeStep, PlacedStep, EndsStep DEF IInv
<1> QED
  BY <1>1, <1>2, PTL DEF Spec

(* The types of the variables (DispatchQueue, threadPool, ADio). *)
THEOREM TypeCorrect == Spec => []TypeOK
<1>1. IInv => TypeOK
  BY DEF IInv
<1> QED
  BY <1>1, IInvHolds, PTL

(* However many threads there are and whatever the order of their steps,    *)
(* no task is carried out twice, and when the destructor of DispatchQueue   *)
(* or ADio has returned all have been (thread_handler, ~DispatchQueue). *)
THEOREM EveryTaskOnce == Spec => []NothingDropped
<1>1. IInv => NothingDropped
  <2> SUFFICES ASSUME IInv PROVE NothingDropped
    OBVIOUS
  <2>1. \A i, j \in DOMAIN done : done[i] = done[j] => i = j
    BY DEF IInv, Placed, Distinct
  <2>2. ASSUME kind # "threadPool", caller = "destroyed" PROVE Range(done) = 1 .. submitted
    <3>1. pool # {} /\ \A t \in pool : t \in Thread
      BY DEF IInv, TypeOK
    <3>2. \A t \in pool : thread[t] # "running"
      BY <2>2 DEF IInv, Ends
    <3>3. queue = <<>>
      BY <2>2, <3>1 DEF IInv, Ends
    <3>4. Queued = {}
      BY <3>3, EmptyRange DEF Queued
    <3> QED
      BY <3>2, <3>4 DEF IInv, Placed, Done
  <2> QED
    BY <2>1, <2>2 DEF NothingDropped
<1> QED
  BY <1>1, IInvHolds, PTL

(* A TaskFuture that finds its promise broken is of a task that was still   *)
(* in the queue when the pool was destroyed (threadPool::destroy). *)
THEOREM PromisesOfTakenTasksKept == Spec => []BrokenOnlyInQueue
<1>1. IInv => BrokenOnlyInQueue
  <2> SUFFICES ASSUME IInv, caller = "terminated", kind = "threadPool"
               PROVE  awaited \in Range(queue) /\ \A t \in pool : thread[t] = "ended"
    BY DEF BrokenOnlyInQueue
  <2>1. \A t \in pool : thread[t] = "ended"
    BY DEF IInv, Ends
  <2>2. awaited \in 1 .. submitted /\ awaited \notin Done
    BY DEF IInv, Ends
  <2> QED
    BY <2>1, <2>2 DEF IInv, Placed, Queued
<1> QED
  BY <1>1, IInvHolds, PTL

(* Both: tasks are carried out once, and only a queue that was destroyed    *)
(* with the task in it leaves one undone.                                   *)
THEOREM TasksAreKept == Spec => []TasksKept
<1>1. NothingDropped /\ BrokenOnlyInQueue => TasksKept
  BY DEF TasksKept
<1> QED
  BY <1>1, EveryTaskOnce, PromisesOfTakenTasksKept, PTL

(* With one thread tasks are carried out in the order in which they were    *)
(* handed over, however many there are (ADio with the thread of its         *)
(* DispatchQueue, and before and after setDispatcher made it).              *)
THEOREM OneThreadKeepsOrder == Spec => []InOrder
<1>1. Init => IInv /\ Ordered
  BY InitType, InitPlaced, InitEnds, InitOrdered DEF IInv
<1>2. IInv /\ Ordered /\ [Next]_vars => (IInv /\ Ordered)'
  BY TypeStep, PlacedStep, EndsStep, OrderedStep DEF IInv
<1>3. IInv /\ Ordered => InOrder
  <2> SUFFICES ASSUME IInv, Ordered, \A t, u \in pool : t = u
               PROVE  \A i \in DOMAIN done : done[i] = i
    BY DEF InOrder
  <2>1. PICK p \in pool : TRUE
    BY DEF IInv, TypeOK
  <2>2. pool = {p} /\ p \in Thread
    BY DEF IInv, TypeOK
  <2> QED
    BY <2>2 DEF Ordered
<1> QED
  BY <1>1, <1>2, <1>3, PTL DEF Spec
=============================================================================
