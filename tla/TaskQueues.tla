------------------------------ MODULE TaskQueues ------------------------------
(***************************************************************************)
(* Tasks that one thread hands to a pool of others through a locked queue:  *)
(* DispatchQueue, by itself or as the writer of ADio, and threadPool with   *)
(* its mtQueue and TaskFutures.                                             *)
(*                                                                          *)
(* A critical section is one step, and what a thread does between two of    *)
(* them are steps of their own: DispatchQueue notifies after it has         *)
(* unlocked, and threadPool sets m_done before it invalidates its queue.    *)
(* Threads that wait are woken only by a notification, or spuriously.       *)
(*                                                                          *)
(* Abstracted: what the tasks do.  For ADio a task is a file that is        *)
(* written; the files of one name are written in the order of the tasks.    *)
(* A task may throw, but none of a threadPool does, whose TaskFuture would  *)
(* hand the exception on.  No pool is without threads: ADio asks for one,   *)
(* and threadPool for as many as the machine has, less one, or for one.     *)
(***************************************************************************)
EXTENDS Naturals, Sequences, Functions

CONSTANTS
  Thread,  \* the threads there can be in a pool
  MaxTasks \* bound: tasks handed over

ASSUME TaskQueuesAssumption == Thread # {} /\ MaxTasks \in Nat

Kind == {"ADio", "DispatchQueue", "threadPool"}

VARIABLES
  kind,     \* which of the three it is
  pool,     \* m_threads
  thread,   \* what each of them is doing
  job,      \* job[t]: the task that t has taken
  queue,    \* m_q, m_queue: the tasks not taken yet
  quit,     \* m_quit, m_done
  valid,    \* m_valid of mtQueue
  caller,   \* what the thread that hands over tasks is doing
  submitted,\* number of tasks handed over; they are numbered in this order
  futures,  \* the tasks whose TaskFuture still exists
  awaited,  \* the task whose TaskFuture the caller waits for
  done      \* history: the tasks carried out, in the order in which they ended

vars == <<kind, pool, thread, job, queue, quit, valid, caller, submitted, futures, awaited, done>>

Waiting == {t \in pool : thread[t] = "waiting"}
Woken(W) == [t \in Thread |-> IF t \in W THEN "locking" ELSE thread[t]]

(* ADio has no DispatchQueue until setDispatcher makes one. *)
Dispatching == \E t \in pool : thread[t] # "none"

(* A task has its place: this is what a thread of the pool does first. *)
First == IF kind = "threadPool" THEN "checking" ELSE "locking"

Init ==
  /\ kind \in Kind
  /\ pool \in (SUBSET Thread) \ {{}}
  /\ thread = [t \in Thread |-> IF kind = "ADio" THEN "none" ELSE First]
  /\ job = [t \in Thread |-> 0]
  /\ queue = <<>>
  /\ quit = FALSE
  /\ valid = TRUE
  /\ caller = "idle"
  /\ submitted = 0
  /\ futures = {}
  /\ awaited = 0
  /\ done = <<>>

-----------------------------------------------------------------------------
(* Handing over tasks.                                                      *)

SetDispatcher ==
  /\ kind = "ADio" /\ caller = "idle"
  /\ ~Dispatching
  /\ thread' = [t \in Thread |-> "locking"]
  /\ UNCHANGED <<kind, pool, job, queue, quit, valid, caller, submitted, futures, awaited, done>>

(* writeJSON without a dispatcher. *)
WriteDirectly ==
  /\ kind = "ADio" /\ caller = "idle"
  /\ ~Dispatching
  /\ submitted < MaxTasks
  /\ submitted' = submitted + 1
  /\ done' = Append(done, submitted + 1)
  /\ UNCHANGED <<kind, pool, thread, job, queue, quit, valid, caller, futures, awaited>>

(* dispatch, of writeJSON too: the notification comes after the unlocking. *)
Dispatch ==
  /\ kind # "threadPool" /\ caller = "idle"
  /\ Dispatching
  /\ submitted < MaxTasks
  /\ submitted' = submitted + 1
  /\ queue' = Append(queue, submitted + 1)
  /\ caller' = "notifying"
  /\ UNCHANGED <<kind, pool, thread, job, quit, valid, futures, awaited, done>>

NotifyAll ==
  /\ caller = "notifying"
  /\ thread' = Woken(Waiting)
  /\ caller' = "idle"
  /\ UNCHANGED <<kind, pool, job, queue, quit, valid, submitted, futures, awaited, done>>

(* Mutant: no thread is notified. *)
Notified_None == {{}}

(* The threads that notify_one may wake. *)
Notified == IF Waiting = {} THEN {{}} ELSE {{t} : t \in Waiting}

(* sumit *)
Submit ==
  /\ kind = "threadPool" /\ caller = "idle"
  /\ submitted < MaxTasks
  /\ submitted' = submitted + 1
  /\ queue' = Append(queue, submitted + 1)
  /\ \E W \in Notified : thread' = Woken(W)
  /\ futures' = futures \cup {submitted + 1}
  /\ UNCHANGED <<kind, pool, job, quit, valid, caller, awaited, done>>

(* get, or the destructor, of a TaskFuture. *)
Await(n) ==
  /\ caller \in {"idle", "destroyed"}
  /\ n \in futures
  /\ awaited' = n
  /\ caller' = "awaiting"
  /\ UNCHANGED <<kind, pool, thread, job, queue, quit, valid, submitted, futures, done>>

Answered ==
  /\ caller = "awaiting"
  /\ awaited \in Range(done)
  /\ futures' = futures \ {awaited}
  /\ awaited' = 0
  /\ caller' = IF quit THEN "destroyed" ELSE "idle"
  /\ UNCHANGED <<kind, pool, thread, job, queue, quit, valid, submitted, done>>

(* The promise went with the queue of the pool: the exception leaves the    *)
(* destructor of the TaskFuture, which ends the process, or its get, which  *)
(* the caller survives; there is no future any more then. *)
Broken ==
  /\ caller = "awaiting"
  /\ quit /\ awaited \notin Range(done)
  /\ \/ caller' = "terminated" /\ UNCHANGED <<futures, awaited>>
     \/ caller' = "destroyed" /\ futures' = futures \ {awaited} /\ awaited' = 0
  /\ UNCHANGED <<kind, pool, thread, job, queue, quit, valid, submitted, done>>

-----------------------------------------------------------------------------
(* The destructors.                                                         *)

BeginDestructor ==
  /\ caller = "idle"
  /\ caller' = IF kind # "ADio" THEN "quitting"
               ELSE IF Dispatching THEN "polling" ELSE "destroyed"
  /\ UNCHANGED <<kind, pool, thread, job, queue, quit, valid, submitted, futures, awaited, done>>

(* ~ADio looks once a second whether the queue is empty. *)
Polled ==
  /\ caller = "polling"
  /\ queue = <<>>
  /\ caller' = "quitting"
  /\ UNCHANGED <<kind, pool, thread, job, queue, quit, valid, submitted, futures, awaited, done>>

SetQuit ==
  /\ caller = "quitting"
  /\ quit' = TRUE
  /\ caller' = "waking"
  /\ UNCHANGED <<kind, pool, thread, job, queue, valid, submitted, futures, awaited, done>>

(* notify_all, or invalidate. *)
WakeAll ==
  /\ caller = "waking"
  /\ valid' = (kind # "threadPool")
  /\ thread' = Woken(Waiting)
  /\ caller' = "joining"
  /\ UNCHANGED <<kind, pool, job, queue, quit, submitted, futures, awaited, done>>

(* Mutant: only the first thread to end is joined. *)

Joined == \A t \in pool : thread[t] = "ended"

Join ==
  /\ caller = "joining"
  /\ Joined
  /\ caller' = "destroyed"
  /\ UNCHANGED <<kind, pool, thread, job, queue, quit, valid, submitted, futures, awaited, done>>

-----------------------------------------------------------------------------
(* The threads of the pool: thread_handler, and worker with waitPop.        *)

Goto(t, place) ==
  /\ thread' = [thread EXCEPT ![t] = place]
  /\ UNCHANGED <<kind, pool, quit, valid, caller, submitted, futures, awaited>>

(* while(!m_done) *)
CheckDone(t) ==
  /\ thread[t] = "checking"
  /\ Goto(t, IF quit THEN "ended" ELSE "locking")
  /\ UNCHANGED <<job, queue, done>>

(* Mutant: the newest task is taken. *)
Popped_Newest == <<queue[Len(queue)], SubSeq(queue, 1, Len(queue) - 1)>>

(* The task that is taken, and the queue without it. *)
Popped == <<Head(queue), Tail(queue)>>

(* Under the lock, when there is a task. *)
Take(t) ==
  /\ thread[t] = "locking"
  /\ valid /\ queue # <<>>
  /\ job' = [job EXCEPT ![t] = Popped[1]]
  /\ queue' = Popped[2]
  /\ Goto(t, "running")
  /\ UNCHANGED done

(* Under the lock, when there is none. *)
Wait(t) ==
  /\ thread[t] = "locking"
  /\ valid /\ queue = <<>>
  /\ kind = "threadPool" \/ ~quit
  /\ Goto(t, "waiting")
  /\ UNCHANGED <<job, queue, done>>

WakeSpuriously(t) ==
  /\ thread[t] = "waiting" /\ caller # "terminated"
  /\ Goto(t, "locking")
  /\ UNCHANGED <<job, queue, done>>

(* Mutant: a thread that finds m_quit set leaves its tasks. *)
MayLeave_AtOnce == quit

(* A thread of DispatchQueue may leave when it must, and nothing is left. *)
MayLeave == quit /\ queue = <<>>

Leave(t) ==
  /\ kind # "threadPool"
  /\ thread[t] = "locking"
  /\ MayLeave
  /\ Goto(t, "ended")
  /\ UNCHANGED <<job, queue, done>>

(* waitPop of a queue that has been invalidated. *)
FindInvalid(t) ==
  /\ thread[t] = "locking"
  /\ ~valid
  /\ Goto(t, "checking")
  /\ UNCHANGED <<job, queue, done>>

CarryOut(t) ==
  /\ thread[t] = "running"
  /\ done' = Append(done, job[t])
  /\ job' = [job EXCEPT ![t] = 0]
  /\ Goto(t, First)
  /\ UNCHANGED queue

(* Nothing catches what a task throws in a thread of DispatchQueue.         *)
TaskThrows(t) ==
  /\ kind # "threadPool"
  /\ thread[t] = "running"
  /\ caller' = "terminated"
  /\ UNCHANGED <<kind, pool, thread, job, queue, quit, valid, submitted, futures, awaited, done>>

-----------------------------------------------------------------------------
ThreadStep(t) ==
  /\ caller # "terminated"
  /\ \/ CheckDone(t) \/ Take(t) \/ Wait(t) \/ Leave(t) \/ FindInvalid(t)
     \/ CarryOut(t) \/ TaskThrows(t)

CallEnds == NotifyAll \/ Answered \/ Broken \/ Polled \/ SetQuit \/ WakeAll \/ Join

Next ==
  \/ SetDispatcher \/ WriteDirectly \/ Dispatch \/ Submit
  \/ \E n \in 1 .. MaxTasks : Await(n)
  \/ BeginDestructor
  \/ CallEnds
  \/ \E t \in pool : ThreadStep(t) \/ WakeSpuriously(t)

Spec == Init /\ [][Next]_vars

(* The scheduler runs every thread that can go on. *)
FairSpec == Spec /\ WF_vars(CallEnds) /\ \A t \in Thread : WF_vars(t \in pool /\ ThreadStep(t))

-----------------------------------------------------------------------------
(* Properties.                                                              *)

TypeOK ==
  /\ kind \in Kind
  /\ pool \in (SUBSET Thread) \ {{}}
  /\ thread \in [Thread -> {"none", "checking", "locking", "waiting", "running", "ended"}]
  /\ job \in [Thread -> 0 .. MaxTasks]
  /\ queue \in Seq(1 .. MaxTasks)
  /\ quit \in BOOLEAN /\ valid \in BOOLEAN
  /\ caller \in {"idle", "notifying", "awaiting", "polling", "quitting", "waking", "joining",
                 "destroyed", "terminated"}
  /\ submitted \in 0 .. MaxTasks
  /\ futures \subseteq 1 .. MaxTasks
  /\ awaited \in 0 .. MaxTasks
  /\ done \in Seq(1 .. MaxTasks)

(* The destructor of DispatchQueue, and of ADio, returns only when every    *)
(* task handed over has been carried out, and no task is carried out twice, *)
(* whatever the threads do meanwhile (thread_handler, ~DispatchQueue).      *)
NothingDropped ==
  /\ \A i, j \in DOMAIN done : done[i] = done[j] => i = j
  /\ kind # "threadPool" /\ caller = "destroyed" => Range(done) = 1 .. submitted

(* With one thread, ADio's default, files are written in the order of the   *)
(* calls, so that of two of the same name the later remains.                *)
InOrder ==
  (\A t, u \in pool : t = u) => \A i \in DOMAIN done : done[i] = i

(* A call returns: no notification is lost, between the unlocking and the   *)
(* notification of dispatch or between m_done and invalidate either.  A     *)
(* future that is destroyed after its pool, or a task that throws in a      *)
(* thread of DispatchQueue, ends the process instead.                       *)
CallsReturn == caller \notin {"idle", "destroyed", "terminated"} ~>
               caller \in {"idle", "destroyed", "terminated"}

(* The promise of a pool is broken only by its destruction: a task that was *)
(* taken before it is still carried out (threadPool::worker, destroy).      *)
BrokenOnlyInQueue ==
  caller = "terminated" /\ kind = "threadPool" =>
    awaited \in Range(queue) /\ \A t \in pool : thread[t] = "ended"

(* What was taken or accepted for good is carried out once. *)
TasksKept == NothingDropped /\ BrokenOnlyInQueue
=============================================================================
