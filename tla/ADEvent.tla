------------------------------- MODULE ADEvent -------------------------------
(***************************************************************************)
(* The event manager of an AD rank (ADEvent): it turns the ENTRY and EXIT   *)
(* events of every thread into a call list with a call stack per thread,    *)
(* partners a CPU call that launches a GPU kernel with the kernel's own     *)
(* call through the correlation ID both carry, and garbage-collects the     *)
(* call list at the end of every IO step.                                   *)
(*                                                                          *)
(* Everything the class hands out is an iterator into the call list, and    *)
(* the collector frees list nodes, so a reference count on each call (the   *)
(* "GC protection") must keep alive whatever is still pointed to.  That is  *)
(* what this module is about.  Call identifiers grow with the order of      *)
(* ENTRY, so the list of a thread is the set of its live calls in           *)
(* increasing order.                                                        *)
(*                                                                          *)
(* Abstracted: the function identifiers (an EXIT that names another         *)
(* function, or comes before its ENTRY, changes nothing), the time stamps   *)
(* and the counter stack that decide which counters a call gets (a call     *)
(* gets any set of correlation IDs it could carry), comm events, and the    *)
(* contents of the purge report.                                            *)
(***************************************************************************)
EXTENDS Naturals, FiniteSets, Sequences

CONSTANTS
  Thread,      \* threads, CPU and GPU ones
  GPUThread,   \* the threads that are keys of m_gpu_thread_Map
  CorrID,      \* correlation IDs
  NoCall,      \* no iterator
  MaxCalls,    \* bound: calls entered in a behaviour
  MaxCids,     \* bound: correlation IDs carried by one call
  WindowSize,  \* n_keep_thread, the driver's anom_win_size
  LaunchFirst, \* do kernels complete only after their launch has completed?
  FreedIntact, \* do freed list nodes still hold the label they had?
  TestAPI      \* are trimCallList, clear and addCall, unused by the driver, called?

Call == 1 .. MaxCalls

ASSUME ADEventAssumption ==
  /\ Thread # {}
  /\ GPUThread \subseteq Thread
  /\ IsFiniteSet(CorrID)  \* integers of the tracer
  /\ MaxCalls \in Nat
  /\ MaxCids \in Nat
  /\ WindowSize \in Nat
  /\ NoCall \notin Call
  /\ LaunchFirst \in BOOLEAN
  /\ FreedIntact \in BOOLEAN
  /\ TestAPI \in BOOLEAN

VARIABLES
  nCalls,     \* calls entered so far
  live,       \* keys of m_callIDMap, the nodes of m_callList
  thread,     \* thread[c]
  above,      \* above[c]: the line of parents of c, up to the root
  done,       \* done[c]: the EXIT was seen, get_exit() != 0
  labelled,   \* labelled[c]: get_label() != 0
  refs,       \* refs[c]: m_references
  carried,    \* carried[c]: correlation IDs among the counters of c
  partners,   \* partners[c]: m_gpu_correlation_id_partner
  stack,      \* stack[t]: m_callStack, the top last
  execData,   \* the iterators of m_execDataMap
  unmatched,  \* unmatched[k]: m_unmatchedCorrelationID
  locked,     \* m_stackLockedUnlabeled
  op,         \* what the (single) thread of the driver is doing
  current,    \* op = "match": the call whose correlation IDs are examined
  pending,    \* op = "match": its correlation IDs still to be examined
  toPurge,    \* op = "purge": threads not yet reached by the purge
  toVisit     \* op = "purge": calls of the current thread not yet visited

callVars  == <<nCalls, thread, above, done, carried>>
matchVars == <<current, pending>>
purgeVars == <<toPurge, toVisit>>
vars == <<nCalls, live, thread, above, done, labelled, refs, carried, partners,
          stack, execData, unmatched, locked, op, current, pending, toPurge, toVisit>>

-----------------------------------------------------------------------------
(* The call list and the lines of parents.                                  *)

CallsOf(t) == {c \in live : thread[c] = t}
Open(t) == {c \in CallsOf(t) : ~done[c]}

(* Mutant: keeps one call too few. *)
OutsideWindow_OffByOne(t) ==
  {c \in CallsOf(t) : Cardinality({d \in CallsOf(t) : d > c}) + 1 >= WindowSize}

(* The calls of t but for the WindowSize most recent ones. *)
OutsideWindow(t) ==
  {c \in CallsOf(t) : Cardinality({d \in CallsOf(t) : d > c}) >= WindowSize}

(* Mutant: the parents are not walked. *)
ParentsReached_None(c) == {}

(* The parents that a walk from c reaches: it goes from parent to parent    *)
(* through m_callIDMap and gives up at the first one that is not there.     *)
ParentsReached(c) ==
  {a \in above[c] : \A b \in above[c] : b >= a => b \in live}

(* The calls whose count stackProtectGC(c) and stackUnProtectGC(c) change:  *)
(* c, its parents and, for a call of a GPU thread with exactly one partner, *)
(* the partner with its own parents.  The two lines are on different        *)
(* threads, so no call is reached twice.                                    *)
Cover(c, pt) ==
  {c} \cup ParentsReached(c)
      \cup IF thread[c] \in GPUThread /\ Len(pt[c]) = 1 /\ pt[c][1] \in live
           THEN {pt[c][1]} \cup ParentsReached(pt[c][1])
           ELSE {}

Protected(rf, S) == [c \in Call |-> IF c \in S THEN rf[c] + 1 ELSE rf[c]]

(* Mutants: the count is not lowered, or lowered twice. *)
Unprotected_Forgotten(rf, S) == rf

Unprotected(rf, S) == [c \in Call |-> IF c \in S THEN rf[c] - 1 ELSE rf[c]]

(* deregister_reference raises a fatal error on a count of 0. *)
CanUnprotect(S) == \A c \in S : refs[c] > 0

(* Mutants: half of the condition of can_delete. *)
CanDelete_LabelOnly(c) == labelled[c]
CanDelete_RefsOnly(c) == refs[c] = 0

CanDelete(c) == refs[c] = 0 /\ labelled[c]

Unlabelled == {c \in execData : ~labelled[c]}

-----------------------------------------------------------------------------
Init ==
  /\ nCalls = 0
  /\ live = {}
  /\ thread = [c \in Call |-> CHOOSE t \in Thread : TRUE]
  /\ above = [c \in Call |-> {}]
  /\ done = [c \in Call |-> FALSE]
  /\ labelled = [c \in Call |-> FALSE]
  /\ refs = [c \in Call |-> 0]
  /\ carried = [c \in Call |-> {}]
  /\ partners = [c \in Call |-> <<>>]
  /\ stack = [t \in Thread |-> <<>>]
  /\ execData = {}
  /\ unmatched = [k \in CorrID |-> NoCall]
  /\ locked = {}
  /\ op = "idle"
  /\ current = NoCall
  /\ pending = {}
  /\ toPurge = {}
  /\ toVisit = {}

-----------------------------------------------------------------------------
Top(s) == s[Len(s)]

(* Mutant: the call stays on the stack. *)
Pop_Forgotten(s) == s

Pop(s) == SubSeq(s, 1, Len(s) - 1)

(* addFunc: ENTRY and EXIT.                                                 *)

Enter(t) ==
  /\ op = "idle"
  /\ nCalls < MaxCalls
  /\ LET c == nCalls + 1 IN
       /\ nCalls' = c
       /\ live' = live \cup {c}
       /\ thread' = [thread EXCEPT ![c] = t]
       /\ above' = [above EXCEPT ![c] =
                      IF stack[t] = <<>> THEN {}
                      ELSE {Top(stack[t])} \cup above[Top(stack[t])]]
       /\ stack' = [stack EXCEPT ![t] = Append(@, c)]
  /\ UNCHANGED <<done, labelled, refs, carried, partners, execData, unmatched,
                 locked, op, matchVars, purgeVars>>

(* The tracer gives each correlation ID to one launch on a CPU thread and   *)
(* to one kernel on a GPU thread.  LaunchFirst: the launch's EXIT has been  *)
(* handed over before the kernel's.                                         *)
MayCarry(t, k) ==
  LET Carriers == {c \in 1 .. nCalls : k \in carried[c]} IN
  /\ \A c \in Carriers : (thread[c] \in GPUThread) # (t \in GPUThread)
  /\ LaunchFirst /\ t \in GPUThread => Carriers # {}

(* EXIT of the call at the top of the stack of t, which gets the counters   *)
(* of its time window; then checkAndMatchCorrelationID goes through them.   *)
Exit(t, K) ==
  /\ op = "idle"
  /\ stack[t] # <<>>
  /\ \A k \in K : MayCarry(t, k)
  /\ Cardinality(K) <= MaxCids
  /\ LET c == Top(stack[t]) IN
       /\ done' = [done EXCEPT ![c] = TRUE]
       /\ carried' = [carried EXCEPT ![c] = K]
       /\ stack' = [stack EXCEPT ![t] = Pop(@)]
       /\ execData' = execData \cup {c}
       /\ current' = c
       /\ pending' = K
  /\ op' = "match"
  /\ UNCHANGED <<nCalls, live, thread, above, labelled, refs, partners,
                 unmatched, locked, purgeVars>>

-----------------------------------------------------------------------------
(* checkAndMatchCorrelationID, one correlation ID at a time.                *)

(* The first of the two events with this ID: protect its line and wait.     *)
KeepUnmatched(k) ==
  /\ op = "match" /\ k \in pending
  /\ unmatched[k] = NoCall
  /\ refs' = Protected(refs, Cover(current, partners))
  /\ unmatched' = [unmatched EXCEPT ![k] = current]
  /\ pending' = pending \ {k}
  /\ UNCHANGED <<callVars, live, labelled, partners, stack, execData, locked,
                 op, current, purgeVars>>

AddPartner(pt, c, d) == [pt EXCEPT ![c] = Append(@, d)]

(* Mutant: only the second call learns of its partner. *)
Partnered_OneSided(k) == AddPartner(partners, current, unmatched[k])

(* The second one: partner the two, release the line of the first. *)
Partnered(k) ==
  AddPartner(AddPartner(partners, current, unmatched[k]), unmatched[k], current)

MatchPartner(k) ==
  /\ op = "match" /\ k \in pending
  /\ unmatched[k] \in live
  /\ CanUnprotect(Cover(unmatched[k], Partnered(k)))
  /\ partners' = Partnered(k)
  /\ refs' = Unprotected(refs, Cover(unmatched[k], Partnered(k)))
  /\ unmatched' = [unmatched EXCEPT ![k] = NoCall]
  /\ pending' = pending \ {k}
  /\ UNCHANGED <<callVars, live, labelled, stack, execData, locked, op,
                 current, purgeVars>>

(* The partner has been freed, or a count is already 0: fatal_error. *)
MatchFails(k) ==
  /\ op = "match" /\ k \in pending
  /\ unmatched[k] # NoCall
  /\ \/ unmatched[k] \notin live
     \/ ~CanUnprotect(Cover(unmatched[k], Partnered(k)))
  /\ op' = "terminated"
  /\ UNCHANGED <<callVars, live, labelled, refs, partners, stack, execData,
                 unmatched, locked, matchVars, purgeVars>>

MatchDone ==
  /\ op = "match" /\ pending = {}
  /\ op' = "idle"
  /\ current' = NoCall
  /\ UNCHANGED <<callVars, live, labelled, refs, partners, stack, execData,
                 unmatched, locked, pending, purgeVars>>

-----------------------------------------------------------------------------
(* The end of an IO step: the outlier detection labels, through             *)
(* m_execDataMap, the calls whose model is ready; the anomalies' provenance *)
(* is collected; the call list is purged.                                   *)

Analyze(S) ==
  /\ op = "idle"
  /\ labelled' = [c \in Call |-> labelled[c] \/ c \in S]
  /\ op' = "analyzed"
  /\ UNCHANGED <<callVars, live, refs, partners, stack, execData, unmatched,
                 locked, matchVars, purgeVars>>

PurgeBegin ==
  /\ op = "analyzed"
  /\ op' = "purge"
  /\ toPurge' = Thread
  /\ UNCHANGED <<callVars, live, labelled, refs, partners, stack, execData,
                 unmatched, locked, matchVars, toVisit>>

(* The threads come in the order of an unordered_map, the calls of a thread *)
(* in the order of their ENTRY.                                             *)
PurgeThread(t) ==
  /\ op = "purge" /\ toVisit = {} /\ t \in toPurge
  /\ toPurge' = toPurge \ {t}
  /\ toVisit' = OutsideWindow(t)
  /\ UNCHANGED <<callVars, live, labelled, refs, partners, stack, execData,
                 unmatched, locked, op, matchVars>>

(* A call whose line was locked because it had no label now has one. *)
MustUnlock(c) == labelled[c] /\ c \in locked

Visiting(c) == op = "purge" /\ c \in toVisit /\ \A d \in toVisit : c <= d

PurgeUnlock(c) ==
  /\ Visiting(c) /\ MustUnlock(c)
  /\ CanUnprotect(Cover(c, partners))
  /\ refs' = Unprotected(refs, Cover(c, partners))
  /\ locked' = locked \ {c}
  /\ UNCHANGED <<callVars, live, labelled, partners, stack, execData,
                 unmatched, op, matchVars, purgeVars>>

PurgeFails(c) ==
  /\ Visiting(c) /\ MustUnlock(c)
  /\ ~CanUnprotect(Cover(c, partners))
  /\ op' = "terminated"
  /\ UNCHANGED <<callVars, live, labelled, refs, partners, stack, execData,
                 unmatched, locked, matchVars, purgeVars>>

PurgeErase(c) ==
  /\ Visiting(c) /\ ~MustUnlock(c)
  /\ CanDelete(c) /\ done[c]
  /\ live' = live \ {c}
  /\ toVisit' = toVisit \ {c}
  /\ UNCHANGED <<callVars, labelled, refs, partners, stack, execData,
                 unmatched, locked, op, matchVars, toPurge>>

PurgeLock(c) ==
  /\ Visiting(c)
  /\ done[c] /\ ~labelled[c] /\ c \notin locked
  /\ refs' = Protected(refs, Cover(c, partners))
  /\ locked' = locked \cup {c}
  /\ toVisit' = toVisit \ {c}
  /\ UNCHANGED <<callVars, live, labelled, partners, stack, execData,
                 unmatched, op, matchVars, toPurge>>

(* Incomplete, protected by something else, or locked before. *)
PurgeKeep(c) ==
  /\ Visiting(c) /\ ~MustUnlock(c)
  /\ ~(CanDelete(c) /\ done[c])
  /\ ~(done[c] /\ ~labelled[c] /\ c \notin locked)
  /\ toVisit' = toVisit \ {c}
  /\ UNCHANGED <<callVars, live, labelled, refs, partners, stack, execData,
                 unmatched, locked, op, matchVars, toPurge>>

(* Mutant: clears everything, as before calls could stay without a label. *)
ClearUnlabeled_All(freed) == execData' = {}

(* clearUnlabeled, which keeps the unlabelled ones, also reads the label of *)
(* the nodes the loop before it has freed.  What it reads there is the old  *)
(* label while the memory has not been reused, and anything afterwards.     *)
ClearUnlabeled(freed) ==
  \E misread \in SUBSET IF FreedIntact THEN {} ELSE execData \cap freed :
    execData' = (Unlabelled \ freed) \cup misread

PurgeEnd ==
  /\ op = "purge" /\ toPurge = {} /\ toVisit = {}
  /\ ClearUnlabeled(Call \ live)
  /\ op' = "idle"
  /\ UNCHANGED <<callVars, live, labelled, refs, partners, stack, unmatched,
                 locked, matchVars, purgeVars>>

-----------------------------------------------------------------------------
(* Operations of the class that the driver does not use.                    *)

TrimCallList ==
  /\ TestAPI /\ op = "analyzed"
  /\ live' = live \ {c \in UNION {OutsideWindow(t) : t \in Thread} : CanDelete(c) /\ done[c]}
  /\ ClearUnlabeled(Call \ live')
  /\ op' = "idle"
  /\ UNCHANGED <<callVars, labelled, refs, partners, stack, unmatched, locked,
                 matchVars, purgeVars>>

Clear ==
  /\ TestAPI /\ op = "idle"
  /\ live' = {}
  /\ stack' = [t \in Thread |-> <<>>]
  /\ execData' = {}
  /\ unmatched' = [k \in CorrID |-> NoCall]
  /\ UNCHANGED <<callVars, labelled, refs, partners, locked, op, matchVars,
                 purgeVars>>

(* A complete call without a parent. *)
AddCall(t, K) ==
  /\ TestAPI /\ op = "idle"
  /\ nCalls < MaxCalls
  /\ \A k \in K : MayCarry(t, k)
  /\ Cardinality(K) <= MaxCids
  /\ LET c == nCalls + 1 IN
       /\ nCalls' = c
       /\ live' = live \cup {c}
       /\ thread' = [thread EXCEPT ![c] = t]
       /\ done' = [done EXCEPT ![c] = TRUE]
       /\ carried' = [carried EXCEPT ![c] = K]
       /\ execData' = execData \cup {c}
       /\ current' = c
       /\ pending' = K
  /\ op' = "match"
  /\ UNCHANGED <<above, labelled, refs, partners, stack, unmatched, locked,
                 purgeVars>>

-----------------------------------------------------------------------------
Purge ==
  \/ PurgeBegin
  \/ \E t \in Thread : PurgeThread(t)
  \/ \E c \in Call : PurgeUnlock(c)
  \/ \E c \in Call : PurgeFails(c)
  \/ \E c \in Call : PurgeErase(c)
  \/ \E c \in Call : PurgeLock(c)
  \/ \E c \in Call : PurgeKeep(c)
  \/ PurgeEnd

Match ==
  \/ \E k \in CorrID : KeepUnmatched(k)
  \/ \E k \in CorrID : MatchPartner(k)
  \/ \E k \in CorrID : MatchFails(k)
  \/ MatchDone

Next ==
  \/ \E t \in Thread : Enter(t)
  \/ \E t \in Thread : \E K \in SUBSET CorrID : Exit(t, K)
  \/ Match
  \/ \E S \in SUBSET Unlabelled : Analyze(S)
  \/ Purge
  \/ TrimCallList
  \/ Clear
  \/ \E t \in Thread : \E K \in SUBSET CorrID : AddCall(t, K)

Spec == Init /\ [][Next]_vars

(* The driver ends every IO step with the analysis and the purge (runFrame, *)
(* performEndStepAction), and handles the events it has been given.         *)
FairSpec ==
  /\ Spec
  /\ WF_vars(Match)
  /\ WF_vars(\E S \in SUBSET Unlabelled : Analyze(S))
  /\ WF_vars(Purge)

-----------------------------------------------------------------------------
(* The type of every variable. *)
TypeOK ==
  /\ nCalls \in 0 .. MaxCalls
  /\ live \subseteq Call
  /\ thread \in [Call -> Thread]
  /\ above \in [Call -> SUBSET Call]
  /\ done \in [Call -> BOOLEAN]
  /\ labelled \in [Call -> BOOLEAN]
  /\ refs \in [Call -> Nat]
  /\ carried \in [Call -> SUBSET CorrID]
  /\ partners \in [Call -> Seq(Call)]
  /\ stack \in [Thread -> Seq(Call)]
  /\ execData \subseteq Call
  /\ unmatched \in [CorrID -> Call \cup {NoCall}]
  /\ locked \subseteq Call
  /\ op \in {"idle", "match", "analyzed", "purge", "terminated"}
  /\ current \in Call \cup {NoCall}
  /\ pending \subseteq CorrID
  /\ toPurge \subseteq Thread
  /\ toVisit \subseteq Call

(* The protections in force: one for each correlation ID that waits for its *)
(* second event, one for each call locked for lack of a label.              *)
Waiting(c) == {k \in CorrID : unmatched[k] # NoCall /\ c \in Cover(unmatched[k], partners)}

Locking(c) == {d \in locked \cap live : c \in Cover(d, partners)}

(* Every reference count is the number of protections that cover the call:  *)
(* no protection is released twice, taken over a line of parents other than *)
(* the one it is released over, or leaked (stackProtectGC against           *)
(* stackUnProtectGC, whose lines of parents are computed at two moments).   *)
RefCountExact ==
  \A c \in live : refs[c] = Cardinality(Waiting(c)) + Cardinality(Locking(c))

(* No structure of the class keeps an iterator to a freed list node: the    *)
(* call stacks, m_execDataMap and m_unmatchedCorrelationID are dereferenced *)
(* without a look at m_callIDMap.  (While purgeCallList runs, m_execDataMap *)
(* does hold freed nodes: see LabelledCleared.)                             *)
NothingDangling ==
  /\ \A t \in Thread : \A i \in 1 .. Len(stack[t]) : stack[t][i] \in live
  /\ op \notin {"purge", "terminated"} => execData \subseteq live
  /\ \A k \in CorrID : unmatched[k] # NoCall => unmatched[k] \in live

(* "Ensure the event and it's parental line can't be deleted"               *)
(* (checkAndMatchCorrelationID): whoever waits for its partner is still     *)
(* there, with its whole line of parents.                                   *)
UnmatchedLineAlive ==
  \A k \in CorrID : unmatched[k] # NoCall =>
     {unmatched[k]} \cup above[unmatched[k]] \subseteq live

(* The reference counts are exact, and what they protect is there.          *)
GarbageCollectorSafe == RefCountExact /\ NothingDangling /\ UnmatchedLineAlive

(* The stack of a thread holds its open calls, outermost first, and the     *)
(* line of parents of each is the open calls entered before it: a call is   *)
(* never closed, freed or parented out of turn (addFunc, purgeCallList).    *)
StackIsOpenLine ==
  \A t \in Thread :
    /\ {stack[t][i] : i \in 1 .. Len(stack[t])} = Open(t)
    /\ \A i, j \in 1 .. Len(stack[t]) : i < j => stack[t][i] < stack[t][j]
    /\ \A c \in Open(t) : above[c] = {d \in Open(t) : d < c}

(* A completed call that has no label yet is handed to the outlier          *)
(* detection again: neither purge nor trim loses it from m_execDataMap.     *)
UnlabelledAnalyzedAgain ==
  \A c \in live : done[c] /\ ~labelled[c] => c \in execData

(* Two calls are each other's partners exactly when they carried the same   *)
(* correlation ID, and an ID waits exactly when one call carried it         *)
(* (checkAndMatchCorrelationID, whatever the purges in between).            *)
PartnersMatch ==
  op \notin {"match", "terminated"} =>
    /\ \A a, b \in live : a # b =>
         ((carried[a] \cap carried[b] # {}) <=> \E i \in DOMAIN partners[a] : partners[a][i] = b)
    /\ \A k \in CorrID :
         LET Carriers == {c \in Call : k \in carried[c]} IN
         IF Cardinality(Carriers) = 1 THEN unmatched[k] \in Carriers ELSE unmatched[k] = NoCall

(* The process is not brought down by the event manager. *)
NeverTerminates == op # "terminated"

(* "labeled events are cleared every IO step by calls to purgeCallList"     *)
(* (ADEvent.hpp on m_execDataMap).                                          *)
LabelledCleared ==
  op = "idle" => \A c \in execData : ~labelled[c]

(* "Lock the stack to ensure that events referred to don't get erased"      *)
(* (purgeCallList): between IO steps, a call that has no label has its      *)
(* whole line of parents in the call list.                                  *)
UnlabelledLineAlive ==
  op = "idle" => \A c \in live : done[c] /\ ~labelled[c] => above[c] \subseteq live

(* A list node is freed only when its call is complete and labelled and     *)
(* nothing that is still waiting or locked needs it (purge and trim).       *)
FreedOnlyWhenUnneeded ==
  [][\A c \in live \ live' :
       \/ /\ done[c] /\ labelled[c]
          /\ Waiting(c) = {} /\ Locking(c) \subseteq {c}
       \/ live' = {} /\ TestAPI]_vars

(* A freed call has WindowSize more recent ones on its thread in the list:  *)
(* the anomaly window can reach back into the previous IO step.             *)
WindowKept ==
  [][\A c \in live \ live' :
       \/ Cardinality({d \in live' : thread[d] = thread[c] /\ d > c}) >= WindowSize
       \/ live' = {} /\ TestAPI]_vars

(* A complete labelled call that nothing protects and that the window does  *)
(* not keep is freed, or needed again: no call leaks.                       *)
Reclaimed ==
  LET Garbage(c) == /\ done[c] /\ labelled[c] /\ c \in OutsideWindow(thread[c])
                    /\ Waiting(c) = {} /\ Locking(c) = {}
  IN \A c \in Call : Garbage(c) ~> ~Garbage(c)

=============================================================================
