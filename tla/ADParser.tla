------------------------------- MODULE ADParser -------------------------------
(***************************************************************************)
(* How the trace of one thread becomes calls with their communication and   *)
(* counter events.  Each IO step brings three tables: function events, comm *)
(* events and counters.  ADParser drops malformed rows, puts the function   *)
(* events in order if need be and interweaves the three (getEvents);        *)
(* ADEvent keeps the call stack and two stacks of data events, which a call *)
(* takes its own from when it exits (addFunc).                              *)
(*                                                                          *)
(* The traced program and the tracer are external: they write the rows in   *)
(* the order of time, but the tables of a step may end at different times.  *)
(* Abstracted: other threads (every structure is per thread), values and    *)
(* partners of data events, and the call list's purge (see ADEvent).        *)
(***************************************************************************)
EXTENDS Integers, ADMonitoring, FiniteSetsExt

CONSTANTS
  Func,      \* the functions of the program
  Late,      \* those whose name may come after their first events
  DataKind,  \* kinds of data events in the trace: "comm" and counters
  MaxTime,   \* bound: largest timestamp
  MaxEvents, \* bound: rows written in a behaviour
  MaxData,   \* bound: those of them that are data events
  MaxSteps   \* bound: IO steps

ASSUME ADParserAssumption ==
  /\ Func # {} /\ Late \subseteq Func
  /\ DataKind \subseteq {"comm", "counter", "corrid"} \cup Watched
  /\ Watched \cap {"ENTRY", "EXIT", "comm", "nonsense"} = {}
  /\ MaxTime \in Nat /\ MaxEvents \in Nat /\ MaxData \in Nat /\ MaxSteps \in Nat

Open == -1   \* the exit time of a call that has not exited

VARIABLES
  now,      \* the time of the last row written
  trace,    \* history: the rows written, in their order
  prog,     \* the calls the program made: function, times and enclosing calls
  func,     \* rows written and not handed over: function events,
  comm,     \* comm events,
  counter,  \* counters
  known,    \* m_funcMap: the functions whose name the parser has
  step,     \* m_current_step
  running,  \* m_status
  calls,    \* m_callList: the calls ADEvent has made, in the order of ENTRY
  stack,    \* m_callStack, the open calls as indices of calls
  commStack, counterStack, \* m_commStack, m_counterStack, the latest last
  counters,   \* ADCounter::m_counters: the watched ones, in the order they came
  nodeState   \* ADMonitoring::m_state

traceVars == <<now, trace, prog>>
tables == <<func, comm, counter>>
dataVars == <<commStack, counterStack>>
eventVars == <<calls, stack, dataVars>>
monitorVars == <<counters, nodeState>>
vars == <<traceVars, tables, known, step, running, eventVars, monitorVars>>

Init ==
  /\ now = 0
  /\ trace = <<>>
  /\ prog = <<>>
  /\ func = <<>>
  /\ comm = <<>>
  /\ counter = <<>>
  /\ known = {}
  /\ step = -1
  /\ running = TRUE
  /\ calls = <<>>
  /\ stack = <<>>
  /\ commStack = <<>>
  /\ counterStack = <<>>
  /\ counters = <<>>
  /\ nodeState = NoState

-----------------------------------------------------------------------------
(* The program and its tracer.  A row's id is its place in the trace.       *)

Row(type, f, call, ts) ==
  [id |-> Len(trace) + 1, type |-> type, fid |-> f, call |-> call, ts |-> ts]

(* The trace is written before it is handed over: a step hands over rows    *)
(* written before it, so it makes no difference which are written later.    *)
Write(row) ==
  /\ step = -1 /\ running /\ Len(trace) < MaxEvents
  /\ now' = row.ts
  /\ trace' = Append(trace, row)
  /\ UNCHANGED <<known, step, running, eventVars, monitorVars>>

OpenCalls == {p \in DOMAIN prog : prog[p].exit = Open}

TraceEntry(f, ts) ==
  LET row == Row("ENTRY", f, Len(prog) + 1, ts) IN
  /\ Write(row)
  /\ prog' = Append(prog, [fid |-> f, entry |-> ts, exit |-> Open, within |-> OpenCalls])
  /\ func' = Append(func, row)
  /\ UNCHANGED <<comm, counter>>

TraceExit(ts) ==
  LET p == Max(OpenCalls)
      row == Row("EXIT", prog[p].fid, p, ts)
  IN /\ OpenCalls # {}
     /\ Write(row)
     /\ prog' = [prog EXCEPT ![p].exit = ts]
     /\ func' = Append(func, row)
     /\ UNCHANGED <<comm, counter>>

TraceData(k, ts) ==
  LET row == Row(k, "none", 0, ts) IN
  /\ Write(row)
  /\ Len(comm) + Len(counter) < MaxData
  /\ IF k = "comm" THEN comm' = Append(comm, row) /\ UNCHANGED counter
                   ELSE counter' = Append(counter, row) /\ UNCHANGED comm
  /\ UNCHANGED <<prog, func>>

(* The function table of a step, from the rows it hands over: "sometimes    *)
(* Tau gives us data that is out of order" (two rows swapped, neither past   *)
(* one of its own time) and "malformed (nonsense) data entries".             *)
Swapped(rows, i, j) == [rows EXCEPT ![i] = rows[j], ![j] = rows[i]]

Disordered(rows) ==
  {rows} \cup
  {Swapped(rows, ij[1], ij[2]) : ij \in
     {ij \in (DOMAIN rows) \X (DOMAIN rows) :
        /\ ij[1] < ij[2]
        /\ \A k \in (ij[1] + 1) .. ij[2] : rows[k].ts # rows[ij[1]].ts
        /\ \A k \in ij[1] .. (ij[2] - 1) : rows[k].ts # rows[ij[2]].ts}}

Nonsense == [id |-> 0, type |-> "nonsense", fid |-> "none", call |-> 0, ts |-> MaxTime]

FuncTables(rows) ==
  {junk \o table : junk \in {<<>>, <<Nonsense>>}, table \in Disordered(rows)}

(* The tables of a step end at different times: those of comm events and    *)
(* counters reach at least as far as the function table ("out of order with *)
(* the func events on io step boundaries"), none is cut short before it.    *)
KeepsUp(f, left) ==
  \A i \in DOMAIN f : \A j \in DOMAIN left : f[i].ts <= left[j].ts

(* The last step of a behaviour hands over all that is left. *)
LastTakesAll(f, c, n) ==
  step + 2 = MaxSteps => f = Len(func) /\ c = Len(comm) /\ n = Len(counter)

Taken(rows, k) == SubSeq(rows, 1, k)
Held(rows, k) == SubSeq(rows, k + 1, Len(rows))

-----------------------------------------------------------------------------
(* ADParser: fetching and interweaving.                                     *)

Valid(rows) == Only(rows, {r \in Range(rows) : r.type # "nonsense"})

AtTime(rows, ts) == Only(rows, {r \in Range(rows) : r.ts = ts})

(* checkEventOrder *)
InOrder(rows) ==
  LET v == Valid(rows) IN \A i, j \in DOMAIN v : i < j => v[i].ts <= v[j].ts

(* Mutant: the rows of one time are collected in reverse. *)
ByTime_Reversed(rows) ==
  LET before[t \in 0 .. MaxTime + 1] ==
        IF t = 0 THEN <<>> ELSE before[t - 1] \o Reverse(AtTime(rows, t - 1))
  IN  before[MaxTime + 1]

(* "preserve ordering of events that have the same timestamp" *)
ByTime(rows) ==
  LET before[t \in 0 .. MaxTime + 1] ==
        IF t = 0 THEN <<>> ELSE before[t - 1] \o AtTime(rows, t - 1)
  IN  before[MaxTime + 1]

(* fetchFuncData: also drops, where the client is connected, the rows of a  *)
(* function whose name is not known; where it is not, addFunc does.         *)
Fetched(rows) ==
  LET valid == Valid(IF InOrder(rows) THEN rows ELSE ByTime(rows))
  IN  Only(valid, {r \in Range(valid) : r.fid \in known'})

(* The state of the loop that interweaves: what is left of the three        *)
(* tables, last_func_entry, func_has_corid and out.                         *)
LoopInit(f, c, n) ==
  [func |-> f, comm |-> c, counter |-> n, lastEntry |-> 0, hasCorrid |-> FALSE, out |-> <<>>]

(* Mutant: function events always first. *)
Priority_FuncFirst(s) == <<"func", "comm", "counter">>

(* Who comes first among equal times. *)
Priority(s) ==
  IF s.func # <<>> /\ Head(s.func).type = "ENTRY"
    THEN <<"func", "comm", "counter">>
    ELSE <<"comm", "counter", "func">>

(* getEarliest *)
Earliest(s) ==
  LET p == Priority(s)
      First(i) == s[p[i]] # <<>> /\ \A j \in 1 .. 3 :
         \/ s[p[j]] = <<>>
         \/ Head(s[p[i]]).ts < Head(s[p[j]]).ts
         \/ Head(s[p[i]]).ts = Head(s[p[j]]).ts /\ i <= j
  IN p[CHOOSE i \in 1 .. 3 : First(i)]

(* "Catch edge case where ENTRY, CORRID, EXIT all have the same timestamp"  *)
ClaimsCorrid(s) ==
  /\ s.func # <<>> /\ Head(s.func).type = "EXIT"
  /\ s.counter # <<>> /\ Head(s.counter).type = "corrid"
  /\ Head(s.func).ts = s.lastEntry /\ Head(s.counter).ts = s.lastEntry
  /\ Earliest(s) = "func"
  /\ \/ ~s.hasCorrid
     \/ \A i \in 2 .. Len(s.func) :
          s.func[i].type = "ENTRY" => s.func[i].ts # Head(s.func).ts

Iteration(s) ==
  LET from == IF ClaimsCorrid(s) THEN "counter" ELSE Earliest(s)
      row  == Head(s[from])
  IN [s EXCEPT ![from] = Tail(@),
               !.out = Append(@, row),
               !.lastEntry = IF row.type = "ENTRY" THEN row.ts ELSE @,
               !.hasCorrid = CASE row.type = "ENTRY"  -> FALSE
                               [] row.type = "corrid" -> TRUE
                               [] OTHER               -> @]

(* getEvents *)
Interwoven(f, c, n) ==
  LET state[i \in 0 .. Len(f) + Len(c) + Len(n)] ==
        IF i = 0 THEN LoopInit(f, c, n) ELSE Iteration(state[i - 1])
  IN  state[Len(f) + Len(c) + Len(n)].out

-----------------------------------------------------------------------------
(* ADEvent: registering one event after another.  ev stands for the state   *)
(* of the event manager, m_callList, m_callStack and the two data stacks.   *)

NewCall(ev, row) ==
  [of |-> row.call, fid |-> row.fid, entry |-> row.ts, exit |-> Open,
   parent |-> IF ev.stack = <<>> THEN 0 ELSE Last(ev.stack),
   exclusive |-> 0, messages |-> <<>>, counters |-> <<>>]

AddEntry(ev, row) ==
  [ev EXCEPT !.calls = Append(@, NewCall(ev, row)),
             !.stack = Append(@, Len(ev.calls) + 1)]

(* What a call that exits pops off a stack: all above the latest event from *)
(* before its entry.                                                        *)
Bottom(s, entry) == Max({0} \cup {i \in DOMAIN s : s[i].ts < entry})
Popped(s, entry) == SubSeq(s, Bottom(s, entry) + 1, Len(s))

(* ExecData_t::add_message and add_counter refuse what is not within. *)
Within(d, entry, exit) == entry <= d.ts /\ d.ts <= exit

Claimed(s, entry, exit) ==
  Only(Popped(s, entry), {d \in Range(s) : Within(d, entry, exit)})

(* Mutant: what was popped and not claimed is not put back. *)
Reinserted_Dropped(s, entry, exit) == Taken(s, Bottom(s, entry))

(* "reinsert in reverse order (oldest first)" *)
Reinserted(s, entry, exit) ==
  Taken(s, Bottom(s, entry)) \o Only(Popped(s, entry), {d \in Range(s) : ~Within(d, entry, exit)})

(* ExecData_t::update_exit *)
Exited(call, ts) ==
  [call EXCEPT !.exit = ts, !.exclusive = @ + (ts - call.entry)]

Refused(call, row) == call.fid # row.fid \/ call.entry > row.ts

(* "Tell the former parent function to subtract the child runtime" *)
ToldParent(cs, p, runtime) ==
  IF p = 0 THEN cs ELSE [cs EXCEPT ![p].exclusive = @ - runtime]

AddExit(ev, row) ==
  IF ev.stack = <<>> THEN ev                             \* EmptyCallStack
  ELSE LET c    == Last(ev.stack)
           call == ev.calls[c]
           done == [Exited(call, row.ts) EXCEPT
                      !.messages = Claimed(ev.comm, call.entry, row.ts),
                      !.counters = Claimed(ev.counter, call.entry, row.ts)]
       IN IF Refused(call, row) THEN ev                  \* CallStackViolation
          ELSE [calls   |-> ToldParent([ev.calls EXCEPT ![c] = done],
                                       call.parent, row.ts - call.entry),
                stack   |-> Front(ev.stack),
                comm    |-> Reinserted(ev.comm, call.entry, row.ts),
                counter |-> Reinserted(ev.counter, call.entry, row.ts)]

AddComm(ev, row) == [ev EXCEPT !.comm = Append(@, row)]
AddCounter(ev, row) == [ev EXCEPT !.counter = Append(@, row)]

(* addEvent *)
AddEvent(ev, row) ==
  CASE row.type = "ENTRY" -> AddEntry(ev, row)
    [] row.type = "EXIT"  -> AddExit(ev, row)
    [] row.type = "comm"  -> AddComm(ev, row)
    [] OTHER              -> AddCounter(ev, row)

EventManager ==
  [calls |-> calls, stack |-> stack, comm |-> commStack, counter |-> counterStack]

Registered(rows) ==
  LET ev[i \in 0 .. Len(rows)] ==
        IF i = 0 THEN EventManager ELSE AddEvent(ev[i - 1], rows[i])
  IN  ev[Len(rows)]

-----------------------------------------------------------------------------
(* The driver: one IO step.                                                 *)

(* update_attributes: a name, once known, stays known. *)
UpdateAttributes ==
  /\ known' \in {(Func \ Late) \cup k : k \in SUBSET Late}
  /\ known \subseteq known'

BeginStep ==
  /\ step' = step + 1
  /\ UpdateAttributes

(* The part of an IO step about counters: extractCounters, extractNodeState. *)
(* A step with analysis ends with flushCounters.                            *)
CountersOfStep(table) ==
  \E all \in {AddCounters(counters, table)} :
    /\ nodeState' = ExtractCounters(nodeState, all)
    /\ counters' \in {all, <<>>}

(* extractEvents, after the watched counters are known *)
EventsOfStep(f, c, n) == Registered(NotIgnored(Interwoven(f, c, n)))

(* parseInputStep and what readStep does with it: f, c and n rows of the    *)
(* three tables are handed over.                                            *)
IOStep(f, c, n) ==
  /\ running /\ step + 1 < MaxSteps
  /\ LastTakesAll(f, c, n)
  /\ KeepsUp(Taken(func, f), Held(comm, c))
  /\ KeepsUp(Taken(func, f), Held(counter, n))
  /\ BeginStep
  /\ func' = Held(func, f)
  /\ comm' = Held(comm, c)
  /\ counter' = Held(counter, n)
  /\ \E fetched \in {Fetched(table) : table \in FuncTables(Taken(func, f))} :
       \E ev \in {EventsOfStep(fetched, Taken(comm, c), Taken(counter, n))} :
         /\ calls' = ev.calls
         /\ stack' = ev.stack
         /\ commStack' = ev.comm
         /\ counterStack' = ev.counter
  /\ CountersOfStep(Taken(counter, n))
  /\ UNCHANGED <<traceVars, running>>

(* Comm events and counters are not put in order: getEvents ends the        *)
(* process.                                                                 *)
IOStepDisordered(f, c, n) ==
  /\ running /\ step + 1 < MaxSteps
  /\ LastTakesAll(f, c, n)
  /\ \E rows \in Disordered(Taken(comm, c)) \cup Disordered(Taken(counter, n)) :
       ~InOrder(rows)
  /\ BeginStep
  /\ running' = FALSE
  /\ UNCHANGED <<traceVars, tables, eventVars, monitorVars>>

(* beginStep: "EndOfStream", or it timed out; m_current_step = -1.  When it *)
(* comes earlier, rows are left unread: a shorter trace has the same calls.  *)
EndOfStream ==
  /\ running /\ step + 1 = MaxSteps
  /\ running' = FALSE
  /\ step' = -1
  /\ UNCHANGED <<traceVars, tables, known, eventVars, monitorVars>>

(* Of times only the order matters: the first row is written at 0. *)
Times == IF trace = <<>> THEN {now} ELSE now .. Min({now + 1, MaxTime})

Next ==
  \/ \E ts \in Times :
       \/ \E f \in Func : TraceEntry(f, ts)
       \/ TraceExit(ts)
       \/ \E k \in DataKind : TraceData(k, ts)
  \/ \E f \in 0 .. Len(func), c \in 0 .. Len(comm), n \in 0 .. Len(counter) :
       \/ IOStep(f, c, n)
       \/ IOStepDisordered(f, c, n)
  \/ EndOfStream

Spec == Init /\ [][Next]_vars

-----------------------------------------------------------------------------
(* Properties.                                                              *)

(* The sequences that hold data events: the two stacks (i = 0), and what     *)
(* each call has.                                                           *)
Holding(i, kind) ==
  CASE i = 0 /\ kind = "comm"    -> commStack
    [] i = 0 /\ kind = "counter" -> counterStack
    [] i # 0 /\ kind = "comm"    -> calls[i].messages
    [] i # 0 /\ kind = "counter" -> calls[i].counters

Data(i) == Range(Holding(i, "comm")) \cup Range(Holding(i, "counter"))
Complete == {i \in DOMAIN calls : calls[i].exit # Open}
Children(i) == {j \in DOMAIN calls : calls[j].parent = i}

(* The stack is the line of open calls, from a call without parent to the   *)
(* last one opened; the data stacks hold rows of their own kind.            *)
TypeOK ==
  /\ step \in -1 .. MaxSteps - 1
  /\ running \in BOOLEAN
  /\ known \subseteq Func
  /\ Range(stack) = (DOMAIN calls) \ Complete
  /\ \A i \in DOMAIN stack :
       calls[stack[i]].parent = IF i = 1 THEN 0 ELSE stack[i - 1]
  /\ \A d \in Range(commStack) : d.type = "comm"
  /\ \A d \in Range(counterStack) : d.type \in {"counter", "corrid"}

(* What ADEvent reconstructs are calls the program made: whatever the cuts  *)
(* between steps, the disorder of the rows and the functions whose name     *)
(* came too late, each call has the exit of the program's call once that    *)
(* was handed over, and as its parent the innermost enclosing call that is  *)
(* known.                                                                   *)
CallsAreTheProgramS ==
  \A i \in DOMAIN calls :
    LET p == calls[i].of
        Lines == {j \in DOMAIN calls : calls[j].of \in prog[p].within}
        waiting == \E r \in Range(func) : r.type = "EXIT" /\ r.call = p
    IN /\ calls[i].entry = prog[p].entry
       /\ calls[i].exit = IF waiting THEN Open ELSE prog[p].exit
       /\ calls[i].parent = Max({0} \cup Lines)

(* The time of a call, 0 before its exit; and that of the children of c.    *)
Runtime(call) == IF call.exit = Open THEN 0 ELSE call.exit - call.entry

RuntimeOfChildren(cs, c) ==
  LET sum[i \in 0 .. Len(cs)] ==
        IF i = 0 THEN 0
        ELSE sum[i - 1] + (IF cs[i].parent = c THEN Runtime(cs[i]) ELSE 0)
  IN  sum[Len(cs)]

(* The exclusive time of a call is its time less the time of its children,  *)
(* at every nesting.                                                        *)
ExclusiveTimeExact ==
  \A i \in DOMAIN calls :
    calls[i].exclusive = Runtime(calls[i]) - RuntimeOfChildren(calls, i)

(* The calls and their times of the two properties above, at once: what a   *)
(* rank analyses is what the program did.                                   *)
ReconstructionExact == CallsAreTheProgramS /\ ExclusiveTimeExact

(* The data events that were handed over, and of these the samples of       *)
(* watched counters.                                                        *)
HandedOver == {r \in Range(trace) : r.type \in DataKind} \ (Range(comm) \cup Range(counter))
Monitored == {r \in HandedOver : r.type \in Watched}

Places(d) ==
  UNION {{<<i, kind, k>> : k \in {k \in DOMAIN Holding(i, kind) : Holding(i, kind)[k] = d}} :
           i \in 0 .. Len(calls), kind \in {"comm", "counter"}}

(* A data event that was handed over is with one call, or on its stack, and *)
(* there once: nothing is lost or counted twice at the border of a step; a  *)
(* sample of a watched counter is in none of them, and nothing else is.     *)
DataInOnePlace ==
  /\ \A d \in HandedOver \ Monitored : \E p \in Places(d) : \A q \in Places(d) : q = p
  /\ \A i \in 0 .. Len(calls) : Data(i) \subseteq HandedOver \ Monitored

(* A data event goes to a call within whose time it lies, and not past a    *)
(* call nested in that one that it lies strictly within.                    *)
ClaimedByInnermost ==
  \A i \in DOMAIN calls : \A d \in Data(i) :
    /\ calls[i].entry <= d.ts /\ d.ts <= calls[i].exit
    /\ \A j \in Children(i) : ~(calls[j].entry < d.ts /\ d.ts < calls[j].exit)

(* Every data event is in one place, and it is the right one. *)
DataWhereItBelongs == DataInOnePlace /\ ClaimedByInnermost

(* A call that completes takes every data event from its entry to its exit  *)
(* that no call nested in it took, the borders included ("so comm and       *)
(* counter events are included in the function execution").                 *)
NoneLeftUnclaimed ==
  [][\A i \in Complete' \ Complete : \A d \in Data(0)' :
       d.ts < calls'[i].entry \/ d.ts > calls'[i].exit]_vars

(* The node state is the latest sample of each watched counter, whatever    *)
(* the cuts between IO steps and however many of them an analysis covers    *)
(* ("we should take the most recent").                                      *)
NodeStateIsLatest ==
  \A cid \in Watched :
    nodeState[cid] = Max({Unassigned} \cup {r.id : r \in {r \in Monitored : r.type = cid}})

(* "in such cases, a zero-length function can claim only one correlation    *)
(* ID": where another call begins at the same time.                         *)
OneCorrelationID ==
  \A i, j \in DOMAIN calls :
    i < j /\ calls[i].exit = calls[i].entry /\ calls[j].entry = calls[i].entry
      => Cardinality({d \in Range(calls[i].counters) : d.type = "corrid"}) <= 1

=============================================================================
