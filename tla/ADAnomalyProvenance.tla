------------------------- MODULE ADAnomalyProvenance -------------------------
(***************************************************************************)
(* What the provenance of a call says of other calls: its call stack and,   *)
(* for a GPU kernel, the call that launched it with its own call stack      *)
(* (ADAnomalyProvenance::getStackInformation, getGPUeventInfo).  Both are    *)
(* read from the call list of ADEvent after the outlier detection and       *)
(* before the purge, when op = "analyzed", and what the purges of earlier   *)
(* IO steps have freed is missing from them.                                *)
(*                                                                          *)
(* A call stack is the set of its calls, which come in the order of ENTRY;  *)
(* so is a window.                                                          *)
(***************************************************************************)
EXTENDS ADEvent

(* The walk from parent to parent ends early at one that is not there:       *)
(* "Could not find parent in call list".                                    *)
CallStack(c) ==
  {a \in {c} \cup above[c] : \A b \in above[c] : b >= a => b \in live}

NoStack == {}

(* getCallWindowStartEnd: up to WindowSize calls before the call and after  *)
(* it in the call list of its thread.                                       *)
Window(c) ==
  {d \in CallsOf(thread[c]) :
     Cardinality({b \in CallsOf(thread[c]) : (c < b /\ b < d) \/ (d < b /\ b < c)} \cup ({d} \ {c}))
       <= WindowSize}

(* "A GPU event can only be partnered to one CPU event": otherwise, and     *)
(* when the launch is not in the call list, an error stands in its place.   *)
HostStack(c) ==
  IF thread[c] \in GPUThread /\ Len(partners[c]) = 1 /\ partners[c][1] \in live
    THEN CallStack(partners[c][1])
    ELSE NoStack

(* getEventProvenance *)
Provenance(c) ==
  [call_stack |-> CallStack(c), gpu_parent |-> HostStack(c), exec_window |-> Window(c)]

(* What it should say: the calls that enclosed the call, and those that     *)
(* enclosed the one launch whose correlation ID the kernel carried.         *)
Line(c) == {c} \cup above[c]
Launches(c) == {d \in 1 .. nCalls : thread[d] \notin GPUThread /\ carried[d] \cap carried[c] # {}}

Expected(c) ==
  [call_stack |-> Line(c),
   exec_window |-> {c},   \* a window of no other call
   gpu_parent |-> IF thread[c] \in GPUThread /\ Cardinality(carried[c]) = 1 /\ Launches(c) # {}
                    THEN Line(CHOOSE d \in Launches(c) : TRUE) ELSE NoStack]

(* The provenance of a call that is labelled in the step it completes in is *)
(* complete, however many steps ago its parents and its launch were entered *)
(* and whatever was freed since.  (A call that went through a purge without  *)
(* a label, which locks its line when the window is 0, may have lost some   *)
(* of its parents there: see UnlabelledLineAlive.)                          *)
ProvenanceComplete ==
  op = "analyzed" /\ WindowSize = 0 =>
    \A c \in execData : labelled[c] /\ c \notin locked => Provenance(c) = Expected(c)

=============================================================================
