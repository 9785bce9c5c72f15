---------------------------- MODULE OrderedRequests ----------------------------
(***************************************************************************)
(* What an AD rank may rely on when it talks to the parameter server: its   *)
(* requests are carried out one by one in the order it made them, a         *)
(* blocking one returns when it and all before it have been, and one that   *)
(* does not block is carried out all the same.                              *)
(***************************************************************************)
EXTENDS Naturals, Sequences

VARIABLES
  made,    \* how many requests were made, the i-th is request i
  carried, \* the requests carried out, in order
  blocked, \* does the rank wait for the last one?
  up       \* the process has not been brought down by a network error

vars == <<made, carried, blocked, up>>

Init == made = 0 /\ carried = <<>> /\ blocked = FALSE /\ up = TRUE

Make(blocking) ==
  /\ up /\ ~blocked
  /\ made' = made + 1
  /\ blocked' = blocking
  /\ UNCHANGED <<carried, up>>

CarryOut ==
  /\ up /\ Len(carried) < made
  /\ carried' = Append(carried, Len(carried) + 1)
  /\ UNCHANGED <<made, blocked, up>>

Return ==
  /\ up /\ blocked /\ Len(carried) = made
  /\ blocked' = FALSE
  /\ UNCHANGED <<made, carried, up>>

Fail ==
  /\ up
  /\ up' = FALSE
  /\ UNCHANGED <<made, carried, blocked>>

Next ==
  \/ \E blocking \in BOOLEAN : Make(blocking)
  \/ CarryOut
  \/ Return
  \/ Fail

Spec == Init /\ [][Next]_vars

FairSpec == Spec /\ WF_vars(CarryOut) /\ WF_vars(Return)
=============================================================================
