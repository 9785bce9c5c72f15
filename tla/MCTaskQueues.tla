----------------------------- MODULE MCTaskQueues -----------------------------
(* TaskQueues with two threads and a few tasks. *)
EXTENDS TaskQueues
=============================================================================
