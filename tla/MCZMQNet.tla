------------------------------ MODULE MCZMQNet ------------------------------
(* ZMQNet with one or two clients and worker threads. *)
EXTENDS ZMQNet

=============================================================================
