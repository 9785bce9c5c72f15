------------------------- MODULE MCADThreadNetClient -------------------------
(* ADThreadNetClient with a handful of calls. *)
EXTENDS ADThreadNetClient
=============================================================================
