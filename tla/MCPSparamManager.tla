-------------------------- MODULE MCPSparamManager --------------------------
(* PSparamManager with two worker threads of the server. *)
EXTENDS PSparamManager

=============================================================================
