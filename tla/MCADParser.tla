------------------------------ MODULE MCADParser ------------------------------
(* Instances of ADParser. *)
EXTENDS ADParser

CONSTANTS f1, f2

=============================================================================
