------------------------------ MODULE MCADEvent ------------------------------
(* ADEvent with one CPU and one GPU thread and interchangeable correlation IDs. *)
EXTENDS ADAnomalyProvenance, TLC

Symmetry == Permutations(CorrID)

=============================================================================
