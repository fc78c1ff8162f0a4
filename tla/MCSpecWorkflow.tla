--------------------------- MODULE MCSpecWorkflow ---------------------------
(* Instances of SpecWorkflow for TLC. *)
EXTENDS SpecWorkflow, TLC
=============================================================================
