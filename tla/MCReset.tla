------------------------------ MODULE MCReset ------------------------------
(***************************************************************************)
(* The reset on the instances of the order workflow.                       *)
(***************************************************************************)
EXTENDS Reset, MCOrderWorkflow

=============================================================================
