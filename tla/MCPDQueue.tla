------------------------------ MODULE MCPDQueue ------------------------------
(***************************************************************************)
(* Model-checking instance of PDQueue, with the inductive invariant of     *)
(* PDQueueProofs.                                                          *)
(***************************************************************************)
EXTENDS PDQueueProofs
=============================================================================
