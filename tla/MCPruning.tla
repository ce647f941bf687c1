----------------------------- MODULE MCPruning -----------------------------
(***************************************************************************)
(* Instances of Pruning for TLC.                                           *)
(***************************************************************************)
EXTENDS Pruning
=============================================================================
