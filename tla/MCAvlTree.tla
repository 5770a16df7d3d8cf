------------------------------ MODULE MCAvlTree ------------------------------
(***************************************************************************)
(* Instance of AvlTree for TLC. Twelve nodes are the fewest with which one *)
(* removal needs two turns.                                                *)
(***************************************************************************)
EXTENDS AvlTree
=============================================================================
