-------------------------- MODULE MCGroupRegistry ---------------------------
(* An instance that keeps its labels and one that does not. *)
EXTENDS GroupRegistry
=============================================================================
