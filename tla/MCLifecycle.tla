---------------------------- MODULE MCLifecycle -----------------------------
(* Lifecycle for model checking; the bounds are given in the configurations. *)
EXTENDS Lifecycle
=============================================================================
