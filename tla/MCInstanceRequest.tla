-------------------------- MODULE MCInstanceRequest -------------------------
(* The request path on one instance: instances do not share state here, so *)
(* one is enough, and the interleavings are those of its requests, starts, *)
(* stops and events.                                                       *)
EXTENDS InstanceRequest
=============================================================================
