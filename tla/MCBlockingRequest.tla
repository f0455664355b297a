------------------------- MODULE MCBlockingRequest --------------------------
(* Requests for up to two instances, each optional or not. *)
EXTENDS BlockingRequest

MCFrequencies == {-1, 3}
=============================================================================
