------------------------------ MODULE MCTinyKV ------------------------------
(* TinyKV on two keys: renewals with a shorter and a longer deadline, dead *)
(* timeouts in the heap, and every placement of the clock's ticks.         *)
EXTENDS TinyKV
=============================================================================
