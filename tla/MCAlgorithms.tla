---------------------------- MODULE MCAlgorithms ----------------------------
(* Heaps of up to three full levels over a few deadlines, equal ones       *)
(* included, every dependency graph on three instances, and every window   *)
(* and choice of days in weeks of two short days.                          *)
EXTENDS Algorithms
=============================================================================
