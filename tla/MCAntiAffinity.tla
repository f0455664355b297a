--------------------------- MODULE MCAntiAffinity ---------------------------
(* One instance that backs off from a group, and the group's member, in    *)
(* two surroundings: clients ask for both while starts and stops may fail; *)
(* or everything changes and fails, and sessions are those of start-up and *)
(* of restores only.                                                       *)
EXTENDS AntiAffinity

CONSTANTS a, d, g

OneGroup == [x \in {g} |-> {a}]
YieldsToG == [i \in {a, d} |-> IF i = d THEN {g} ELSE {}]

Busy == [requested |-> {a, d}, relabelled |-> {}, destroyed |-> {},
         faults |-> {"start", "stop"}]
Rough == [requested |-> {}, relabelled |-> {d}, destroyed |-> {d}, faults |-> Fault]
BusyOrRough == {Busy, Rough}
=============================================================================
