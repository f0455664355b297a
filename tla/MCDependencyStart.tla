-------------------------- MODULE MCDependencyStart -------------------------
(* Two managed instances, a and b, and what they may depend on; m is a     *)
(* migration, which a alone waits for.                                     *)
EXTENDS DependencyStart

CONSTANTS a, b, c, d, m

(* The graph in which a, b and c depend on as, bs and cs. *)
Graph(as, bs, cs) ==
    [i \in Instance |-> CASE i = a -> as [] i = b -> bs [] i = c -> cs [] OTHER -> {}]

Shared == Graph({c}, {c}, {d})
Diamond == Graph({b, c}, {d}, {d})
Triangle == Graph({b, c}, {c}, {})
Cycle == Graph({b}, {a, c}, {})
SelfLoop == Graph({c}, {}, {c})

Chain == Graph({b}, {c}, {})
Fork == Graph({b, c}, {}, {})
Pair == Graph({c}, {}, {})

Migrated == [i \in Instance |-> IF i = a THEN {m} ELSE {}]

AllGraphs == {Shared, Diamond, Triangle, Cycle, SelfLoop, Chain, Fork, Pair,
              Migrated}

(* Some graphs are left in peace: starts must succeed there. *)
SomeFaults ==
    [g \in Graphs |-> CASE g = Chain -> {"resolve", "inspect", "start", "timeout"}
                        [] g = Fork -> {"inspect", "start", "timeout"}
                        [] g = Pair -> {"boot", "stop", "timeout"}
                        [] OTHER -> {}]

Conditions == [e \in Instance \X Instance |->
                CASE e = <<b, c>> -> "service_running_or_healthy"
                  [] e[2] = m     -> "service_completed_successfully"
                  [] OTHER        -> "service_healthy"]
=============================================================================
