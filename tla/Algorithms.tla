----------------------------- MODULE Algorithms -----------------------------
(***************************************************************************)
(* The parts that share no state with any other, one of them in every      *)
(* behaviour: the heap of timeouts (TimeoutHeap.tla) over every sequence   *)
(* of pushes and pops; the two searches of the dependency graph            *)
(* (DependencyGraph.tla) over every graph, every order in which            *)
(* dependencies are declared, and every set of unreadable instances; the   *)
(* running hours (RunningHours.tla) over every window and choice of days.  *)
(***************************************************************************)
EXTENDS TimeoutHeap, DependencyGraph, RunningHours

VARIABLE algorithm  \* the one that runs, "heap", "graph" or "hours"

algorithmVars == <<algorithm, heapVars, graphVars, vars>>

(* Every list of different dependencies. *)
DependencyLists ==
    {l \in UNION {[1..n -> Node] : n \in 0..Cardinality(Node)} :
        \A i, j \in DOMAIN l : l[i] = l[j] => i = j}

(* InitGraph, with lists of different dependencies only. *)
InitLists ==
    /\ declared \in [Node -> DependencyLists]
    /\ unreadable \in SUBSET Node

(* The parts that do not run have nothing to do. *)
NoLists == declared = [n \in Node |-> << >>] /\ unreadable = {}

NoHours ==
    /\ now = 0 /\ hours = [start |-> 0, end |-> 0] /\ days = {}
    /\ session = NoSession /\ due = TRUE /\ watch = IdleWatch(FALSE)

InitAlgorithms ==
    /\ InitHeap
    /\ \/ algorithm = "heap" /\ NoLists /\ NoHours
       \/ algorithm = "graph" /\ InitLists /\ NoHours
       \/ algorithm = "hours" /\ NoLists /\ Init
    /\ phase = "idle" /\ graph = << >> /\ stack = << >> /\ cyclic = FALSE
    /\ colours = [n \in Node |-> "new"]

NextAlgorithms ==
    /\ UNCHANGED algorithm
    /\ \/ algorithm = "heap" /\ NextHeap /\ UNCHANGED <<graphVars, vars>>
       \/ algorithm = "graph" /\ NextGraph /\ UNCHANGED <<heapVars, vars>>
       \/ algorithm = "hours" /\ Next /\ UNCHANGED <<heapVars, graphVars>>

AlgorithmsSpec == InitAlgorithms /\ [][NextAlgorithms]_algorithmVars
=============================================================================
