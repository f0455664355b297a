--------------------------- MODULE DependencyGraph --------------------------
(***************************************************************************)
(* The two algorithms of startWithDependencies on the depends_on graph:    *)
(* resolveDependencyGraph, which reads it from the provider depth first,   *)
(* and dependencyGraphCycle, a three-colour depth-first search.            *)
(* DependencyStart.tla takes what they compute for one step; here a step   *)
(* is an iteration of the loop in one of their calls, and stack holds the  *)
(* calls in progress.                                                      *)
(***************************************************************************)
EXTENDS Naturals, Sequences

CONSTANTS Node,  \* instances
          Root   \* the instance to start

ASSUME RootAssumption == Root \in Node

VARIABLES
    declared,    \* the dependencies of each instance, as the provider lists them
    unreadable,  \* the instances whose dependencies it cannot tell
    phase,       \* "idle", "resolve", "cycle", "failed" or "done"
    graph,       \* what resolveDependencyGraph has found
    colours,     \* the map "state" of dependencyGraphCycle
    stack,       \* a node and the next of its dependencies, for each call
    cyclic       \* the answer of dependencyGraphCycle

inputs == <<declared, unreadable>>

graphVars == <<declared, unreadable, phase, graph, colours, stack, cyclic>>

InitGraph ==
    /\ declared \in [Node -> Seq(Node)]
    /\ unreadable \in SUBSET Node
    /\ phase = "idle"
    /\ graph = << >>
    /\ colours = [n \in Node |-> "new"]
    /\ stack = << >>
    /\ cyclic = FALSE

-----------------------------------------------------------------------------
(* The innermost call, the dependency it looks at, and the calls once it   *)
(* has gone on to the next.                                                *)
Top == stack[Len(stack)]

Dependency == graph[Top.node][Top.next]

Advanced == [stack EXCEPT ![Len(stack)].next = @ + 1]

Call(calls, node) == Append(calls, [node |-> node, next |-> 1])

AtDependency == stack # << >> /\ Top.next <= Len(graph[Top.node])

AtEnd == stack # << >> /\ Top.next > Len(graph[Top.node])

Returned == SubSeq(stack, 1, Len(stack) - 1)

-----------------------------------------------------------------------------
(* resolveDependencyGraph. *)

Recorded(found, node) ==
    [n \in DOMAIN found \cup {node} |-> IF n = node THEN declared[n] ELSE found[n]]

(* Mutant of Read: what cannot be read has no dependencies. *)
ReadLeniently(node, found, calls) ==
    /\ phase' = "resolve"
    /\ stack' = Call(calls, node)
    /\ graph' = [n \in DOMAIN found \cup {node} |->
                    IF n = node THEN IF node \in unreadable THEN << >> ELSE declared[n]
                    ELSE found[n]]

(* A call for a node that was not found yet.  It is recorded before its    *)
(* dependencies are walked; an error ends all calls.                       *)
Read(node, found, calls) ==
    \/ /\ node \in unreadable
       /\ phase' = "failed"
       /\ stack' = << >>
       /\ graph' = found
    \/ /\ node \notin unreadable
       /\ phase' = "resolve"
       /\ stack' = Call(calls, node)
       /\ graph' = Recorded(found, node)

(* startWithDependencies begins, with an empty graph. *)
StartWithDependencies ==
    /\ phase \in {"idle", "failed", "done"}
    /\ Read(Root, << >>, << >>)
    /\ UNCHANGED <<inputs, colours, cyclic>>

resolveDependencyGraph ==
    /\ phase = "resolve"
    /\ \/ /\ AtDependency
          /\ Dependency \in DOMAIN graph
          /\ stack' = Advanced
          /\ UNCHANGED <<phase, graph>>
       \/ /\ AtDependency
          /\ Dependency \notin DOMAIN graph
          /\ Read(Dependency, graph, Advanced)
       \/ /\ AtEnd
          /\ stack' = Returned
          /\ UNCHANGED <<phase, graph>>
    /\ UNCHANGED <<inputs, colours, cyclic>>

-----------------------------------------------------------------------------
(* dependencyGraphCycle. *)

(* Mutant of OnPath: a node that was left behind counts too. *)
Coloured(colour) == colour # "new"

OnPath(colour) == colour = "visiting"

CycleBegin ==
    /\ phase = "resolve" /\ stack = << >>
    /\ phase' = "cycle"
    /\ colours' = [[n \in Node |-> "new"] EXCEPT ![Root] = "visiting"]
    /\ stack' = Call(<< >>, Root)
    /\ UNCHANGED <<inputs, graph, cyclic>>

visit ==
    /\ phase = "cycle"
    /\ \/ /\ AtDependency /\ OnPath(colours[Dependency])
          /\ phase' = "done" /\ cyclic' = TRUE /\ stack' = << >>
          /\ UNCHANGED colours
       \/ /\ AtDependency /\ ~OnPath(colours[Dependency])
          /\ colours[Dependency] = "visited"
          /\ stack' = Advanced
          /\ UNCHANGED <<phase, colours, cyclic>>
       \/ /\ AtDependency /\ ~OnPath(colours[Dependency])
          /\ colours[Dependency] # "visited"
          /\ colours' = [colours EXCEPT ![Dependency] = "visiting"]
          /\ stack' = Call(Advanced, Dependency)
          /\ UNCHANGED <<phase, cyclic>>
       \/ /\ AtEnd
          /\ colours' = [colours EXCEPT ![Top.node] = "visited"]
          /\ stack' = Returned
          /\ UNCHANGED <<phase, cyclic>>
    /\ UNCHANGED <<inputs, graph>>

CycleEnd ==
    /\ phase = "cycle" /\ stack = << >>
    /\ phase' = "done" /\ cyclic' = FALSE
    /\ UNCHANGED <<inputs, graph, colours, stack>>

NextGraph ==
    \/ StartWithDependencies \/ resolveDependencyGraph
    \/ CycleBegin \/ visit \/ CycleEnd

GraphSpec == InitGraph /\ [][NextGraph]_graphVars

-----------------------------------------------------------------------------
DependsOn(n, m) == \E k \in 1 .. Len(declared[n]) : declared[n][k] = m

(* What the root depends on, itself included, and whether there are nodes  *)
(* among these each of which another one of them depends on.               *)
DependedOn ==
    {n \in Node : \A S \in SUBSET Node :
        Root \in S /\ (\A m \in S, d \in Node : DependsOn(m, d) => d \in S) => n \in S}

HasCycle ==
    \E C \in SUBSET DependedOn : C # {} /\ \A n \in C : \E m \in C : DependsOn(m, n)

(* resolveDependencyGraph never enters a node it is already in, so that it *)
(* ends for every graph, cyclic or not; it fails exactly if something it   *)
(* has to read cannot be read, and otherwise has found every instance the  *)
(* root depends on, with its dependencies, and no other.                   *)
ResolvesReachable ==
    /\ phase = "resolve" =>
            \A p, q \in 1 .. Len(stack) : stack[p].node = stack[q].node => p = q
    /\ phase = "failed" => DependedOn \cap unreadable # {}
    /\ phase \in {"cycle", "done"} =>
            /\ DependedOn \cap unreadable = {}
            /\ graph = [n \in DependedOn |-> declared[n]]

(* dependencyGraphCycle reports a cycle exactly if there is one: a diamond *)
(* is not taken for a cycle, and a cycle away from the root is found.      *)
FindsCycles == phase = "done" => (cyclic <=> HasCycle)
=============================================================================
