----------------------- MODULE DependencyStartProofs ------------------------
(***************************************************************************)
(* Theorems about DependencyStart, for any dependency graphs and any       *)
(* number of flows, and about DependencyGraph, for any declarations.       *)
(***************************************************************************)
EXTENDS DependencyStart, DependencyGraph, TLAPS

(* A goroutine that runs belongs to a flow that waits for its errgroups:   *)
(* its node is the root, or a goroutine that waits for it handles it.  The *)
(* graph of such a flow has no cycle.                                      *)
Rooted ==
    \A f \in Managed :
        /\ flow[f] = "group" => ~Cyclic(f)
        /\ \A e \in Edge : Active(f, e) =>
              /\ flow[f] = "group"
              /\ e[1] \in Reachable(f) /\ e[2] \in deps[e[1]]
              /\ e[1] = f \/ \E m \in Instance : branch[f][<<m, e[1]>>] = "group"

(* The inductive invariant.  HandledOnce and OneDependencyStart need       *)
(* Rooted: no goroutine may run where an errgroup is launched.             *)
IInv == TypeOK /\ OneDependencyStart /\ HandledOnce /\ Rooted

-----------------------------------------------------------------------------
(* The graph. *)

(* The graph never changes, and neither does what follows from it. *)
LEMMA GraphUnchanged ==
    ASSUME UNCHANGED deps
    PROVE  /\ \A n : Group(n)' = Group(n)
           /\ \A n : Reachable(n)' = Reachable(n)
           /\ \A n : Cyclic(n)' = Cyclic(n)
<1>1. \A n : Reachable(n)' = Reachable(n)
  BY DEF Reachable
<1> QED
  BY <1>1 DEF Group, Cyclic

(* The nodes of a flow's graph are closed under dependencies. *)
LEMMA ReachableClosed ==
    ASSUME TypeOK, NEW f \in Managed, NEW n \in Reachable(f), NEW d \in deps[n]
    PROVE  d \in Reachable(f) /\ f \in Reachable(f)
<1> USE DependencyAssumption DEF TypeOK
<1>1. n \in Instance /\ d \in Instance /\ f \in Instance
  BY DEF Reachable
<1> QED
  BY <1>1 DEF Reachable

(* Nothing depends on the root of an acyclic graph. *)
LEMMA RootIsFirst ==
    ASSUME TypeOK, NEW f \in Managed, ~Cyclic(f), NEW n \in Reachable(f)
    PROVE  f \notin deps[n]
<1> USE DependencyAssumption DEF TypeOK
<1> SUFFICES ASSUME f \in deps[n] PROVE FALSE
  OBVIOUS
<1> DEFINE R == Reachable(f)
<1>1. R \subseteq Instance /\ f \in R /\ \A m \in R : deps[m] \subseteq R
  <2>1. R \subseteq Instance
    BY DEF Reachable
  <2> QED
    BY <2>1, ReachableClosed
<1>2. ASSUME NEW x \in R PROVE \E m \in R : x \in deps[m]
  <2>1. CASE x = f
    BY <2>1
  <2>2. CASE x # f
    <3> SUFFICES ASSUME \A m \in R : x \notin deps[m] PROVE FALSE
      OBVIOUS
    <3> DEFINE S == R \ {x}
    <3>1. S \in SUBSET Instance /\ f \in S /\ \A m \in S : deps[m] \subseteq S
      BY <1>1, <2>2
    <3>2. x \in S
      BY <3>1 DEF Reachable
    <3> QED
      BY <3>2
  <2> QED
    BY <2>1, <2>2
<1>3. R # {}
  BY <1>1
<1> QED
  BY <1>2, <1>3 DEF Cyclic

(* errgroup.Wait of the root returns when no goroutine is left. *)
LEMMA WaitIsEnough ==
    ASSUME IInv, NEW f \in Managed, flow[f] = "group", GroupDone(f, f)
    PROVE  \A e \in Edge : ~Active(f, e)
<1> USE DEF IInv
<1> SUFFICES ASSUME NEW e \in Edge, Active(f, e) PROVE FALSE
  OBVIOUS
<1> DEFINE C == {n \in Reachable(f) : \E d \in Instance : Active(f, <<n, d>>)}
<1>1. ASSUME NEW x \in Edge, Active(f, x)
      PROVE  /\ x = <<x[1], x[2]>> /\ x[1] \in C
             /\ x[1] # f
             /\ \E m \in Instance : Active(f, <<m, x[1]>>)
  <2>1. x = <<x[1], x[2]>> /\ x[1] \in Instance /\ x[2] \in Instance
    BY DEF Edge
  <2>2. x[1] \in Reachable(f) /\ x[2] \in deps[x[1]]
    BY <1>1 DEF Rooted
  <2>3. x[1] # f
    BY <1>1, <2>1, <2>2 DEF GroupDone, Group, Active
  <2>4. \E m \in Instance : branch[f][<<m, x[1]>>] = "group"
    BY <1>1, <2>3 DEF Rooted
  <2> QED
    BY <1>1, <2>1, <2>2, <2>3, <2>4 DEF Active
<1>2. ASSUME NEW n \in C PROVE \E m \in C : n \in deps[m]
  <2>1. n \in Instance
    BY DEF Reachable
  <2>2. PICK d \in Instance : Active(f, <<n, d>>)
    OBVIOUS
  <2>3. PICK m \in Instance : Active(f, <<m, n>>)
    BY <1>1, <2>1, <2>2 DEF Edge
  <2>4. m \in C
    BY <1>1, <2>1, <2>3 DEF Edge
  <2>5. n \in deps[m]
    BY <2>1, <2>3 DEF Rooted, Edge
  <2> QED
    BY <2>4, <2>5
<1>3. C # {}
  BY <1>1
<1> QED
  BY <1>2, <1>3 DEF Cyclic, Rooted

-----------------------------------------------------------------------------
(* How the steps move goroutines. *)

Moved(f, e, pc) ==
    \A g \in Managed, x \in Edge :
        branch'[g][x] = IF g = f /\ x = e THEN pc ELSE branch[g][x]

LEMMA GotoMoves ==
    ASSUME TypeOK, NEW f \in Managed, NEW e \in Edge, NEW pc \in BranchPC,
           Goto(f, e, pc)
    PROVE  Moved(f, e, pc) /\ branch' \in [Managed -> [Edge -> BranchPC]]
BY DEF TypeOK, Goto, Moved

(* Steps that neither begin nor end a start of a dependency. *)
LEMMA SameStarts ==
    ASSUME OneDependencyStart, UNCHANGED depStarts,
           \A g \in Managed, x \in Edge :
              /\ branch'[g][x] = "start" <=> branch[g][x] = "start"
              /\ branch'[g][x] = "follow" => branch[g][x] = "follow"
    PROVE  OneDependencyStart'
<1>1. \A n, d \in Instance : <<n, d>> \in Edge
  BY DEF Edge
<1> QED
  BY <1>1 DEF OneDependencyStart

(* Rooted in the next state, in terms of the graph, which stays. *)
LEMMA StillRooted ==
    ASSUME UNCHANGED deps,
           \A g \in Managed : flow'[g] = "group" => ~Cyclic(g),
           \A g \in Managed, x \in Edge : Active(g, x)' =>
              /\ flow'[g] = "group"
              /\ x[1] \in Reachable(g) /\ x[2] \in deps[x[1]]
              /\ x[1] = g \/ \E m \in Instance : branch'[g][<<m, x[1]>>] = "group"
    PROVE  Rooted'
BY GraphUnchanged DEF Rooted

(* A goroutine that handles no node, before and after, moves on. *)
LEMMA PlainMove ==
    ASSUME IInv, NEW f \in Managed, NEW e \in Edge, NEW pc \in BranchPC,
           branch[f][e] \in {"inspect", "load", "join", "poll"},
           pc \in {"load", "join", "poll", "ok", "err"},
           Goto(f, e, pc), UNCHANGED <<deps, depStarts, flow, memo>>
    PROVE  OneDependencyStart' /\ HandledOnce' /\ Rooted'
<1> USE DEF IInv
<1>1. Moved(f, e, pc)
  BY GotoMoves
<1>2. \A g \in Managed, x \in Edge :
        /\ branch'[g][x] = "start" <=> branch[g][x] = "start"
        /\ branch'[g][x] = "follow" <=> branch[g][x] = "follow"
        /\ branch'[g][x] = "group" <=> branch[g][x] = "group"
        /\ Handles(g, x)' <=> Handles(g, x)
        /\ Active(g, x)' => Active(g, x)
  BY <1>1 DEF Moved, Handles, Active
<1>3. \A n, d \in Instance : <<n, d>> \in Edge
  BY DEF Edge
<1>4. OneDependencyStart'
  BY <1>2, <1>3 DEF OneDependencyStart
<1>5. HandledOnce'
  BY <1>2, <1>3 DEF HandledOnce
<1>6. Rooted'
  BY <1>2, <1>3, GraphUnchanged DEF Rooted, Edge
<1> QED
  BY <1>4, <1>5, <1>6

(* A goroutine that handled a node, and launched or followed no start that *)
(* goes on, is done with it: the memo has the result.                      *)
LEMMA NodeDoneMove ==
    ASSUME IInv, NEW f \in Managed, NEW e \in Edge, NEW r \in {"ok", "err"},
           branch[f][e] \in {"group", "ensure", "follow"},
           branch[f][e] = "group" => GroupDone(f, e[2]),
           NodeDone(f, e, r), UNCHANGED <<deps, depStarts, flow>>
    PROVE  OneDependencyStart' /\ HandledOnce' /\ Rooted'
<1> USE DEF IInv
<1> DEFINE pc == IF r = "ok" THEN "poll" ELSE "err"
<1>1. pc \in BranchPC /\ Moved(f, e, pc)
  BY GotoMoves DEF NodeDone, BranchPC
<1>2. e[1] \in Instance /\ e[2] \in Instance /\ e = <<e[1], e[2]>>
  BY DEF Edge
<1>3. \A n, d \in Instance : <<n, d>> \in Edge
  BY DEF Edge
<1>4. \A g \in Managed, d \in Instance :
        memo'[g][d] = IF g = f /\ d = e[2] THEN r ELSE memo[g][d]
  BY <1>2 DEF NodeDone, TypeOK
<1>5. \A g \in Managed, x \in Edge :
        /\ branch'[g][x] = "start" <=> branch[g][x] = "start"
        /\ branch'[g][x] = "follow" => branch[g][x] = "follow"
        /\ branch'[g][x] = "group" <=> branch[g][x] = "group" /\ ~(g = f /\ x = e)
        /\ Handles(g, x)' <=> Handles(g, x) /\ ~(g = f /\ x = e)
        /\ Active(g, x)' => Active(g, x)
  BY <1>1 DEF Moved, Handles, Active
<1>6. OneDependencyStart'
  BY <1>3, <1>5 DEF OneDependencyStart
<1>7. Handles(f, e)
  BY DEF Handles
<1>8. HandledOnce'
  <2>1. ASSUME NEW g \in Managed, NEW d \in Instance
        PROVE  memo'[g][d] = "running" <=> \E n \in Instance : Handles(g, <<n, d>>)'
    <3>1. CASE g = f /\ d = e[2]
      <4>1. memo'[g][d] # "running"
        BY <1>4, <3>1
      <4>2. ASSUME NEW n \in Instance, Handles(f, <<n, d>>)'
            PROVE  FALSE
        <5>1. <<n, d>> \in Edge /\ <<n, d>>[2] = e[2]
          BY <1>3, <3>1
        <5>2. Handles(f, <<n, d>>) /\ <<n, d>> # e
          BY <1>5, <4>2, <5>1
        <5> QED
          BY <1>7, <5>1, <5>2 DEF HandledOnce
      <4> QED
        BY <3>1, <4>1, <4>2
    <3>2. CASE ~(g = f /\ d = e[2])
      BY <1>2, <1>3, <1>4, <1>5, <3>2 DEF HandledOnce
    <3> QED
      BY <3>1, <3>2
  <2> QED
    BY <1>5, <2>1 DEF HandledOnce
<1>9. Rooted'
  <2>1. ASSUME NEW g \in Managed, NEW x \in Edge, Active(g, x)', x[1] # g
        PROVE  \E m \in Instance : branch'[g][<<m, x[1]>>] = "group"
    <3>1. x[1] \in Instance /\ x[2] \in Instance /\ x = <<x[1], x[2]>>
      BY DEF Edge
    <3>2. Active(g, x)
      BY <1>5, <2>1
    <3>3. PICK m \in Instance : branch[g][<<m, x[1]>>] = "group"
      BY <2>1, <3>2 DEF Rooted
    <3>4. CASE g = f /\ <<m, x[1]>> = e
      <4>1. GroupDone(f, x[1]) /\ x \in Group(x[1])
        BY <1>2, <3>1, <3>2, <3>3, <3>4 DEF Rooted, Group
      <4> QED
        BY <3>2, <3>4, <4>1 DEF GroupDone, Active
    <3>5. CASE ~(g = f /\ <<m, x[1]>> = e)
      BY <1>3, <1>5, <3>1, <3>3, <3>5
    <3> QED
      BY <3>4, <3>5
  <2> QED
    BY <1>5, <2>1, GraphUnchanged DEF Rooted
<1> QED
  BY <1>6, <1>8, <1>9

(* A goroutine whose errgroup has succeeded goes on to the start. *)
LEMMA GroupMove ==
    ASSUME IInv, NEW f \in Managed, NEW e \in Edge,
           branch[f][e] = "group", GroupDone(f, e[2]), Goto(f, e, "ensure"),
           UNCHANGED <<deps, depStarts, flow, memo>>
    PROVE  OneDependencyStart' /\ HandledOnce' /\ Rooted'
<1> USE DEF IInv
<1>1. Moved(f, e, "ensure")
  BY GotoMoves DEF BranchPC
<1>2. e[1] \in Instance /\ e[2] \in Instance /\ e = <<e[1], e[2]>>
  BY DEF Edge
<1>3. \A n, d \in Instance : <<n, d>> \in Edge
  BY DEF Edge
<1>4. \A g \in Managed, x \in Edge :
        /\ branch'[g][x] = "start" <=> branch[g][x] = "start"
        /\ branch'[g][x] = "follow" <=> branch[g][x] = "follow"
        /\ branch'[g][x] = "group" <=> branch[g][x] = "group" /\ ~(g = f /\ x = e)
        /\ Handles(g, x)' <=> Handles(g, x)
        /\ Active(g, x)' <=> Active(g, x)
  BY <1>1 DEF Moved, Handles, Active
<1>5. OneDependencyStart'
  BY <1>3, <1>4 DEF OneDependencyStart
<1>7. HandledOnce'
  BY <1>3, <1>4 DEF HandledOnce
<1>6. Rooted'
  <2>1. ASSUME NEW g \in Managed, NEW x \in Edge, Active(g, x)', x[1] # g
        PROVE  \E m \in Instance : branch'[g][<<m, x[1]>>] = "group"
    <3>1. x[1] \in Instance /\ x[2] \in Instance /\ x = <<x[1], x[2]>>
      BY DEF Edge
    <3>2. Active(g, x)
      BY <1>4, <2>1
    <3>3. PICK m \in Instance : branch[g][<<m, x[1]>>] = "group"
      BY <2>1, <3>2 DEF Rooted
    <3>4. CASE g = f /\ <<m, x[1]>> = e
      <4>1. GroupDone(f, x[1]) /\ x \in Group(x[1])
        BY <1>2, <3>1, <3>2, <3>3, <3>4 DEF Rooted, Group
      <4> QED
        BY <3>2, <3>4, <4>1 DEF GroupDone, Active
    <3>5. CASE ~(g = f /\ <<m, x[1]>> = e)
      BY <1>3, <1>4, <3>1, <3>3, <3>5
    <3> QED
      BY <3>4, <3>5
  <2> QED
    BY <1>4, <2>1, GraphUnchanged DEF Rooted
<1> QED
  BY <1>5, <1>6, <1>7

(* ensureDependencyStarted starts the dependency or follows its start. *)
LEMMA EnsureMove ==
    ASSUME IInv, NEW f \in Managed, NEW e \in Edge, branch[f][e] = "ensure",
           Goto(f, e, IF e[2] \in depStarts THEN "follow" ELSE "start"),
           depStarts' = depStarts \cup {e[2]}, UNCHANGED <<deps, flow, memo>>
    PROVE  OneDependencyStart' /\ HandledOnce' /\ Rooted'
<1> USE DEF IInv
<1> DEFINE pc == IF e[2] \in depStarts THEN "follow" ELSE "start"
<1>1. Moved(f, e, pc)
  BY GotoMoves DEF BranchPC
<1>2. e[1] \in Instance /\ e[2] \in Instance /\ e = <<e[1], e[2]>>
  BY DEF Edge
<1>3. \A n, d \in Instance : <<n, d>> \in Edge
  BY DEF Edge
<1>4. \A g \in Managed, x \in Edge :
        /\ branch'[g][x] = "group" <=> branch[g][x] = "group"
        /\ Handles(g, x)' <=> Handles(g, x)
        /\ Active(g, x)' <=> Active(g, x)
  BY <1>1 DEF Moved, Handles, Active
<1>5. HandledOnce'
  BY <1>3, <1>4 DEF HandledOnce
<1>6. Rooted'
  BY <1>3, <1>4, GraphUnchanged DEF Rooted, Edge
<1>7. CASE e[2] \in depStarts
  <2>1. \A g \in Managed, x \in Edge :
          /\ branch'[g][x] = "start" <=> branch[g][x] = "start"
          /\ branch'[g][x] = "follow" <=> branch[g][x] = "follow" \/ (g = f /\ x = e)
    BY <1>1, <1>7 DEF Moved
  <2>2. depStarts' = depStarts
    BY <1>7
  <2> QED
    BY <1>3, <1>5, <1>6, <1>7, <2>1, <2>2 DEF OneDependencyStart
<1>8. CASE e[2] \notin depStarts
  <2>1. \A g \in Managed, x \in Edge :
          /\ branch'[g][x] = "start" <=> branch[g][x] = "start" \/ (g = f /\ x = e)
          /\ branch'[g][x] = "follow" => branch[g][x] = "follow"
    BY <1>1, <1>8 DEF Moved
  <2>2. \A g \in Managed, x \in Edge : branch[g][x] = "start" => x[2] # e[2]
    <3> SUFFICES ASSUME NEW g \in Managed, NEW x \in Edge, branch[g][x] = "start",
                        x[2] = e[2]
                 PROVE  FALSE
      OBVIOUS
    <3>1. x[1] \in Instance /\ x = <<x[1], e[2]>>
      BY DEF Edge
    <3> QED
      BY <1>2, <1>8, <3>1 DEF OneDependencyStart
  <2>3. \A d \in Instance :
          d \in depStarts' <=> \E g \in Managed, n \in Instance :
                                 branch'[g][<<n, d>>] = "start"
    <3> SUFFICES ASSUME NEW d \in Instance
                 PROVE  d \in depStarts' <=> \E g \in Managed, n \in Instance :
                                               branch'[g][<<n, d>>] = "start"
      OBVIOUS
    <3>1. CASE d = e[2]
      <4>1. branch'[f][<<e[1], d>>] = "start"
        BY <1>2, <2>1, <3>1
      <4> QED
        BY <1>2, <3>1, <4>1
    <3>2. CASE d # e[2]
      <4>1. \A n \in Instance : <<n, d>> # e
        BY <1>2, <3>2
      <4> QED
        BY <1>3, <2>1, <3>2, <4>1 DEF OneDependencyStart
    <3> QED
      BY <3>1, <3>2
  <2>4. \A g \in Managed, x \in Edge : branch'[g][x] = "follow" => x[2] \in depStarts'
    BY <2>1 DEF OneDependencyStart
  <2>5. ASSUME NEW g \in Managed, NEW h \in Managed, NEW x \in Edge, NEW y \in Edge,
               branch'[g][x] = "start", branch'[h][y] = "start", x[2] = y[2]
        PROVE  g = h /\ x = y
    BY <2>1, <2>2, <2>5 DEF OneDependencyStart
  <2>6. OneDependencyStart'
    <3>1. \A g, h \in Managed, x, y \in Edge :
            branch'[g][x] = "start" /\ branch'[h][y] = "start" /\ x[2] = y[2]
                => g = h /\ x = y
      BY <2>5
    <3> HIDE DEF IInv
    <3> QED
      BY <2>3, <2>4, <3>1 DEF OneDependencyStart
  <2> QED
    BY <1>5, <1>6, <2>6
<1> QED
  BY <1>7, <1>8

(* The first to load a node handles it and launches its errgroup. *)
LEMMA LoadMove ==
    ASSUME IInv, NEW f \in Managed, NEW e \in Edge, branch[f][e] = "load",
           memo[f][e[2]] = "none",
           memo' = [memo EXCEPT ![f][e[2]] = "running"],
           branch' = [branch EXCEPT ![f] = [x \in Edge |->
              IF x = e THEN "group" ELSE
              IF x \in Group(e[2]) THEN "inspect" ELSE @[x]]],
           UNCHANGED <<deps, depStarts, flow>>
    PROVE  OneDependencyStart' /\ HandledOnce' /\ Rooted'
<1> USE DEF IInv
<1>1. e[1] \in Instance /\ e[2] \in Instance /\ e = <<e[1], e[2]>>
  BY DEF Edge
<1>2. \A n, d \in Instance : <<n, d>> \in Edge
  BY DEF Edge
<1>3. flow[f] = "group" /\ ~Cyclic(f) /\ e[1] \in Reachable(f) /\ e[2] \in deps[e[1]]
  BY DEF Rooted, Active
<1>4. e[2] # f /\ e[2] \in Reachable(f)
  BY <1>3, RootIsFirst, ReachableClosed
<1>5. \A n \in Instance : ~Handles(f, <<n, e[2]>>)
  BY <1>1 DEF HandledOnce
<1>6. ASSUME NEW x \in Edge, x \in Group(e[2])
      PROVE  ~Active(f, x) /\ x[1] = e[2] /\ x[2] \in deps[e[2]]
  <2>1. x[1] = e[2] /\ x[2] \in deps[e[2]]
    BY <1>6 DEF Group
  <2>2. \A m \in Instance : branch[f][<<m, e[2]>>] # "group"
    BY <1>5 DEF Handles
  <2> QED
    BY <1>4, <2>1, <2>2 DEF Rooted
<1>7. \A g \in Managed, x \in Edge :
        branch'[g][x] = IF g = f /\ x = e THEN "group" ELSE
                        IF g = f /\ x \in Group(e[2]) THEN "inspect"
                        ELSE branch[g][x]
  BY DEF TypeOK
<1>8. \A g \in Managed, x \in Edge :
        /\ branch'[g][x] = "start" <=> branch[g][x] = "start"
        /\ branch'[g][x] = "follow" <=> branch[g][x] = "follow"
        /\ branch'[g][x] = "group" <=> branch[g][x] = "group" \/ (g = f /\ x = e)
        /\ Handles(g, x)' <=> Handles(g, x) \/ (g = f /\ x = e)
        /\ Active(g, x)' => Active(g, x) \/ (g = f /\ x \in Group(e[2]))
  BY <1>6, <1>7 DEF Handles, Active
<1>9. \A g \in Managed, d \in Instance :
        memo'[g][d] = IF g = f /\ d = e[2] THEN "running" ELSE memo[g][d]
  BY <1>1 DEF TypeOK
<1>10. OneDependencyStart'
  BY <1>8, SameStarts
<1>11. HandledOnce'
  <2>1. ASSUME NEW g \in Managed, NEW d \in Instance
        PROVE  memo'[g][d] = "running" <=> \E n \in Instance : Handles(g, <<n, d>>)'
    <3>1. CASE g = f /\ d = e[2]
      <4>1. Handles(g, <<e[1], d>>)'
        BY <1>1, <1>8, <3>1
      <4> QED
        BY <1>1, <1>9, <3>1, <4>1
    <3>2. CASE ~(g = f /\ d = e[2])
      <4>1. \A n \in Instance : Handles(g, <<n, d>>)' <=> Handles(g, <<n, d>>)
        BY <1>1, <1>2, <1>8, <3>2
      <4> QED
        BY <1>9, <3>2, <4>1 DEF HandledOnce
    <3> QED
      BY <3>1, <3>2
  <2>2. ASSUME NEW g \in Managed, NEW x \in Edge, NEW y \in Edge,
               Handles(g, x)', Handles(g, y)', x[2] = y[2]
        PROVE  x = y
    <3>1. x = <<x[1], x[2]>> /\ x[1] \in Instance /\ y = <<y[1], y[2]>> /\ y[1] \in Instance
      BY DEF Edge
    <3>2. CASE g = f /\ x[2] = e[2]
      BY <1>5, <1>8, <2>2, <3>1, <3>2
    <3>3. CASE ~(g = f /\ x[2] = e[2])
      BY <1>8, <2>2, <3>3 DEF HandledOnce
    <3> QED
      BY <3>2, <3>3
  <2>3. \A g \in Managed : \A x, y \in Edge :
          Handles(g, x)' /\ Handles(g, y)' /\ x[2] = y[2] => x = y
    BY <2>2
  <2> HIDE DEF IInv
  <2> QED
    BY <2>1, <2>3 DEF HandledOnce
<1>12. Rooted'
  <2>1. ASSUME NEW g \in Managed, NEW x \in Edge, Active(g, x)'
        PROVE  /\ flow[g] = "group"
               /\ x[1] \in Reachable(g) /\ x[2] \in deps[x[1]]
               /\ x[1] = g \/ \E m \in Instance : branch'[g][<<m, x[1]>>] = "group"
    <3>1. x[1] \in Instance
      BY DEF Edge
    <3>2. CASE Active(g, x)
      BY <1>2, <1>8, <3>1, <3>2 DEF Rooted
    <3>3. CASE g = f /\ x \in Group(e[2])
      <4>1. branch'[f][<<e[1], e[2]>>] = "group"
        BY <1>1, <1>8
      <4> QED
        BY <1>1, <1>3, <1>4, <1>6, <3>3, <4>1
    <3> QED
      BY <1>8, <2>1, <3>2, <3>3
  <2>2. \A g \in Managed : flow'[g] = "group" => ~Cyclic(g)
    BY DEF Rooted
  <2> HIDE DEF IInv
  <2> QED
    BY <2>1, <2>2, StillRooted
<1> QED
  BY <1>10, <1>11, <1>12

(* startWithDependencies launches the errgroup of the root. *)
LEMMA LaunchMove ==
    ASSUME IInv, NEW f \in Managed, flow[f] = "resolve", ~Cyclic(f),
           flow' = [flow EXCEPT ![f] = "group"], Launch(f, f, {}),
           UNCHANGED <<deps, depStarts, memo>>
    PROVE  OneDependencyStart' /\ HandledOnce' /\ Rooted'
<1> USE DEF IInv
<1>1. \A n, d \in Instance : <<n, d>> \in Edge
  BY DEF Edge
<1>2. \A x \in Edge : ~Active(f, x)
  BY DEF Rooted
<1>3. \A g \in Managed, x \in Edge :
        branch'[g][x] = IF g = f /\ x \in Group(f) THEN "inspect" ELSE branch[g][x]
  BY DEF Launch, TypeOK
<1>4. \A g \in Managed, x \in Edge :
        /\ branch'[g][x] = "start" <=> branch[g][x] = "start"
        /\ branch'[g][x] = "follow" <=> branch[g][x] = "follow"
        /\ branch'[g][x] = "group" <=> branch[g][x] = "group"
        /\ Handles(g, x)' <=> Handles(g, x)
        /\ Active(g, x)' => Active(g, x) \/ (g = f /\ x \in Group(f))
  BY <1>2, <1>3 DEF Handles, Active
<1>5. OneDependencyStart'
  BY <1>1, <1>4 DEF OneDependencyStart
<1>6. HandledOnce'
  BY <1>1, <1>4 DEF HandledOnce
<1>7. Rooted'
  <2>1. f \in Reachable(f)
    BY DependencyAssumption DEF Reachable
  <2>2. ASSUME NEW g \in Managed, NEW x \in Edge, Active(g, x)'
        PROVE  /\ flow'[g] = "group"
               /\ x[1] \in Reachable(g) /\ x[2] \in deps[x[1]]
               /\ x[1] = g \/ \E m \in Instance : branch'[g][<<m, x[1]>>] = "group"
    <3>1. CASE g = f
      BY <1>2, <1>4, <2>1, <2>2, <3>1 DEF Group, TypeOK
    <3>2. CASE g # f
      <4>1. x[1] \in Instance /\ Active(g, x) /\ flow'[g] = flow[g]
        BY <1>4, <2>2, <3>2 DEF TypeOK, Edge
      <4> QED
        BY <1>1, <1>4, <3>2, <4>1 DEF Rooted
    <3> QED
      BY <3>1, <3>2
  <2>3. \A g \in Managed : flow'[g] = "group" => ~Cyclic(g)
    BY DEF Rooted, TypeOK
  <2> QED
    BY <2>2, <2>3, StillRooted
<1> QED
  BY <1>5, <1>6, <1>7

(* A flow without goroutines goes on, or ends. *)
LEMMA FlowMove ==
    ASSUME IInv, NEW f \in Managed, \A e \in Edge : ~Active(f, e),
           NEW pc \in {"idle", "resolve", "start"}, flow' = [flow EXCEPT ![f] = pc],
           \A g \in Managed, x \in Edge :
              \/ branch'[g][x] = branch[g][x]
              \/ g = f /\ ~Active(g, x)',
           \A g \in Managed, d \in Instance :
              \/ memo'[g][d] = memo[g][d]
              \/ g = f /\ memo'[g][d] # "running",
           UNCHANGED <<deps, depStarts>>
    PROVE  OneDependencyStart' /\ HandledOnce' /\ Rooted'
<1> USE DEF IInv
<1>1. \A n, d \in Instance : <<n, d>> \in Edge
  BY DEF Edge
<1>2. \A g \in Managed, x \in Edge :
        /\ branch'[g][x] = "start" <=> branch[g][x] = "start"
        /\ branch'[g][x] = "follow" <=> branch[g][x] = "follow"
        /\ branch'[g][x] = "group" <=> branch[g][x] = "group"
        /\ Handles(g, x)' <=> Handles(g, x)
        /\ Active(g, x)' <=> Active(g, x)
  BY DEF Handles, Active
<1>3. \A d \in Instance : memo[f][d] # "running"
  BY <1>1 DEF HandledOnce, Handles, Active
<1>4. \A g \in Managed, d \in Instance : memo'[g][d] = "running" <=> memo[g][d] = "running"
  BY <1>3
<1>5. OneDependencyStart'
  BY <1>1, <1>2 DEF OneDependencyStart
<1>6. HandledOnce'
  BY <1>1, <1>2, <1>4 DEF HandledOnce
<1>7. \A g \in Managed : g # f => flow'[g] = flow[g]
  BY DEF TypeOK
<1>8. flow'[f] # "group"
  BY DEF TypeOK
<1>9. Rooted'
  <2>1. ASSUME NEW g \in Managed, NEW x \in Edge, Active(g, x)'
        PROVE  /\ flow'[g] = "group"
               /\ x[1] \in Reachable(g) /\ x[2] \in deps[x[1]]
               /\ x[1] = g \/ \E m \in Instance : branch'[g][<<m, x[1]>>] = "group"
    <3>1. x[1] \in Instance /\ Active(g, x) /\ g # f
      BY <1>2, <2>1 DEF Edge
    <3> QED
      BY <1>1, <1>2, <1>7, <3>1 DEF Rooted
  <2>2. \A g \in Managed : flow'[g] = "group" => ~Cyclic(g)
    BY <1>7, <1>8 DEF Rooted
  <2> HIDE DEF IInv
  <2> QED
    BY <2>1, <2>2, StillRooted
<1> QED
  BY <1>5, <1>6, <1>9

(* InstanceStart returns, for the flow that called it and its followers. *)
LEMMA StartMove ==
    ASSUME IInv, NEW f \in Managed, NEW e \in Edge, NEW r \in {"ok", "err"},
           branch[f][e] = "start", StartReturns(f, e, r), UNCHANGED <<deps, flow>>
    PROVE  OneDependencyStart' /\ HandledOnce' /\ Rooted'
<1> USE DEF IInv
<1> DEFINE In(g, x) == (g = f /\ x = e) \/ (x[2] = e[2] /\ branch[g][x] = "follow")
<1>1. e[1] \in Instance /\ e[2] \in Instance /\ e = <<e[1], e[2]>>
  BY DEF Edge
<1>2. \A n, d \in Instance : <<n, d>> \in Edge
  BY DEF Edge
<1>3. depStarts' = depStarts \ {e[2]}
  BY DEF StartReturns
<1>4. \A g \in Managed, x \in Edge :
        branch'[g][x] = IF In(g, x) THEN IF r = "ok" THEN "poll" ELSE "err"
                        ELSE branch[g][x]
  BY DEF StartReturns
<1>5. \A g \in Managed, d \in Instance :
        memo'[g][d] = IF d = e[2] /\ \E y \in Edge : In(g, y) THEN r ELSE memo[g][d]
  BY DEF StartReturns
<1>6. \A g \in Managed, x \in Edge :
        /\ branch'[g][x] = "start" <=> branch[g][x] = "start" /\ x[2] # e[2]
        /\ branch'[g][x] = "follow" <=> branch[g][x] = "follow" /\ x[2] # e[2]
        /\ branch'[g][x] = "group" <=> branch[g][x] = "group"
        /\ In(g, x) => Handles(g, x) /\ x[2] = e[2]
        /\ Handles(g, x)' <=> Handles(g, x) /\ ~In(g, x)
        /\ Active(g, x)' => Active(g, x)
  <2>1. \A g \in Managed, x \in Edge :
          branch[g][x] = "start" /\ x[2] = e[2] => g = f /\ x = e
    BY DEF OneDependencyStart
  <2> QED
    BY <1>4, <2>1 DEF Handles, Active
<1> HIDE DEF In
<1>7. OneDependencyStart'
  <2>1. \A d \in Instance :
          d \in depStarts' <=> \E g \in Managed, n \in Instance :
                                 branch'[g][<<n, d>>] = "start"
    <3> SUFFICES ASSUME NEW d \in Instance
                 PROVE  d \in depStarts' <=> \E g \in Managed, n \in Instance :
                                               branch'[g][<<n, d>>] = "start"
      OBVIOUS
    <3>1. \A g \in Managed, n \in Instance :
            branch'[g][<<n, d>>] = "start" <=> branch[g][<<n, d>>] = "start" /\ d # e[2]
      BY <1>2, <1>6
    <3>2. d \in depStarts <=> \E g \in Managed, n \in Instance :
                                branch[g][<<n, d>>] = "start"
      BY DEF OneDependencyStart
    <3> HIDE DEF IInv
    <3> QED
      BY <1>3, <3>1, <3>2
  <2>2. \A g \in Managed, x \in Edge : branch'[g][x] = "follow" => x[2] \in depStarts'
    BY <1>3, <1>6 DEF OneDependencyStart
  <2>3. \A g, h \in Managed, x, y \in Edge :
          branch'[g][x] = "start" /\ branch'[h][y] = "start" /\ x[2] = y[2]
              => g = h /\ x = y
    BY <1>6 DEF OneDependencyStart
  <2> HIDE DEF IInv
  <2> QED
    BY <2>1, <2>2, <2>3 DEF OneDependencyStart
<1>8. HandledOnce'
  <2>1. ASSUME NEW g \in Managed, NEW d \in Instance
        PROVE  memo'[g][d] = "running" <=> \E n \in Instance : Handles(g, <<n, d>>)'
    <3>1. CASE d = e[2] /\ \E y \in Edge : In(g, y)
      <4>1. PICK y \in Edge : In(g, y)
        BY <3>1
      <4>2. memo'[g][d] # "running"
        BY <1>5, <3>1
      <4>3. ASSUME NEW n \in Instance, Handles(g, <<n, d>>)'
            PROVE  FALSE
        <5>1. <<n, d>> \in Edge /\ <<n, d>>[2] = y[2]
          BY <1>2, <1>6, <3>1, <4>1
        <5>2. Handles(g, <<n, d>>) /\ ~In(g, <<n, d>>) /\ Handles(g, y)
          BY <1>6, <4>1, <4>3, <5>1
        <5>3. <<n, d>> = y
          BY <5>1, <5>2 DEF HandledOnce
        <5> QED
          BY <4>1, <5>2, <5>3
      <4> QED
        BY <4>2, <4>3
    <3>2. CASE ~(d = e[2] /\ \E y \in Edge : In(g, y))
      <4>1. memo'[g][d] = memo[g][d]
        BY <1>5, <3>2
      <4>2. \A n \in Instance : Handles(g, <<n, d>>)' <=> Handles(g, <<n, d>>)
        BY <1>2, <1>6, <3>2
      <4> QED
        BY <4>1, <4>2 DEF HandledOnce
    <3> QED
      BY <3>1, <3>2
  <2>2. \A g \in Managed : \A x, y \in Edge :
          Handles(g, x)' /\ Handles(g, y)' /\ x[2] = y[2] => x = y
    BY <1>6 DEF HandledOnce
  <2> HIDE DEF IInv
  <2> QED
    BY <2>1, <2>2 DEF HandledOnce
<1>9. Rooted'
  <2>1. ASSUME NEW g \in Managed, NEW x \in Edge, Active(g, x)'
        PROVE  /\ flow'[g] = "group"
               /\ x[1] \in Reachable(g) /\ x[2] \in deps[x[1]]
               /\ x[1] = g \/ \E m \in Instance : branch'[g][<<m, x[1]>>] = "group"
    <3>1. x[1] \in Instance /\ Active(g, x)
      BY <1>6, <2>1 DEF Edge
    <3>2. \A m \in Instance :
            branch'[g][<<m, x[1]>>] = "group" <=> branch[g][<<m, x[1]>>] = "group"
      BY <1>2, <1>6, <3>1
    <3> QED
      BY <3>1, <3>2 DEF Rooted
  <2>2. \A g \in Managed : flow'[g] = "group" => ~Cyclic(g)
    BY DEF Rooted
  <2> HIDE DEF IInv
  <2> QED
    BY <2>1, <2>2, StillRooted
<1> QED
  BY <1>7, <1>8, <1>9

-----------------------------------------------------------------------------
(* Types. *)

LEMMA NestedUpdate ==
    ASSUME NEW T, NEW m \in [Managed -> [Instance -> T]], NEW f \in Managed,
           NEW d \in Instance, NEW v \in T
    PROVE  [m EXCEPT ![f][d] = v] \in [Managed -> [Instance -> T]]
OBVIOUS

LEMMA RowUpdate ==
    ASSUME TypeOK, NEW f \in Managed, NEW row \in [Edge -> BranchPC],
           branch' = [branch EXCEPT ![f] = row]
    PROVE  branch' \in [Managed -> [Edge -> BranchPC]]
BY DEF TypeOK

LEMMA FinishTypes ==
    ASSUME TypeOK, NEW f \in Managed, NEW r \in {"none", "failed"}, Finish(f, r),
           status' \in [Instance -> Status], UNCHANGED <<deps, depStarts>>
    PROVE  TypeOK'
<1> USE DEF TypeOK, Finish
<1>1. branch' \in [Managed -> [Edge -> BranchPC]]
  BY DEF BranchPC
<1>2. memo' \in [Managed -> [Instance -> {"none", "running", "ok", "err"}]]
  OBVIOUS
<1>3. above' \in [Managed -> [Instance -> SUBSET Instance]]
  OBVIOUS
<1> QED
  BY <1>1, <1>2, <1>3

LEMMA StartedType ==
    ASSUME TypeOK, NEW i \in Instance
    PROVE  Started(i) \in [Instance -> Status]
BY DEF TypeOK, Started, Status

LEMMA FlowTypes ==
    ASSUME TypeOK, NEW f \in Managed, FlowStep(f)
    PROVE  TypeOK'
<1> USE DependencyAssumption
<1>1. f \in Instance
  OBVIOUS
<1>2. CASE Resolve(f)
  <2>1. above' \in [Managed -> [Instance -> SUBSET Instance]]
    <3>1. {} \cup {f} \in SUBSET Instance
      BY <1>1
    <3>2. [above EXCEPT ![f][f] = {} \cup {f}]
            \in [Managed -> [Instance -> SUBSET Instance]]
      BY <1>1, <3>1, NestedUpdate DEF TypeOK
    <3> QED
      BY <1>2, <3>2 DEF Resolve, Launch, TypeOK
  <2>2. branch' \in [Managed -> [Edge -> BranchPC]]
    <3> DEFINE row == [e \in Edge |-> IF e \in Group(f) THEN "inspect"
                                      ELSE branch[f][e]]
    <3>1. row \in [Edge -> BranchPC]
      BY DEF TypeOK, BranchPC
    <3>2. UNCHANGED branch \/ branch' = [branch EXCEPT ![f] = row]
      BY <1>2 DEF Resolve, Launch, TypeOK
    <3> QED
      BY <3>1, <3>2, RowUpdate DEF TypeOK
  <2>3. flow' \in [Managed -> {"idle", "resolve", "group", "start"}]
    BY <1>2 DEF Resolve, TypeOK
  <2> QED
    BY <1>2, <2>1, <2>2, <2>3 DEF Resolve, TypeOK
<1>3. CASE ResolveFails(f)
  BY <1>3, FinishTypes DEF ResolveFails, TypeOK
<1>4. CASE DependenciesDone(f)
  <2>1. CASE GroupFailed(f, f)
    BY <1>4, <2>1, FinishTypes DEF DependenciesDone, TypeOK
  <2>2. CASE ~GroupFailed(f, f)
    BY <1>4, <2>2 DEF DependenciesDone, TypeOK
  <2> QED
    BY <2>1, <2>2
<1>5. CASE StartRoot(f)
  <2>1. status' \in [Instance -> Status]
    BY <1>1, <1>5, StartedType DEF StartRoot, TypeOK
  <2> QED
    BY <1>5, <2>1, FinishTypes DEF StartRoot
<1> QED
  BY <1>2, <1>3, <1>4, <1>5 DEF FlowStep

LEMMA BranchTypes ==
    ASSUME TypeOK, NEW f \in Managed, NEW e \in Edge, BranchStep(f, e)
    PROVE  TypeOK'
<1>1. e[1] \in Instance /\ e[2] \in Instance
  BY DEF Edge
<1>2. \A pc \in BranchPC : Goto(f, e, pc) => branch' \in [Managed -> [Edge -> BranchPC]]
  BY GotoMoves
<1>3. \A r \in {"ok", "err"} : NodeDone(f, e, r) =>
        /\ branch' \in [Managed -> [Edge -> BranchPC]]
        /\ memo' \in [Managed -> [Instance -> {"none", "running", "ok", "err"}]]
  BY <1>1, <1>2 DEF NodeDone, TypeOK, BranchPC
<1>4. CASE InspectDependency(f, e) \/ JoinNode(f, e) \/ PollCondition(f, e)
  <2>1. branch' \in [Managed -> [Edge -> BranchPC]]
    BY <1>2, <1>4 DEF InspectDependency, JoinNode, PollCondition, BranchPC
  <2> QED
    BY <1>4, <2>1 DEF InspectDependency, JoinNode, PollCondition, TypeOK
<1>5. CASE LoadMemo(f, e)
  <2>1. CASE memo[f][e[2]] = "none"
    <3>1. memo' \in [Managed -> [Instance -> {"none", "running", "ok", "err"}]]
      <4>1. memo' = [memo EXCEPT ![f][e[2]] = "running"]
        BY <1>5, <2>1 DEF LoadMemo
      <4> QED
        BY <1>1, <4>1, NestedUpdate DEF TypeOK
    <3>2. above' \in [Managed -> [Instance -> SUBSET Instance]]
      <4>1. above' = [above EXCEPT ![f][e[2]] = above[f][e[1]] \cup {e[2]}]
        BY <1>5, <2>1 DEF LoadMemo
      <4>2. above[f][e[1]] \cup {e[2]} \in SUBSET Instance
        BY <1>1 DEF TypeOK
      <4> QED
        BY <1>1, <4>1, <4>2, NestedUpdate DEF TypeOK
    <3>3. branch' \in [Managed -> [Edge -> BranchPC]]
      <4> DEFINE row == [x \in Edge |-> IF x = e THEN "group" ELSE
                            IF x \in Group(e[2]) THEN "inspect" ELSE branch[f][x]]
      <4>1. row \in [Edge -> BranchPC]
        BY DEF TypeOK, BranchPC
      <4>2. branch' = [branch EXCEPT ![f] = row]
        BY <1>5, <2>1 DEF LoadMemo, TypeOK
      <4> QED
        BY <4>1, <4>2, RowUpdate
    <3> QED
      BY <1>5, <3>1, <3>2, <3>3 DEF LoadMemo, TypeOK
  <2>2. CASE memo[f][e[2]] # "none"
    <3>1. branch' \in [Managed -> [Edge -> BranchPC]]
      BY <1>2, <1>5, <2>2 DEF LoadMemo, BranchPC
    <3> QED
      BY <1>5, <2>2, <3>1 DEF LoadMemo, TypeOK
  <2> QED
    BY <2>1, <2>2
<1>6. CASE WaitGroup(f, e)
  <2>1. branch' \in [Managed -> [Edge -> BranchPC]]
    BY <1>2, <1>3, <1>6 DEF WaitGroup, BranchPC
  <2>2. memo' \in [Managed -> [Instance -> {"none", "running", "ok", "err"}]]
    BY <1>3, <1>6 DEF WaitGroup, TypeOK
  <2> QED
    BY <1>6, <2>1, <2>2 DEF WaitGroup, TypeOK
<1>7. CASE EnsureStarted(f, e)
  <2>1. branch' \in [Managed -> [Edge -> BranchPC]]
    BY <1>2, <1>3, <1>7 DEF EnsureStarted, BranchPC
  <2>2. memo' \in [Managed -> [Instance -> {"none", "running", "ok", "err"}]]
    BY <1>3, <1>7 DEF EnsureStarted, TypeOK
  <2>3. depStarts' \subseteq Instance
    BY <1>1, <1>7 DEF EnsureStarted, TypeOK
  <2> QED
    BY <1>7, <2>1, <2>2, <2>3 DEF EnsureStarted, TypeOK
<1>8. CASE FollowCancelled(f, e)
  BY <1>3, <1>8 DEF FollowCancelled, TypeOK
<1>9. CASE StartDependency(f, e)
  <2>1. PICK r \in {"ok", "err"} : StartReturns(f, e, r)
    BY <1>9 DEF StartDependency
  <2>2. branch' \in [Managed -> [Edge -> BranchPC]]
    BY <2>1 DEF StartReturns, TypeOK, BranchPC
  <2>3. memo' \in [Managed -> [Instance -> {"none", "running", "ok", "err"}]]
    BY <2>1 DEF StartReturns, TypeOK
  <2>4. depStarts' \subseteq Instance
    BY <2>1 DEF StartReturns, TypeOK
  <2>5. status' \in [Instance -> Status]
    BY <1>1, <1>9, StartedType DEF StartDependency, TypeOK
  <2> QED
    BY <1>9, <2>2, <2>3, <2>4, <2>5 DEF StartDependency, TypeOK
<1> QED
  BY <1>4, <1>5, <1>6, <1>7, <1>8, <1>9 DEF BranchStep

-----------------------------------------------------------------------------
(* The invariant. *)

LEMMA InvInit == Init => IInv
<1> SUFFICES ASSUME Init PROVE IInv
  OBVIOUS
<1> USE DEF Init
<1>1. TypeOK
  BY DEF TypeOK, Status, BranchPC
<1>2. \A f \in Managed, e \in Edge : branch[f][e] = "off"
  OBVIOUS
<1>3. \A n, d \in Instance : <<n, d>> \in Edge
  BY DEF Edge
<1>4. OneDependencyStart
  BY <1>2, <1>3 DEF OneDependencyStart
<1>5. HandledOnce
  BY <1>2, <1>3 DEF HandledOnce, Handles
<1>6. Rooted
  BY <1>2 DEF Rooted, Active
<1> QED
  BY <1>1, <1>4, <1>5, <1>6 DEF IInv

LEMMA FlowKeeps ==
    ASSUME IInv, NEW f \in Managed, FlowStep(f)
    PROVE  IInv'
<1>1. TypeOK /\ TypeOK'
  BY FlowTypes DEF IInv
<1>2. ASSUME \A e \in Edge : ~Active(f, e), NEW r, Finish(f, r),
             UNCHANGED <<deps, depStarts>>
      PROVE  OneDependencyStart' /\ HandledOnce' /\ Rooted'
  <2>1. \A g \in Managed, x \in Edge :
          \/ branch'[g][x] = branch[g][x]
          \/ g = f /\ ~Active(g, x)'
    BY <1>1, <1>2 DEF Finish, TypeOK, Active
  <2>2. \A g \in Managed, d \in Instance :
          \/ memo'[g][d] = memo[g][d]
          \/ g = f /\ memo'[g][d] # "running"
    BY <1>1, <1>2 DEF Finish, TypeOK
  <2>3. flow' = [flow EXCEPT ![f] = "idle"]
    BY <1>2 DEF Finish
  <2> QED
    BY <1>2, <2>1, <2>2, <2>3, FlowMove
<1>3. flow[f] # "group" => \A e \in Edge : ~Active(f, e)
  BY DEF IInv, Rooted
<1>4. CASE Resolve(f)
  <2>1. CASE Cyclic(f) \/ deps[f] = {}
    BY <1>3, <1>4, <2>1, FlowMove, <1>1 DEF Resolve, IInv
  <2>2. CASE ~(Cyclic(f) \/ deps[f] = {})
    BY <1>4, <2>2, LaunchMove, <1>1 DEF Resolve, IInv
  <2> QED
    BY <2>1, <2>2
<1>5. CASE ResolveFails(f)
  BY <1>1, <1>2, <1>3, <1>5 DEF ResolveFails, IInv
<1>6. CASE DependenciesDone(f)
  <2>1. \A e \in Edge : ~Active(f, e)
    BY <1>6, WaitIsEnough DEF DependenciesDone
  <2>2. CASE GroupFailed(f, f)
    BY <1>1, <1>2, <1>6, <2>1, <2>2 DEF DependenciesDone, IInv
  <2>3. CASE ~GroupFailed(f, f)
    BY <1>1, <1>6, <2>1, <2>3, FlowMove DEF DependenciesDone, IInv
  <2> QED
    BY <2>2, <2>3
<1>7. CASE StartRoot(f)
  BY <1>1, <1>2, <1>3, <1>7 DEF StartRoot, IInv
<1> QED
  BY <1>4, <1>5, <1>6, <1>7 DEF FlowStep

LEMMA BranchKeeps ==
    ASSUME IInv, NEW f \in Managed, NEW e \in Edge, BranchStep(f, e)
    PROVE  IInv'
<1>1. TypeOK /\ TypeOK'
  BY BranchTypes DEF IInv
<1> SUFFICES OneDependencyStart' /\ HandledOnce' /\ Rooted'
  BY <1>1 DEF IInv
<1>2. CASE InspectDependency(f, e)
  BY <1>2, PlainMove DEF InspectDependency, BranchPC
<1>3. CASE LoadMemo(f, e)
  <2>1. CASE memo[f][e[2]] = "none"
    BY <1>3, <2>1, LoadMove DEF LoadMemo
  <2>2. CASE memo[f][e[2]] # "none"
    BY <1>3, <2>2, PlainMove DEF LoadMemo, BranchPC
  <2> QED
    BY <2>1, <2>2
<1>4. CASE JoinNode(f, e)
  BY <1>4, PlainMove DEF JoinNode, BranchPC
<1>5. CASE WaitGroup(f, e)
  <2>1. CASE GroupFailed(f, e[2])
    BY <1>5, <2>1, NodeDoneMove DEF WaitGroup
  <2>2. CASE ~GroupFailed(f, e[2])
    BY <1>5, <2>2, GroupMove DEF WaitGroup
  <2> QED
    BY <2>1, <2>2
<1>6. CASE EnsureStarted(f, e)
  <2>1. CASE NodeDone(f, e, "ok") /\ UNCHANGED depStarts
    BY <1>6, <2>1, NodeDoneMove DEF EnsureStarted
  <2>2. CASE /\ Goto(f, e, IF e[2] \in depStarts THEN "follow" ELSE "start")
             /\ depStarts' = depStarts \cup {e[2]}
             /\ UNCHANGED memo
    BY <1>6, <2>2, EnsureMove DEF EnsureStarted
  <2> QED
    BY <1>6, <2>1, <2>2 DEF EnsureStarted
<1>7. CASE FollowCancelled(f, e)
  BY <1>7, NodeDoneMove DEF FollowCancelled
<1>8. CASE StartDependency(f, e)
  BY <1>8, StartMove DEF StartDependency
<1>9. CASE PollCondition(f, e)
  BY <1>9, PlainMove DEF PollCondition, BranchPC
<1> QED
  BY <1>2, <1>3, <1>4, <1>5, <1>6, <1>7, <1>8, <1>9 DEF BranchStep

(* The memo invariant is about memo and branch. *)
LEMMA SameMemo ==
    ASSUME HandledOnce, UNCHANGED <<memo, branch>>
    PROVE  HandledOnce'
<1>1. \A f, e : Handles(f, e)' <=> Handles(f, e)
  BY DEF Handles
<1> QED
  BY <1>1 DEF HandledOnce

(* Steps of requests and of the environment move no goroutine. *)
LEMMA OthersKeep ==
    ASSUME IInv,
           \/ \E f \in Managed : RequestStart(f) \/ CollectError(f) \/ Timeout(f)
           \/ \E i \in Instance : Settle(i) \/ StopInstance(i)
           \/ UNCHANGED vars
    PROVE  IInv'
<1>1. TypeOK'
  BY DEF IInv, TypeOK, RequestStart, CollectError, Timeout, Settle, StopInstance,
         Status, vars, flowVars
<1>2. CASE \E f \in Managed : RequestStart(f)
  <2>1. PICK f \in Managed : RequestStart(f)
    BY <1>2
  <2>2. \A e \in Edge : ~Active(f, e)
    BY <2>1 DEF IInv, Rooted, RequestStart
  <2> QED
    BY <1>1, <2>1, <2>2, FlowMove DEF RequestStart, IInv
<1>3. CASE ~\E f \in Managed : RequestStart(f)
  <2>1. UNCHANGED <<deps, depStarts, flow, memo, branch>>
    BY <1>3 DEF CollectError, Timeout, Settle, StopInstance, vars, flowVars
  <2>2. OneDependencyStart'
    BY <2>1, SameStarts DEF IInv
  <2>3. HandledOnce'
    BY <2>1, SameMemo DEF IInv
  <2>4. Rooted'
    BY <2>1, GraphUnchanged DEF IInv, Rooted, Active
  <2> QED
    BY <1>1, <2>2, <2>3, <2>4 DEF IInv
<1> QED
  BY <1>2, <1>3

(* The invariant holds in every reachable state. *)
THEOREM Invariance == SafetySpec => []IInv
<1>1. IInv /\ [Next]_vars => IInv'
  BY FlowKeeps, BranchKeeps, OthersKeep DEF Next
<1> QED
  BY <1>1, InvInit, PTL DEF SafetySpec

(* The variables keep their types, for any graphs and faults. *)
THEOREM TypeCorrect == SafetySpec => []TypeOK
  BY Invariance, PTL DEF IInv

(* ensureDependencyStarted: whatever the graphs, and however many flows    *)
(* share a dependency, one InstanceStart of it is in flight at most, and   *)
(* nobody follows a start that is over.                                    *)
THEOREM SingleDependencyStart == SafetySpec => []OneDependencyStart
  BY Invariance, PTL DEF IInv

(* The memo: in a flow a node is handled by one goroutine at a time, and   *)
(* who joins a node that is marked as running joins a goroutine.           *)
THEOREM MemoIsKept == SafetySpec => []HandledOnce
  BY Invariance, PTL DEF IInv

(* errgroup.Wait of the root waits for every goroutine of the flow: this   *)
(* is where the absence of cycles is needed.                               *)
THEOREM NothingLeftBehind == SafetySpec => []NoStragglers
<1>1. IInv => NoStragglers
  BY DEF IInv, Rooted, NoStragglers
<1> QED
  BY <1>1, Invariance, PTL

-----------------------------------------------------------------------------
(* Dependencies first. *)

(* No dependency is a one-shot that someone waits for in a state it leaves *)
(* again: a one-shot that is running completes, and one that completed may *)
(* be run again by a flow that inspected it before.                        *)
Lasting ==
    \A e \in Edge : e[2] \in deps[e[1]] /\ e[2] \in OneShot =>
        Condition[e] \notin {"service_running_or_healthy",
                             "service_completed_successfully"}

Calm == Faults[deps] \cap {"boot", "stop"} = {} /\ Lasting

(* How instances live where nothing fails or is stopped. *)
Life ==
    \A i \in Instance :
        /\ status[i] # "error"
        /\ status[i] = "completed" => i \in OneShot
        /\ status[i] = "ready" => i \notin OneShot

Begins(f, e) == branch[f][e] \in {"ensure", "follow", "start"}

(* A goroutine that has succeeded found its dependency in order, and the   *)
(* start of a node comes after the success of all its goroutines.          *)
Ordered ==
    /\ \A f \in Managed, e \in Edge :
          /\ branch[f][e] = "ok" /\ e[2] \in deps[e[1]] => Satisfied(e)
          /\ Begins(f, e) => \A x \in Group(e[2]) : branch[f][x] = "ok"
    /\ \A f \in Managed : flow[f] = "start" =>
          (\A x \in Group(f) : branch[f][x] = "ok") \/ Cyclic(f)
    /\ \A n \in Instance : Up(n) => (\A e \in Group(n) : Satisfied(e)) \/ Cyclic(n)

OrderInv == Calm => Life /\ Ordered

(* What a step may do to the instances where all is calm. *)
StatusStep ==
    \/ status' = status
    \/ \E i \in Instance : status' = Started(i)
    \/ \E i \in Instance :
          /\ status[i] = "starting"
          /\ status' = [status EXCEPT ![i] = IF i \in OneShot THEN "completed" ELSE "ready"]

(* A condition that holds, holds on. *)
LEMMA StatusKeeps ==
    ASSUME TypeOK, Life, Lasting, StatusStep, UNCHANGED deps
    PROVE  /\ Life'
           /\ \A e \in Edge : e[2] \in deps[e[1]] /\ Satisfied(e) => Satisfied(e)'
<1>1. status \in [Instance -> Status]
  BY DEF TypeOK
<1>2. ASSUME NEW i \in Instance
      PROVE  \/ status'[i] = status[i]
             \/ status[i] = "stopped" /\ status'[i] = "starting"
             \/ i \in OneShot /\ status[i] = "completed" /\ status'[i] = "starting"
             \/ i \in OneShot /\ status[i] = "starting" /\ status'[i] = "completed"
             \/ i \notin OneShot /\ status[i] = "starting" /\ status'[i] = "ready"
  <2>1. status[i] \in Status /\ status[i] # "error"
        /\ (status[i] = "completed" => i \in OneShot)
    BY <1>1 DEF Life
  <2>2. CASE \E j \in Instance : status' = Started(j)
    <3>1. PICK j \in Instance : status' = Started(j)
      BY <2>2
    <3>2. status'[i] = IF i = j THEN IF status[i] \in {"starting", "ready"} THEN status[i]
                                     ELSE "starting"
                       ELSE status[i]
      BY <1>1, <3>1 DEF Started
    <3> QED
      BY <2>1, <3>2 DEF Status
  <2>3. CASE \E j \in Instance :
          /\ status[j] = "starting"
          /\ status' = [status EXCEPT ![j] = IF j \in OneShot THEN "completed" ELSE "ready"]
    BY <1>1, <2>3
  <2> QED
    BY <2>2, <2>3 DEF StatusStep
<1>3. Life'
  BY <1>2 DEF Life
<1>4. ASSUME NEW e \in Edge, e[2] \in deps[e[1]], Satisfied(e)
      PROVE  Satisfied(e)'
  <2>1. e[2] \in Instance
    BY DEF Edge
  <2> DEFINE d == e[2]
             cond == Condition[e]
  <2>2. d \in OneShot => cond \notin {"service_running_or_healthy",
                                      "service_completed_successfully"}
    BY <1>4 DEF Lasting
  <2>3. ConditionSatisfied(status[d], cond)
    BY <1>4 DEF Satisfied
  <2>4. d \in OneShot => status[d] # "ready"
    BY <2>1 DEF Life
  <2>5. ConditionSatisfied(status'[d], cond)
    BY <1>2, <2>1, <2>2, <2>3, <2>4 DEF ConditionSatisfied
  <2> QED
    BY <2>5 DEF Satisfied
<1> QED
  BY <1>3, <1>4

(* Where a step finds the order kept, in terms of the state before. *)
LEMMA OrderKept ==
    ASSUME TypeOK, Lasting, Life, Ordered, StatusStep, UNCHANGED deps,
           \A g \in Managed, x \in Edge :
              /\ branch'[g][x] = "ok" => branch[g][x] = "ok" \/ Satisfied(x)
              /\ Begins(g, x)' => \A y \in Group(x[2]) : branch'[g][y] = "ok",
           \A g \in Managed : flow'[g] = "start" =>
              (\A y \in Group(g) : branch'[g][y] = "ok") \/ Cyclic(g),
           \A n \in Instance :
              Up(n)' => Up(n) \/ (\A x \in Group(n) : Satisfied(x)) \/ Cyclic(n)
    PROVE  Life' /\ Ordered'
<1>1. Life' /\ \A e \in Edge : e[2] \in deps[e[1]] /\ Satisfied(e) => Satisfied(e)'
  BY StatusKeeps
<1>2. ASSUME NEW n \in Instance, NEW x \in Group(n)
      PROVE  x \in Edge /\ x[2] \in deps[x[1]]
  BY DependencyAssumption DEF Group, Edge, TypeOK
<1>3. ASSUME NEW g \in Managed, NEW x \in Edge
      PROVE  /\ branch'[g][x] = "ok" /\ x[2] \in deps[x[1]] => Satisfied(x)'
             /\ Begins(g, x)' => \A y \in Group(x[2]) : branch'[g][y] = "ok"
  BY <1>1 DEF Ordered
<1>4. ASSUME NEW n \in Instance, Up(n)', ~Cyclic(n)
      PROVE  \A x \in Group(n) : Satisfied(x)'
  BY <1>1, <1>2, <1>4 DEF Ordered
<1> QED
  BY <1>1, <1>3, <1>4, GraphUnchanged DEF Ordered

(* A goroutine that has not succeeded moves on. *)
LEMMA MoveKeepsOrder ==
    ASSUME TypeOK, Lasting, Life, Ordered, NEW f \in Managed, NEW e \in Edge,
           NEW pc, Moved(f, e, pc), branch[f][e] # "ok",
           pc = "ok" => Satisfied(e),
           pc \in {"ensure", "follow", "start"} =>
              \A y \in Group(e[2]) : branch[f][y] = "ok",
           UNCHANGED <<status, deps, flow>>
    PROVE  Life' /\ Ordered'
<1>1. \A n \in Instance : Group(n) \subseteq Edge
  BY DependencyAssumption DEF Group, Edge, TypeOK
<1>2. \A g \in Managed, y \in Edge : branch[g][y] = "ok" => branch'[g][y] = "ok"
  BY DEF Moved
<1>3. \A x \in Edge : x[2] \in Instance
  BY DEF Edge
<1>4. ASSUME NEW g \in Managed, NEW x \in Edge
      PROVE  /\ branch'[g][x] = "ok" => branch[g][x] = "ok" \/ Satisfied(x)
             /\ Begins(g, x)' => \A y \in Group(x[2]) : branch'[g][y] = "ok"
  <2>1. Begins(g, x)' => \A y \in Group(x[2]) : branch[g][y] = "ok"
    BY DEF Moved, Begins, Ordered
  <2> QED
    BY <1>1, <1>2, <1>3, <2>1 DEF Moved
<1>5. ASSUME NEW g \in Managed, flow'[g] = "start"
      PROVE  (\A y \in Group(g) : branch'[g][y] = "ok") \/ Cyclic(g)
  BY <1>1, <1>2, <1>5, DependencyAssumption DEF Ordered
<1>6. \A n \in Instance : Up(n)' => Up(n)
  BY DEF Up
<1> QED
  BY <1>4, <1>5, <1>6, OrderKept DEF StatusStep

(* A flow without goroutines goes on, or ends. *)
LEMMA FlowKeepsOrder ==
    ASSUME IInv, Lasting, Life, Ordered, NEW f \in Managed, FlowStep(f)
    PROVE  Life' /\ Ordered'
<1>1. TypeOK /\ f \in Instance
  BY DependencyAssumption DEF IInv
<1>2. ASSUME NEW g \in Managed, NEW x \in Edge, Begins(g, x)
      PROVE  Active(g, x) /\ flow[g] = "group"
             /\ \A y \in Group(x[2]) : branch[g][y] = "ok"
  BY <1>2 DEF IInv, Rooted, Begins, Active, Ordered
<1>3. ASSUME NEW x, \E n \in Instance : x \in Group(n)
      PROVE  x \in Edge
  BY <1>1, <1>3, DependencyAssumption DEF Group, Edge, TypeOK
<1>4. UNCHANGED deps /\ StatusStep
  BY <1>1 DEF FlowStep, Resolve, ResolveFails, DependenciesDone, StartRoot, StatusStep
<1>5. ASSUME NEW n \in Instance, Up(n)', ~Up(n)
      PROVE  n = f /\ flow[f] = "start"
  BY <1>1, <1>5 DEF FlowStep, Resolve, ResolveFails, DependenciesDone, StartRoot, Up,
     Started, TypeOK
<1>6. ASSUME NEW n \in Instance, Up(n)'
      PROVE  Up(n) \/ (\A x \in Group(n) : Satisfied(x)) \/ Cyclic(n)
  <2>1. CASE ~Up(n) /\ ~Cyclic(n)
    <3>1. n = f /\ \A x \in Group(f) : branch[f][x] = "ok"
      BY <1>5, <1>6, <2>1 DEF Ordered
    <3>2. ASSUME NEW x \in Group(f) PROVE Satisfied(x)
      <4>1. x \in Edge /\ x[2] \in deps[x[1]]
        BY <1>1, <1>3 DEF Group
      <4> QED
        BY <3>1, <4>1 DEF Ordered
    <3> QED
      BY <3>1, <3>2
  <2> QED
    BY <2>1
<1>7. ASSUME NEW r, Finish(f, r) PROVE Life' /\ Ordered'
  <2>1. \A e \in Edge : ~Active(f, e)
    BY WaitIsEnough DEF IInv, Rooted, FlowStep, Resolve, ResolveFails, DependenciesDone, StartRoot
  <2>2. \A g \in Managed, x \in Edge :
          /\ g # f => branch'[g][x] = branch[g][x]
          /\ branch'[f][x] = IF branch[f][x] \in {"ok", "err"} THEN "off" ELSE branch[f][x]
    BY <1>1, <1>7 DEF Finish, TypeOK
  <2>3. \A g \in Managed : flow'[g] = IF g = f THEN "idle" ELSE flow[g]
    BY <1>1, <1>7 DEF Finish, TypeOK
  <2>4. ASSUME NEW g \in Managed, NEW x \in Edge
        PROVE  /\ branch'[g][x] = "ok" => branch[g][x] = "ok" \/ Satisfied(x)
               /\ Begins(g, x)' => \A y \in Group(x[2]) : branch'[g][y] = "ok"
    <3>1. Begins(g, x)' => Begins(g, x) /\ g # f
      BY <2>1, <2>2 DEF Begins, Active
    <3>2. x[2] \in Instance
      BY DEF Edge
    <3> QED
      BY <1>2, <1>3, <2>2, <3>1, <3>2
  <2>5. ASSUME NEW g \in Managed, flow'[g] = "start"
        PROVE  (\A y \in Group(g) : branch'[g][y] = "ok") \/ Cyclic(g)
    <3>1. g # f /\ g \in Instance /\ flow[g] = "start"
      BY <2>3, <2>5, DependencyAssumption
    <3> QED
      BY <1>3, <2>2, <3>1 DEF Ordered
  <2> QED
    BY <1>1, <1>4, <1>6, <2>4, <2>5, OrderKept
<1>8. ASSUME UNCHANGED branch, flow' = [flow EXCEPT ![f] = "start"],
             (\A y \in Group(f) : branch[f][y] = "ok") \/ Cyclic(f)
      PROVE  Life' /\ Ordered'
  <2>1. ASSUME NEW g \in Managed, flow'[g] = "start"
        PROVE  (\A y \in Group(g) : branch'[g][y] = "ok") \/ Cyclic(g)
    BY <1>1, <1>8, <2>1 DEF Ordered, TypeOK
  <2>2. ASSUME NEW g \in Managed, NEW x \in Edge
        PROVE  /\ branch'[g][x] = "ok" => branch[g][x] = "ok" \/ Satisfied(x)
               /\ Begins(g, x)' => \A y \in Group(x[2]) : branch'[g][y] = "ok"
    BY <1>2, <1>8 DEF Begins
  <2> QED
    BY <1>1, <1>4, <1>6, <2>1, <2>2, OrderKept
<1>9. CASE Resolve(f)
  <2>1. CASE Cyclic(f) \/ deps[f] = {}
    <3>1. (\A y \in Group(f) : branch[f][y] = "ok") \/ Cyclic(f)
      BY <2>1 DEF Group
    <3> QED
      BY <1>8, <1>9, <2>1, <3>1 DEF Resolve
  <2>2. CASE ~(Cyclic(f) \/ deps[f] = {})
    <3>1. flow' = [flow EXCEPT ![f] = "group"] /\ Launch(f, f, {}) /\ flow[f] = "resolve"
      BY <1>9, <2>2 DEF Resolve
    <3>2. \A g \in Managed, x \in Edge :
            branch'[g][x] = IF g = f /\ x \in Group(f) THEN "inspect" ELSE branch[g][x]
      BY <1>1, <3>1 DEF Launch, TypeOK
    <3>3. \A g \in Managed : flow'[g] = IF g = f THEN "group" ELSE flow[g]
      BY <1>1, <3>1 DEF TypeOK
    <3>4. ASSUME NEW g \in Managed, NEW x \in Edge
          PROVE  /\ branch'[g][x] = "ok" => branch[g][x] = "ok" \/ Satisfied(x)
                 /\ Begins(g, x)' => \A y \in Group(x[2]) : branch'[g][y] = "ok"
      <4>1. Begins(g, x)' => Begins(g, x)
        BY <3>2 DEF Begins
      <4>2. Begins(g, x)' => g # f
        BY <1>2, <3>1, <4>1
      <4>3. x[2] \in Instance
        BY DEF Edge
      <4> QED
        BY <1>2, <1>3, <3>2, <4>1, <4>2, <4>3
    <3>5. ASSUME NEW g \in Managed, flow'[g] = "start"
          PROVE  (\A y \in Group(g) : branch'[g][y] = "ok") \/ Cyclic(g)
      <4>1. g # f /\ g \in Instance /\ flow[g] = "start"
        BY <3>3, <3>5, DependencyAssumption
      <4> QED
        BY <1>3, <3>2, <4>1 DEF Ordered
    <3> QED
      BY <1>1, <1>4, <1>6, <3>4, <3>5, OrderKept
  <2> QED
    BY <2>1, <2>2
<1>10. CASE DependenciesDone(f) /\ ~GroupFailed(f, f)
  <2>1. \A y \in Group(f) : branch[f][y] = "ok"
    BY <1>10 DEF DependenciesDone, GroupDone, GroupFailed
  <2> QED
    BY <1>8, <1>10, <2>1 DEF DependenciesDone
<1> QED
  BY <1>7, <1>9, <1>10 DEF FlowStep, ResolveFails, DependenciesDone, StartRoot

(* The first to load a node launches its errgroup. *)
LEMMA LoadKeepsOrder ==
    ASSUME IInv, Lasting, Life, Ordered, NEW f \in Managed, NEW e \in Edge,
           LoadMemo(f, e), memo[f][e[2]] = "none"
    PROVE  Life' /\ Ordered'
<1>1. TypeOK /\ flow[f] = "group" /\ branch[f][e] = "load" /\ e[2] \in Instance
      /\ UNCHANGED <<status, deps, flow>>
  BY DEF IInv, Rooted, LoadMemo, Active, Edge
<1>2. \A g \in Managed, x \in Edge :
        branch'[g][x] = IF g = f /\ x = e THEN "group" ELSE
                        IF g = f /\ x \in Group(e[2]) THEN "inspect"
                        ELSE branch[g][x]
  BY <1>1 DEF LoadMemo, TypeOK
<1>3. ASSUME NEW n \in Instance, NEW x \in Group(n)
      PROVE  x \in Edge /\ x[1] = n
  BY <1>1, DependencyAssumption DEF Group, Edge, TypeOK
<1>4. ASSUME NEW x \in Edge, Begins(f, x) PROVE x[2] # e[2]
  <2>1. x = <<x[1], x[2]>> /\ x[1] \in Instance /\ Handles(f, x)
    BY <1>4 DEF Edge, Begins, Handles
  <2>2. memo[f][e[2]] # "running"
    OBVIOUS
  <2> QED
    BY <1>1, <2>1, <2>2 DEF IInv, HandledOnce
<1>5. ASSUME NEW g \in Managed, NEW x \in Edge
      PROVE  /\ branch'[g][x] = "ok" => branch[g][x] = "ok" \/ Satisfied(x)
             /\ Begins(g, x)' => \A y \in Group(x[2]) : branch'[g][y] = "ok"
  <2>1. branch'[g][x] = "ok" => branch[g][x] = "ok"
    BY <1>2
  <2>2. ASSUME Begins(g, x)', NEW y \in Group(x[2]) PROVE branch'[g][y] = "ok"
    <3>1. Begins(g, x)
      BY <1>2, <2>2 DEF Begins
    <3>2. y \in Edge /\ y[1] = x[2] /\ branch[g][y] = "ok"
      BY <1>3, <3>1 DEF Ordered, Edge
    <3>3. g = f => y # e /\ y \notin Group(e[2])
      BY <1>1, <1>3, <1>4, <3>1, <3>2
    <3> QED
      BY <1>2, <3>2, <3>3
  <2> QED
    BY <2>1, <2>2
<1>6. ASSUME NEW g \in Managed, flow'[g] = "start"
      PROVE  (\A y \in Group(g) : branch'[g][y] = "ok") \/ Cyclic(g)
  <2>1. g # f /\ g \in Instance /\ flow[g] = "start"
    BY <1>1, <1>6, DependencyAssumption
  <2> QED
    BY <1>2, <1>3, <2>1 DEF Ordered
<1>7. \A n \in Instance : Up(n)' => Up(n)
  BY <1>1 DEF Up
<1> QED
  BY <1>1, <1>5, <1>6, <1>7, OrderKept DEF StatusStep

(* InstanceStart of a dependency comes after its own dependencies. *)
LEMMA StartKeepsOrder ==
    ASSUME IInv, Lasting, Life, Ordered, NEW f \in Managed, NEW e \in Edge,
           StartDependency(f, e)
    PROVE  Life' /\ Ordered'
<1>1. TypeOK /\ branch[f][e] = "start" /\ e[2] \in Instance /\ UNCHANGED <<deps, flow>>
      /\ status' \in {status, Started(e[2])}
  BY DEF IInv, StartDependency, Edge
<1>2. PICK r \in {"ok", "err"} : StartReturns(f, e, r)
  BY DEF StartDependency
<1>3. \A g \in Managed, x \in Edge :
        branch'[g][x] = IF (g = f /\ x = e) \/ (x[2] = e[2] /\ branch[g][x] = "follow")
                        THEN IF r = "ok" THEN "poll" ELSE "err"
                        ELSE branch[g][x]
  BY <1>2 DEF StartReturns
<1>4. \A n \in Instance : \A x \in Group(n) : x \in Edge /\ x[2] \in deps[x[1]]
  BY <1>1, DependencyAssumption DEF Group, Edge, TypeOK
<1>5. \A g \in Managed, y \in Edge : branch[g][y] = "ok" <=> branch'[g][y] = "ok"
  BY <1>1, <1>3
<1>6. ASSUME NEW g \in Managed, NEW x \in Edge
      PROVE  /\ branch'[g][x] = "ok" => branch[g][x] = "ok" \/ Satisfied(x)
             /\ Begins(g, x)' => \A y \in Group(x[2]) : branch'[g][y] = "ok"
  <2>1. Begins(g, x)' => Begins(g, x)
    BY <1>3 DEF Begins
  <2>2. x[2] \in Instance
    BY DEF Edge
  <2> QED
    BY <1>4, <1>5, <2>1, <2>2 DEF Ordered
<1>7. ASSUME NEW g \in Managed, flow'[g] = "start"
      PROVE  (\A y \in Group(g) : branch'[g][y] = "ok") \/ Cyclic(g)
  <2>1. g \in Instance /\ flow[g] = "start"
    BY <1>1, <1>7, DependencyAssumption
  <2> QED
    BY <1>4, <1>5, <2>1 DEF Ordered
<1>8. ASSUME NEW n \in Instance, Up(n)'
      PROVE  Up(n) \/ (\A x \in Group(n) : Satisfied(x)) \/ Cyclic(n)
  <2>1. Up(n) \/ n = e[2]
    BY <1>1, <1>8 DEF Up, Started, TypeOK
  <2>2. ASSUME NEW x \in Group(e[2]) PROVE Satisfied(x)
    BY <1>1, <1>4 DEF Ordered, Begins
  <2> QED
    BY <2>1, <2>2
<1>9. StatusStep
  BY <1>1 DEF StatusStep
<1> QED
  BY <1>1, <1>6, <1>7, <1>8, <1>9, OrderKept

LEMMA BranchKeepsOrder ==
    ASSUME IInv, Lasting, Life, Ordered, NEW f \in Managed, NEW e \in Edge,
           BranchStep(f, e)
    PROVE  Life' /\ Ordered'
<1>1. TypeOK
  BY DEF IInv
<1>2. \A pc \in BranchPC : Goto(f, e, pc) => Moved(f, e, pc)
  BY <1>1, GotoMoves
<1>3. \A pc \in BranchPC \ {"ok", "ensure", "follow", "start"} :
        Goto(f, e, pc) /\ branch[f][e] # "ok" /\ UNCHANGED <<status, deps, flow>>
            => Life' /\ Ordered'
  BY <1>1, <1>2, MoveKeepsOrder
<1>4. Goto(f, e, "ok") /\ Satisfied(e) /\ branch[f][e] # "ok"
        /\ UNCHANGED <<status, deps, flow>> => Life' /\ Ordered'
  BY <1>1, <1>2, MoveKeepsOrder DEF BranchPC
<1>5. \A pc \in {"ensure", "follow", "start"} :
        Goto(f, e, pc) /\ branch[f][e] # "ok" /\ UNCHANGED <<status, deps, flow>>
        /\ (\A y \in Group(e[2]) : branch[f][y] = "ok") => Life' /\ Ordered'
  BY <1>1, <1>2, MoveKeepsOrder DEF BranchPC
<1>6. CASE InspectDependency(f, e)
  BY <1>3, <1>4, <1>6 DEF InspectDependency, BranchPC
<1>7. CASE LoadMemo(f, e)
  <2>1. CASE memo[f][e[2]] # "none"
    BY <1>3, <1>7, <2>1 DEF LoadMemo, BranchPC
  <2> QED
    BY <1>7, <2>1, LoadKeepsOrder
<1>8. CASE JoinNode(f, e) \/ FollowCancelled(f, e)
  BY <1>3, <1>8 DEF JoinNode, FollowCancelled, NodeDone, BranchPC
<1>9. CASE WaitGroup(f, e)
  <2>1. CASE GroupFailed(f, e[2])
    BY <1>3, <1>9, <2>1 DEF WaitGroup, NodeDone, BranchPC
  <2>2. CASE ~GroupFailed(f, e[2])
    BY <1>5, <1>9, <2>2 DEF WaitGroup, GroupFailed, GroupDone
  <2> QED
    BY <2>1, <2>2
<1>10. CASE EnsureStarted(f, e)
  <2>1. \A y \in Group(e[2]) : branch[f][y] = "ok"
    BY <1>10 DEF EnsureStarted, Ordered, Begins
  <2> QED
    BY <1>3, <1>5, <1>10, <2>1 DEF EnsureStarted, NodeDone, BranchPC
<1>11. CASE PollCondition(f, e)
  BY <1>3, <1>4, <1>11 DEF PollCondition, BranchPC
<1> QED
  BY <1>6, <1>7, <1>8, <1>9, <1>10, <1>11, StartKeepsOrder DEF BranchStep

LEMMA OthersKeepOrder ==
    ASSUME IInv, Calm, Life, Ordered,
           \/ \E f \in Managed : RequestStart(f) \/ CollectError(f) \/ Timeout(f)
           \/ \E i \in Instance : Settle(i) \/ StopInstance(i)
           \/ UNCHANGED vars
    PROVE  Life' /\ Ordered'
<1>1. TypeOK /\ Lasting
  BY DEF IInv, Calm
<1>2. UNCHANGED <<deps, branch>> /\ StatusStep
  BY DEF RequestStart, CollectError, Timeout, Settle, StopInstance, vars, flowVars,
     StatusStep, Calm
<1>3. \A n \in Instance : Up(n)' => Up(n)
  BY <1>1 DEF RequestStart, CollectError, Timeout, Settle, StopInstance, vars, flowVars,
     Up, TypeOK
<1>4. \A g \in Managed : flow'[g] = "start" => flow[g] = "start"
  BY <1>1 DEF RequestStart, CollectError, Timeout, Settle, StopInstance, vars, flowVars,
     TypeOK
<1>5. \A g \in Managed : flow'[g] = "start" =>
        (\A y \in Group(g) : branch'[g][y] = "ok") \/ Cyclic(g)
  BY <1>2, <1>4 DEF Ordered
<1>6. \A g \in Managed, x \in Edge :
        /\ branch'[g][x] = "ok" => branch[g][x] = "ok" \/ Satisfied(x)
        /\ Begins(g, x)' => \A y \in Group(x[2]) : branch'[g][y] = "ok"
  BY <1>2 DEF Ordered, Begins
<1> QED
  BY <1>1, <1>2, <1>3, <1>5, <1>6, OrderKept

(* Sablier starts in order, whatever the graph, the number of flows and    *)
(* the starts and inspections that fail: what runs has its dependencies up *)
(* in the condition they are declared with, as long as no dependency fails *)
(* or is stopped by itself and their conditions are Lasting.               *)
THEOREM DependenciesComeFirst == SafetySpec => [](Lasting => StartedInOrder)
<1>1. Init => OrderInv
  <2> SUFFICES ASSUME Init PROVE Life /\ Ordered
    BY DEF OrderInv
  <2>1. /\ \A i \in Instance : status[i] = "stopped"
        /\ \A f \in Managed : flow[f] = "idle" /\ \A e \in Edge : branch[f][e] = "off"
    BY DEF Init
  <2> QED
    BY <2>1 DEF Life, Ordered, Begins, Up
<1>2. IInv /\ OrderInv /\ [Next]_vars => OrderInv'
  <2> SUFFICES ASSUME IInv, OrderInv, [Next]_vars, Calm' PROVE Life' /\ Ordered'
    BY DEF OrderInv
  <2>1. UNCHANGED deps
    BY DEF Next, RequestStart, CollectError, Timeout, FlowStep, Resolve, ResolveFails,
       DependenciesDone, StartRoot, BranchStep, InspectDependency, LoadMemo, JoinNode,
       WaitGroup, EnsureStarted, FollowCancelled, StartDependency, PollCondition, Settle,
       StopInstance, vars
  <2>2. Calm /\ Lasting /\ Life /\ Ordered
    BY <2>1 DEF OrderInv, Calm, Lasting
  <2> QED
    BY <2>2, FlowKeepsOrder, BranchKeepsOrder, OthersKeepOrder DEF Next
<1>3. OrderInv => (Lasting => StartedInOrder)
  BY DEF OrderInv, Calm, Ordered, StartedInOrder
<1> QED
  BY <1>1, <1>2, <1>3, Invariance, PTL DEF SafetySpec

-----------------------------------------------------------------------------
(* The searches of the dependency graph: DependencyGraph. *)

Frame == [node : Node, next : Nat \ {0}]

GraphType ==
    /\ declared \in [Node -> Seq(Node)]
    /\ unreadable \in SUBSET Node
    /\ phase \in {"idle", "resolve", "cycle", "failed", "done"}
    /\ colours \in [Node -> {"new", "visiting", "visited"}]
    /\ stack \in Seq(Frame)
    /\ cyclic \in BOOLEAN

(* The calls in progress are for different nodes. *)
OneCallEach ==
    \A p, q \in 1 .. Len(stack) : stack[p].node = stack[q].node => p = q

(* While it resolves: what is in the graph is right, and what a node of it *)
(* depends on is in it too, or its call is still to look at it.            *)
ResolveInv ==
    phase = "resolve" =>
        /\ graph = [n \in DOMAIN graph |-> declared[n]]
        /\ Root \in DOMAIN graph
        /\ DOMAIN graph \subseteq DependedOn
        /\ DOMAIN graph \cap unreadable = {}
        /\ \A p \in 1 .. Len(stack) : stack[p].node \in DOMAIN graph
        /\ \A n \in DOMAIN graph : \A k \in 1 .. Len(declared[n]) :
              \/ declared[n][k] \in DOMAIN graph
              \/ \E p \in 1 .. Len(stack) : stack[p].node = n /\ stack[p].next <= k

(* While it searches for cycles: the calls in progress are a path of nodes *)
(* that are being visited, and no others are.                              *)
PathInv ==
    /\ colours[Root] # "new"
    /\ \A p \in 1 .. Len(stack) :
          stack[p].node \in DependedOn /\ colours[stack[p].node] = "visiting"
    /\ \A n \in Node : colours[n] = "visiting" =>
          \E p \in 1 .. Len(stack) : stack[p].node = n
    /\ \A p \in 1 .. Len(stack) - 1 :
          /\ stack[p].next - 1 \in 1 .. Len(declared[stack[p].node])
          /\ stack[p + 1].node = declared[stack[p].node][stack[p].next - 1]

(* What a visited node depends on is visited, and so is what a call has    *)
(* looked at, except for what it is visiting now.                          *)
VisitedInv ==
    /\ \A n \in Node : colours[n] = "visited" =>
          \A k \in 1 .. Len(declared[n]) : colours[declared[n][k]] = "visited"
    /\ \A p \in 1 .. Len(stack) : \A k \in 1 .. Len(declared[stack[p].node]) :
          k < stack[p].next =>
              \/ colours[declared[stack[p].node][k]] = "visited"
              \/ p < Len(stack) /\ stack[p + 1].node = declared[stack[p].node][k]

(* There is no cycle among the visited nodes. *)
VisitedAcyclic ==
    \A C \in SUBSET Node :
        C # {} /\ (\A n \in C : colours[n] = "visited") =>
            \E n \in C : \A m \in C : ~DependsOn(m, n)

CycleInv ==
    phase = "cycle" => PathInv /\ VisitedInv /\ VisitedAcyclic

(* The inductive invariant of the two searches. *)
GraphInv ==
    /\ GraphType
    /\ phase \in {"resolve", "cycle"} => OneCallEach
    /\ ResolveInv /\ ResolvesReachable
    /\ CycleInv /\ FindsCycles

LEMMA DependedOnFacts ==
    ASSUME declared \in [Node -> Seq(Node)]
    PROVE  /\ DependedOn \subseteq Node
           /\ Root \in DependedOn
           /\ \A n \in DependedOn : \A k \in 1 .. Len(declared[n]) : declared[n][k] \in DependedOn
           /\ \A S \in SUBSET Node :
                 /\ Root \in S
                 /\ \A n \in S : \A k \in 1 .. Len(declared[n]) : declared[n][k] \in S
                 => DependedOn \subseteq S
<1>1. DependedOn \subseteq Node
  BY DEF DependedOn
<1>2. Root \in DependedOn
  BY RootAssumption DEF DependedOn
<1>3. ASSUME NEW n \in DependedOn, NEW k \in 1 .. Len(declared[n])
      PROVE  declared[n][k] \in DependedOn
  <2>1. n \in Node /\ declared[n][k] \in Node /\ DependsOn(n, declared[n][k])
    BY <1>1 DEF DependsOn
  <2> HIDE DEF DependsOn
  <2> QED  BY <2>1, Zenon DEF DependedOn
<1>4. ASSUME NEW S \in SUBSET Node, Root \in S,
             \A n \in S : \A k \in 1 .. Len(declared[n]) : declared[n][k] \in S
      PROVE  DependedOn \subseteq S
  <2>1. \A m \in S, d \in Node : DependsOn(m, d) => d \in S
    BY <1>4, Zenon DEF DependsOn
  <2> QED  BY <1>4, <2>1, Zenon DEF DependedOn
<1> QED  BY <1>1, <1>2, <1>3, <1>4

(* The declarations never change, and neither does what follows from them. *)
LEMMA InputsUnchanged ==
    ASSUME [NextGraph]_graphVars
    PROVE  /\ declared' = declared /\ unreadable' = unreadable
           /\ DependedOn' = DependedOn
           /\ HasCycle' = HasCycle
           /\ \A m, n : DependsOn(m, n)' = DependsOn(m, n)
<1>1. declared' = declared /\ unreadable' = unreadable
  BY DEF NextGraph, graphVars, StartWithDependencies, resolveDependencyGraph, CycleBegin, visit,
         CycleEnd, inputs
<1>2. \A m, n : DependsOn(m, n)' = DependsOn(m, n)
  BY <1>1 DEF DependsOn
<1>3. DependedOn' = DependedOn
  BY <1>1 DEF DependedOn, DependsOn
<1>4. HasCycle' = HasCycle
  BY <1>1, <1>3 DEF HasCycle, DependsOn
<1> QED  BY <1>1, <1>2, <1>3, <1>4

-----------------------------------------------------------------------------
(* The calls in progress. *)

LEMMA TopFacts ==
    ASSUME stack \in Seq(Frame), stack # << >>
    PROVE  /\ Len(stack) \in Nat /\ Len(stack) \in 1 .. Len(stack)
           /\ Top.node \in Node /\ Top.next \in Nat /\ Top.next >= 1
<1>1. Len(stack) \in Nat /\ Len(stack) \in 1 .. Len(stack)
  OBVIOUS
<1>2. Top \in Frame
  BY <1>1 DEF Top
<1> QED  BY <1>1, <1>2 DEF Frame

LEMMA AdvancedFacts ==
    ASSUME stack \in Seq(Frame), stack # << >>
    PROVE  /\ Advanced \in Seq(Frame) /\ Len(Advanced) = Len(stack)
           /\ \A p \in 1 .. Len(stack) : Advanced[p].node = stack[p].node
           /\ \A p \in 1 .. Len(stack) - 1 : Advanced[p].next = stack[p].next
           /\ Advanced[Len(stack)].next = Top.next + 1
<1> DEFINE top == Len(stack)
<1>1. top \in 1 .. top /\ top \in Nat /\ DOMAIN stack = 1 .. top
  OBVIOUS
<1>2. \A p \in 1 .. top : stack[p] \in Frame
  OBVIOUS
<1>3. DOMAIN Advanced = 1 .. top
  BY <1>1 DEF Advanced
<1>4. \A p \in 1 .. top : p # top => Advanced[p] = stack[p]
  BY <1>1 DEF Advanced
<1>5. Advanced[top] = [stack[top] EXCEPT !.next = stack[top].next + 1]
  BY <1>1 DEF Advanced
<1>6. Advanced[top] \in Frame /\ Advanced[top].node = stack[top].node
      /\ Advanced[top].next = stack[top].next + 1
  BY <1>1, <1>2, <1>5 DEF Frame
<1>7. \A p \in 1 .. top : Advanced[p] \in Frame
  BY <1>2, <1>4, <1>6
<1>8. Advanced \in [1 .. top -> Frame]
  BY <1>3, <1>7 DEF Advanced
<1>9. Advanced \in Seq(Frame) /\ Len(Advanced) = top
  BY <1>1, <1>8
<1>10. \A p \in 1 .. top : Advanced[p].node = stack[p].node
  BY <1>4, <1>6
<1>11. \A p \in 1 .. top - 1 : Advanced[p].next = stack[p].next
  <2> HIDE DEF top
  <2>1. \A p \in 1 .. top - 1 : p \in 1 .. top /\ p # top
    BY <1>1
  <2> QED  BY <1>4, <2>1
<1> QED  BY <1>6, <1>9, <1>10, <1>11 DEF Top

LEMMA CallFacts ==
    ASSUME NEW calls \in Seq(Frame), NEW node \in Node
    PROVE  /\ Call(calls, node) \in Seq(Frame) /\ Len(Call(calls, node)) = Len(calls) + 1
           /\ \A p \in 1 .. Len(calls) : Call(calls, node)[p] = calls[p]
           /\ Call(calls, node)[Len(calls) + 1].node = node
           /\ Call(calls, node)[Len(calls) + 1].next = 1
<1>1. [node |-> node, next |-> 1] \in Frame
  BY DEF Frame
<1> QED  BY <1>1 DEF Call

LEMMA ReturnedFacts ==
    ASSUME stack \in Seq(Frame), stack # << >>
    PROVE  /\ Returned \in Seq(Frame) /\ Len(Returned) = Len(stack) - 1
           /\ \A p \in 1 .. Len(stack) - 1 : Returned[p] = stack[p]
BY DEF Returned

LEMMA NoCalls ==
    /\ << >> \in Seq(Frame) /\ Len(<< >>) = 0
    /\ DOMAIN << >> = {}
OBVIOUS

-----------------------------------------------------------------------------
(* resolveDependencyGraph. *)

(* What is known where a step of resolveDependencyGraph begins. *)
LEMMA ResolveFacts ==
    ASSUME GraphInv, phase = "resolve", stack # << >>
    PROVE  /\ graph[Top.node] = declared[Top.node]
           /\ Top.node \in DependedOn /\ Top.node \in DOMAIN graph /\ Top.node \in Node
           /\ AtDependency => /\ Top.next \in 1 .. Len(declared[Top.node])
                              /\ Dependency = declared[Top.node][Top.next]
                              /\ Dependency \in DependedOn /\ Dependency \in Node
           /\ AtEnd => Top.next > Len(declared[Top.node])
<1>1. /\ stack \in Seq(Frame) /\ declared \in [Node -> Seq(Node)]
      /\ graph = [n \in DOMAIN graph |-> declared[n]]
      /\ DOMAIN graph \subseteq DependedOn
      /\ \A p \in 1 .. Len(stack) : stack[p].node \in DOMAIN graph
  BY DEF GraphInv, GraphType, ResolveInv
<1>2. Len(stack) \in 1 .. Len(stack) /\ Top.node \in Node /\ Top.next \in Nat /\ Top.next >= 1
  BY <1>1, TopFacts
<1>3. Top.node \in DOMAIN graph /\ Top.node \in DependedOn
  BY <1>1, <1>2 DEF Top
<1>4. graph[Top.node] = declared[Top.node]
  BY <1>1, <1>3, Zenon
<1>5. declared[Top.node] \in Seq(Node)
  BY <1>1, <1>2
<1>6. ASSUME AtDependency
      PROVE  /\ Top.next \in 1 .. Len(declared[Top.node])
             /\ Dependency = declared[Top.node][Top.next]
             /\ Dependency \in DependedOn /\ Dependency \in Node
  <2>1. Top.next \in 1 .. Len(declared[Top.node])
    BY <1>2, <1>4, <1>5, <1>6 DEF AtDependency
  <2>2. Dependency = declared[Top.node][Top.next]
    BY <1>4 DEF Dependency
  <2> QED  BY <1>1, <1>3, <2>1, <2>2, DependedOnFacts
<1>7. AtEnd => Top.next > Len(declared[Top.node])
  BY <1>4 DEF AtEnd
<1> QED  BY <1>2, <1>3, <1>4, <1>6, <1>7

(* A node is read, with "found" the graph and "calls" the calls so far. *)
LEMMA ReadStep ==
    ASSUME GraphInv, [NextGraph]_graphVars, UNCHANGED <<colours, cyclic>>,
           NEW found, NEW calls \in Seq(Frame), NEW node \in DependedOn,
           node \notin DOMAIN found,
           found = << >> \/ found = [n \in DOMAIN found |-> declared[n]],
           node = Root \/ Root \in DOMAIN found,
           DOMAIN found \subseteq DependedOn,
           DOMAIN found \cap unreadable = {},
           \A p \in 1 .. Len(calls) : calls[p].node \in DOMAIN found,
           \A p, q \in 1 .. Len(calls) : calls[p].node = calls[q].node => p = q,
           \A n \in DOMAIN found : \A k \in 1 .. Len(declared[n]) :
              \/ declared[n][k] \in DOMAIN found \cup {node}
              \/ \E p \in 1 .. Len(calls) : calls[p].node = n /\ calls[p].next <= k,
           Read(node, found, calls)
    PROVE  GraphInv'
<1>1. /\ declared' = declared /\ unreadable' = unreadable /\ DependedOn' = DependedOn
      /\ GraphType
  BY InputsUnchanged DEF GraphInv
<1>2. CASE node \in unreadable
  <2>1. phase' = "failed" /\ stack' = << >>
    BY <1>2 DEF Read
  <2>2. GraphType'
    BY <1>1, <2>1 DEF GraphType
  <2>3. DependedOn' \cap unreadable' # {}
    BY <1>1, <1>2
  <2> QED  BY <2>1, <2>2, <2>3 DEF GraphInv, ResolveInv, ResolvesReachable, CycleInv, FindsCycles
<1>3. CASE node \notin unreadable
  <2> DEFINE s == Call(calls, node)
             l == Len(calls)
  <2>1. phase' = "resolve" /\ stack' = s /\ graph' = Recorded(found, node)
    BY <1>3 DEF Read
  <2>2. /\ s \in Seq(Frame) /\ Len(s) = l + 1 /\ l \in Nat
        /\ \A p \in 1 .. l : s[p] = calls[p]
        /\ s[l + 1].node = node /\ s[l + 1].next = 1
    <3>1. node \in Node
      BY <1>1, DependedOnFacts DEF GraphType
    <3> QED  BY <3>1, CallFacts
  <2> HIDE DEF s, l
  <2>3. /\ DOMAIN graph' = DOMAIN found \cup {node}
        /\ graph' = [n \in DOMAIN graph' |-> declared[n]]
    BY <2>1 DEF Recorded
  <2>4. GraphType'
    BY <1>1, <2>1, <2>2 DEF GraphType
  <2>5. \A p \in 1 .. l + 1 : p \in 1 .. l \/ p = l + 1
    BY <2>2
  <2>6. \A p \in 1 .. Len(s) : s[p].node \in DOMAIN found \cup {node}
    BY <2>2, <2>5 DEF l
  <2>7. \A p, q \in 1 .. Len(s) : s[p].node = s[q].node => p = q
    <3>1. \A p \in 1 .. l : s[p].node # node
      BY <2>2 DEF l
    <3>2. \A p, q \in 1 .. l : s[p].node = s[q].node => p = q
      BY <2>2 DEF l
    <3> QED  BY <2>2, <2>5, <3>1, <3>2
  <2>8. ASSUME NEW n \in DOMAIN found \cup {node}, NEW k \in 1 .. Len(declared[n])
        PROVE  \/ declared[n][k] \in DOMAIN found \cup {node}
               \/ \E p \in 1 .. Len(s) : s[p].node = n /\ s[p].next <= k
    <3>1. CASE n = node
      <4>1. l + 1 \in 1 .. Len(s) /\ s[l + 1].next <= k
        BY <2>2, <2>8
      <4> QED  BY <2>2, <3>1, <4>1
    <3>2. CASE n # node
      <4>1. n \in DOMAIN found
        BY <3>2
      <4>2. CASE \E p \in 1 .. Len(calls) : calls[p].node = n /\ calls[p].next <= k
        <5>1. PICK p \in 1 .. l : calls[p].node = n /\ calls[p].next <= k
          BY <4>2 DEF l
        <5>2. p \in 1 .. Len(s) /\ s[p] = calls[p]
          BY <2>2, <5>1
        <5> QED  BY <5>1, <5>2
      <4> QED  BY <4>1, <4>2
    <3> QED  BY <3>1, <3>2
  <2>9. ResolveInv'
    <3>1. Root \in DOMAIN graph' /\ DOMAIN graph' \subseteq DependedOn
          /\ DOMAIN graph' \cap unreadable = {}
      BY <1>3, <2>3
    <3> HIDE DEF DependsOn
    <3> QED  BY <1>1, <2>1, <2>3, <2>6, <2>8, <3>1 DEF ResolveInv
  <2> QED  BY <2>1, <2>4, <2>7, <2>9 DEF GraphInv, ResolvesReachable, OneCallEach, CycleInv, FindsCycles
<1> QED  BY <1>2, <1>3

LEMMA StartStep ==
    ASSUME GraphInv, StartWithDependencies
    PROVE  GraphInv'
<1>1. [NextGraph]_graphVars /\ UNCHANGED <<colours, cyclic>> /\ Read(Root, << >>, << >>)
  BY DEF NextGraph, StartWithDependencies
<1>2. Root \in DependedOn
  BY DependedOnFacts DEF GraphInv, GraphType
<1>3. PICK none : none = << >>
  OBVIOUS
<1>4. none \in Seq(Frame) /\ Len(none) = 0 /\ DOMAIN none = {}
  BY <1>3
<1>5. Read(Root, none, none)
  BY <1>1, <1>3
<1>6. /\ \A p \in 1 .. Len(none) : none[p].node \in DOMAIN none
      /\ \A p, q \in 1 .. Len(none) : none[p].node = none[q].node => p = q
      /\ \A n \in DOMAIN none : \A k \in 1 .. Len(declared[n]) :
              \/ declared[n][k] \in DOMAIN none \cup {Root}
              \/ \E p \in 1 .. Len(none) : none[p].node = n /\ none[p].next <= k
  BY <1>4
<1>7. Root \notin DOMAIN none /\ DOMAIN none \subseteq DependedOn /\ DOMAIN none \cap unreadable = {}
  BY <1>4
<1> QED  BY <1>1, <1>2, <1>3, <1>4, <1>5, <1>6, <1>7, ReadStep, Zenon

LEMMA ResolveStep ==
    ASSUME GraphInv, resolveDependencyGraph
    PROVE  GraphInv'
<1> DEFINE top == Len(stack)
<1>1. /\ phase = "resolve" /\ stack # << >> /\ stack \in Seq(Frame)
      /\ UNCHANGED <<colours, cyclic>> /\ [NextGraph]_graphVars
      /\ GraphType /\ OneCallEach
  BY DEF resolveDependencyGraph, AtDependency, AtEnd, GraphInv, GraphType, NextGraph
<1>2. /\ graph = [n \in DOMAIN graph |-> declared[n]]
      /\ Root \in DOMAIN graph
      /\ DOMAIN graph \subseteq DependedOn
      /\ DOMAIN graph \cap unreadable = {}
      /\ \A p \in 1 .. top : stack[p].node \in DOMAIN graph
      /\ \A n \in DOMAIN graph : \A k \in 1 .. Len(declared[n]) :
            \/ declared[n][k] \in DOMAIN graph
            \/ \E p \in 1 .. top : stack[p].node = n /\ stack[p].next <= k
  BY <1>1 DEF GraphInv, ResolveInv
<1>3. /\ declared' = declared /\ unreadable' = unreadable /\ DependedOn' = DependedOn
  BY <1>1, InputsUnchanged
<1>4. top \in Nat /\ top \in 1 .. top /\ Top.next \in Nat /\ Top = stack[top]
  BY <1>1, TopFacts DEF Top
<1>5. \A p, q \in 1 .. top : stack[p].node = stack[q].node => p = q
  BY <1>1 DEF OneCallEach
(* The call goes on to the next dependency. *)
<1>6. ASSUME AtDependency
      PROVE  /\ Advanced \in Seq(Frame) /\ Len(Advanced) = top
             /\ \A p \in 1 .. top : Advanced[p].node = stack[p].node
             /\ \A n \in DOMAIN graph : \A k \in 1 .. Len(declared[n]) :
                   \/ declared[n][k] \in DOMAIN graph \cup {Dependency}
                   \/ \E p \in 1 .. top : Advanced[p].node = n /\ Advanced[p].next <= k
  <2> HIDE DEF top
  <2>1. /\ Advanced \in Seq(Frame) /\ Len(Advanced) = top
        /\ \A p \in 1 .. top : Advanced[p].node = stack[p].node
        /\ \A p \in 1 .. top - 1 : Advanced[p].next = stack[p].next
        /\ Advanced[top].next = Top.next + 1
    BY <1>1, AdvancedFacts DEF top
  <2>2. ASSUME NEW n \in DOMAIN graph, NEW k \in 1 .. Len(declared[n]),
               declared[n][k] \notin DOMAIN graph \cup {Dependency}
        PROVE  \E p \in 1 .. top : Advanced[p].node = n /\ Advanced[p].next <= k
    <3>1. PICK p \in 1 .. top : stack[p].node = n /\ stack[p].next <= k
      BY <1>2, <2>2
    <3>2. CASE p # top
      <4>1. p \in 1 .. top - 1
        BY <1>4, <3>2
      <4> QED  BY <2>1, <3>1, <4>1
    <3>3. CASE p = top
      <4>1. Dependency = declared[Top.node][Top.next] /\ n = Top.node /\ Top.next <= k
        BY <1>1, <1>4, <1>6, <3>1, <3>3, ResolveFacts
      <4>2. Top.next # k
        BY <2>2, <4>1
      <4>3. Advanced[top].next <= k
        BY <1>4, <2>1, <4>1, <4>2
      <4> QED  BY <1>4, <2>1, <3>1, <3>3, <4>3
    <3> QED  BY <3>2, <3>3
  <2> QED  BY <2>1, <2>2
<1>7. CASE AtDependency /\ Dependency \in DOMAIN graph /\ stack' = Advanced /\ UNCHANGED <<phase, graph>>
  <2> HIDE DEF top
  <2>1. GraphType'
    BY <1>1, <1>3, <1>6, <1>7 DEF GraphType
  <2>2. OneCallEach'
    BY <1>5, <1>6, <1>7 DEF OneCallEach
  <2>3. DOMAIN graph \cup {Dependency} = DOMAIN graph
    BY <1>7
  <2>4. ResolveInv'
    BY <1>1, <1>2, <1>3, <1>6, <1>7, <2>3 DEF ResolveInv
  <2> QED  BY <1>1, <1>7, <2>1, <2>2, <2>4
           DEF GraphInv, OneCallEach, ResolvesReachable, CycleInv, FindsCycles
<1>8. CASE AtDependency /\ Dependency \notin DOMAIN graph /\ Read(Dependency, graph, Advanced)
  <2>1. Dependency \in DependedOn
    BY <1>1, <1>8, ResolveFacts
  <2>2. /\ Advanced \in Seq(Frame)
        /\ \A p \in 1 .. Len(Advanced) : Advanced[p].node \in DOMAIN graph
        /\ \A p, q \in 1 .. Len(Advanced) : Advanced[p].node = Advanced[q].node => p = q
    BY <1>2, <1>5, <1>6, <1>8
  <2>3. \A n \in DOMAIN graph : \A k \in 1 .. Len(declared[n]) :
            \/ declared[n][k] \in DOMAIN graph \cup {Dependency}
            \/ \E p \in 1 .. Len(Advanced) : Advanced[p].node = n /\ Advanced[p].next <= k
    BY <1>6, <1>8
  <2> QED  BY <1>1, <1>2, <1>8, <2>1, <2>2, <2>3, ReadStep
<1>9. CASE AtEnd /\ stack' = Returned /\ UNCHANGED <<phase, graph>>
  <2> HIDE DEF top
  <2>1. /\ Returned \in Seq(Frame) /\ Len(Returned) = top - 1
        /\ \A p \in 1 .. top - 1 : Returned[p] = stack[p] /\ p \in 1 .. top
    BY <1>1, <1>4, ReturnedFacts DEF top
  <2>2. GraphType'
    BY <1>1, <1>3, <1>9, <2>1 DEF GraphType
  <2>3. OneCallEach'
    BY <1>5, <1>9, <2>1 DEF OneCallEach
  <2>4. ASSUME NEW n \in DOMAIN graph, NEW k \in 1 .. Len(declared[n]),
               declared[n][k] \notin DOMAIN graph
        PROVE  \E p \in 1 .. Len(Returned) : Returned[p].node = n /\ Returned[p].next <= k
    <3>1. PICK p \in 1 .. top : stack[p].node = n /\ stack[p].next <= k
      BY <1>2, <2>4
    <3>2. p # top
      <4>1. Top.next > Len(declared[Top.node]) /\ declared[Top.node] \in Seq(Node)
        BY <1>1, <1>9, ResolveFacts DEF GraphType
      <4> QED  BY <1>4, <3>1, <4>1
    <3>3. p \in 1 .. top - 1
      BY <1>4, <3>2
    <3> QED  BY <2>1, <3>1, <3>3
  <2>5. ResolveInv'
    <3>1. \A p \in 1 .. Len(stack') : stack'[p].node \in DOMAIN graph
      BY <1>2, <1>9, <2>1
    <3> QED  BY <1>1, <1>2, <1>3, <1>9, <2>4, <3>1 DEF ResolveInv
  <2> QED  BY <1>1, <1>9, <2>2, <2>3, <2>5
           DEF GraphInv, OneCallEach, ResolvesReachable, CycleInv, FindsCycles
<1> QED  BY <1>7, <1>8, <1>9 DEF resolveDependencyGraph

-----------------------------------------------------------------------------
(* dependencyGraphCycle. *)

(* All calls of resolveDependencyGraph have returned: nothing is missing. *)
LEMMA BeginStep ==
    ASSUME GraphInv, CycleBegin
    PROVE  GraphInv'
<1>1. /\ phase = "resolve" /\ stack = << >> /\ phase' = "cycle" /\ graph' = graph
      /\ cyclic' = cyclic /\ GraphType
      /\ [NextGraph]_graphVars
      /\ colours' = [[n \in Node |-> "new"] EXCEPT ![Root] = "visiting"]
      /\ stack' = Call(<< >>, Root)
  BY DEF CycleBegin, NextGraph, GraphInv
<1>2. /\ declared' = declared /\ unreadable' = unreadable /\ DependedOn' = DependedOn
      /\ declared \in [Node -> Seq(Node)] /\ Root \in Node
  BY <1>1, InputsUnchanged, RootAssumption DEF GraphType
<1>3. /\ graph = [n \in DOMAIN graph |-> declared[n]]
      /\ Root \in DOMAIN graph
      /\ DOMAIN graph \subseteq DependedOn
      /\ DOMAIN graph \cap unreadable = {}
      /\ \A n \in DOMAIN graph : \A k \in 1 .. Len(declared[n]) : declared[n][k] \in DOMAIN graph
  BY <1>1 DEF GraphInv, ResolveInv
<1>4. DOMAIN graph = DependedOn
  <2>1. DOMAIN graph \in SUBSET Node
    BY <1>2, <1>3, DependedOnFacts
  <2> QED  BY <1>2, <1>3, <2>1, DependedOnFacts
<1> PICK none : none = << >>
  OBVIOUS
<1>5. none = << >> /\ none \in Seq(Frame) /\ Len(none) = 0
  OBVIOUS
<1>6. /\ stack' \in Seq(Frame) /\ Len(stack') = 1 /\ stack'[1].node = Root /\ stack'[1].next = 1
  <2>1. stack' = Call(none, Root)
    BY <1>1, <1>5
  <2>2. /\ Call(none, Root) \in Seq(Frame) /\ Len(Call(none, Root)) = Len(none) + 1
        /\ Call(none, Root)[Len(none) + 1].node = Root
        /\ Call(none, Root)[Len(none) + 1].next = 1
    BY <1>2, <1>5, CallFacts
  <2> QED  BY <1>5, <2>1, <2>2
<1>7. /\ colours' \in [Node -> {"new", "visiting", "visited"}]
      /\ \A n \in Node : colours'[n] # "visited" /\ (colours'[n] = "visiting" <=> n = Root)
  BY <1>1, <1>2
<1>8. GraphType'
  BY <1>1, <1>2, <1>6, <1>7 DEF GraphType
<1>9. OneCallEach'
  BY <1>6 DEF OneCallEach
<1>10. ResolvesReachable'
  BY <1>1, <1>2, <1>3, <1>4 DEF ResolvesReachable
<1>11. PathInv'
  <2>1. Root \in DependedOn
    BY <1>3
  <2>2. \A p \in 1 .. Len(stack') : p = 1
    BY <1>6
  <2>3. 1 .. Len(stack') - 1 = {}
    BY <1>6
  <2>4. 1 \in 1 .. Len(stack')
    BY <1>6
  <2> QED  BY <1>2, <1>6, <1>7, <2>1, <2>2, <2>3, <2>4 DEF PathInv
<1>12. VisitedInv'
  <2>1. \A p \in 1 .. Len(stack') : p = 1
    BY <1>6
  <2>2. \A p \in 1 .. Len(stack') : \A k \in 1 .. Len(declared'[stack'[p].node]) :
            ~ (k < stack'[p].next)
    BY <1>6, <2>1
  <2> QED  BY <1>7, <2>2 DEF VisitedInv
<1>13. VisitedAcyclic'
  BY <1>7 DEF VisitedAcyclic
<1> QED  BY <1>1, <1>8, <1>9, <1>10, <1>11, <1>12, <1>13 DEF GraphInv, ResolveInv, CycleInv, FindsCycles

(* The first call has returned: all is visited, and nothing on a cycle. *)
LEMMA EndStep ==
    ASSUME GraphInv, CycleEnd
    PROVE  GraphInv'
<1>1. /\ phase = "cycle" /\ stack = << >> /\ phase' = "done" /\ cyclic' = FALSE
      /\ UNCHANGED <<graph, colours, stack>> /\ GraphType
      /\ [NextGraph]_graphVars
  BY DEF CycleEnd, NextGraph, GraphInv
<1>2. /\ declared' = declared /\ unreadable' = unreadable /\ DependedOn' = DependedOn
      /\ HasCycle' = HasCycle /\ declared \in [Node -> Seq(Node)]
  BY <1>1, InputsUnchanged DEF GraphType
<1>3. PathInv /\ VisitedInv /\ VisitedAcyclic
  BY <1>1 DEF GraphInv, CycleInv
<1> DEFINE V == {n \in Node : colours[n] = "visited"}
<1>4. Root \in V
  BY <1>1, <1>3, RootAssumption DEF PathInv, GraphType
<1>5. \A n \in V : \A k \in 1 .. Len(declared[n]) : declared[n][k] \in V
  <2> TAKE n \in V
  <2> TAKE k \in 1 .. Len(declared[n])
  <2>1. declared[n][k] \in Node
    BY <1>2
  <2> QED  BY <1>3, <2>1 DEF VisitedInv
<1>6. DependedOn \subseteq V
  <2>1. V \in SUBSET Node
    OBVIOUS
  <2> HIDE DEF V
  <2> QED  BY <1>2, <1>4, <1>5, <2>1, DependedOnFacts
<1>7. ~HasCycle
  <2> SUFFICES ASSUME NEW C \in SUBSET DependedOn, C # {},
                      \A n \in C : \E m \in C : DependsOn(m, n)
               PROVE  FALSE
    BY Zenon DEF HasCycle
  <2>1. C \in SUBSET Node /\ \A n \in C : colours[n] = "visited"
    BY <1>6
  <2> QED  BY <1>3, <2>1, Zenon DEF VisitedAcyclic
<1>8. GraphType' /\ FindsCycles'
  BY <1>1, <1>2, <1>7 DEF GraphType, FindsCycles
<1>9. ResolvesReachable'
  BY <1>1, <1>2 DEF GraphInv, ResolvesReachable
<1> QED  BY <1>1, <1>8, <1>9 DEF GraphInv, ResolveInv, CycleInv

(* What is known where a step of visit begins. *)
LEMMA VisitFacts ==
    ASSUME GraphInv, phase = "cycle", stack # << >>
    PROVE  /\ Top.node \in DependedOn /\ Top.node \in Node /\ colours[Top.node] = "visiting"
           /\ AtDependency => /\ Top.next \in 1 .. Len(declared[Top.node])
                              /\ Dependency = declared[Top.node][Top.next]
                              /\ Dependency \in DependedOn /\ Dependency \in Node
           /\ AtEnd => Top.next > Len(declared[Top.node])
<1>1. /\ stack \in Seq(Frame) /\ declared \in [Node -> Seq(Node)]
      /\ graph = [n \in DependedOn |-> declared[n]]
      /\ PathInv
  BY DEF GraphInv, GraphType, ResolvesReachable, CycleInv
<1>2. Len(stack) \in 1 .. Len(stack) /\ Top.node \in Node /\ Top.next \in Nat /\ Top.next >= 1
  BY <1>1, TopFacts
<1>3. Top.node \in DependedOn /\ colours[Top.node] = "visiting"
  BY <1>1, <1>2 DEF Top, PathInv
<1>4. graph[Top.node] = declared[Top.node]
  BY <1>1, <1>3, Zenon
<1>5. declared[Top.node] \in Seq(Node)
  BY <1>1, <1>2
<1>6. ASSUME AtDependency
      PROVE  /\ Top.next \in 1 .. Len(declared[Top.node])
             /\ Dependency = declared[Top.node][Top.next]
             /\ Dependency \in DependedOn /\ Dependency \in Node
  <2>1. Top.next \in 1 .. Len(declared[Top.node])
    BY <1>2, <1>4, <1>5, <1>6 DEF AtDependency
  <2>2. Dependency = declared[Top.node][Top.next]
    BY <1>4 DEF Dependency
  <2> QED  BY <1>1, <1>3, <2>1, <2>2, DependedOnFacts
<1>7. AtEnd => Top.next > Len(declared[Top.node])
  BY <1>4 DEF AtEnd
<1> QED  BY <1>2, <1>3, <1>6, <1>7

(* A dependency is on the path: the calls from its own on are a cycle. *)
LEMMA FoundIsCycle ==
    ASSUME GraphInv, phase = "cycle", AtDependency, colours[Dependency] = "visiting"
    PROVE  HasCycle
<1> DEFINE top == Len(stack)
<1>1. stack # << >> /\ stack \in Seq(Frame) /\ PathInv /\ declared \in [Node -> Seq(Node)]
  BY DEF AtDependency, GraphInv, GraphType, CycleInv
<1>2. top \in Nat /\ top \in 1 .. top /\ Top = stack[top]
  BY <1>1, TopFacts DEF Top
<1>3. DependsOn(Top.node, Dependency) /\ Dependency \in Node
  BY <1>1, VisitFacts, Zenon DEF DependsOn
<1>4. PICK p \in 1 .. top : stack[p].node = Dependency
  BY <1>1, <1>3 DEF PathInv
<1> DEFINE C == {stack[q].node : q \in p .. top}
<1>5. \A q \in p .. top : q \in 1 .. top
  BY <1>2
<1>6. C \in SUBSET DependedOn
  BY <1>1, <1>5 DEF PathInv
<1>7. p \in p .. top /\ top \in p .. top
  BY <1>2
<1>8. C # {} /\ Top.node \in C
  BY <1>2, <1>7
<1>9. ASSUME NEW n \in C PROVE \E m \in C : DependsOn(m, n)
  <2>1. PICK q \in p .. top : stack[q].node = n
    OBVIOUS
  <2>2. CASE q = p
    BY <1>3, <1>4, <1>8, <2>1, <2>2
  <2>3. CASE q # p
    <3> DEFINE r == q - 1
    <3>1. r \in p .. top /\ r \in 1 .. top - 1 /\ r + 1 = q
      BY <1>2, <2>3
    <3> HIDE DEF r
    <3>2. /\ stack[r].next - 1 \in 1 .. Len(declared[stack[r].node])
          /\ stack[r + 1].node = declared[stack[r].node][stack[r].next - 1]
      BY <1>1, <3>1 DEF PathInv
    <3>3. DependsOn(stack[r].node, n)
      BY <2>1, <3>1, <3>2, Zenon DEF DependsOn
    <3> QED  BY <3>1, <3>3
  <2> QED  BY <2>2, <2>3
<1> HIDE DEF C
<1> QED  BY <1>6, <1>8, <1>9, Zenon DEF HasCycle

(* The call of the top goes on: what it has looked at then is what it had  *)
(* looked at, and the dependency.                                          *)
LEMMA AdvancedVisit ==
    ASSUME GraphInv, phase = "cycle", AtDependency
    PROVE  /\ Advanced \in Seq(Frame) /\ Len(Advanced) = Len(stack)
           /\ Len(stack) \in Nat /\ Len(stack) \in 1 .. Len(stack)
           /\ \A p \in 1 .. Len(stack) : Advanced[p].node = stack[p].node
           /\ \A p \in 1 .. Len(stack) - 1 : Advanced[p].next = stack[p].next
           /\ Advanced[Len(stack)].next - 1 \in 1 .. Len(declared[Advanced[Len(stack)].node])
           /\ Dependency = declared[Advanced[Len(stack)].node][Advanced[Len(stack)].next - 1]
           /\ \A p \in 1 .. Len(stack) : \A k \in 1 .. Len(declared[Advanced[p].node]) :
                 k < Advanced[p].next =>
                    \/ colours[declared[Advanced[p].node][k]] = "visited"
                    \/ p < Len(stack) /\ Advanced[p + 1].node = declared[Advanced[p].node][k]
                    \/ p = Len(stack) /\ declared[Advanced[p].node][k] = Dependency
<1> DEFINE top == Len(stack)
<1>1. stack # << >> /\ stack \in Seq(Frame) /\ VisitedInv /\ declared \in [Node -> Seq(Node)]
  BY DEF AtDependency, GraphInv, GraphType, CycleInv
<1>2. top \in Nat /\ top \in 1 .. top /\ Top = stack[top] /\ Top.next \in Nat
  BY <1>1, TopFacts DEF Top
<1>3. /\ Advanced \in Seq(Frame) /\ Len(Advanced) = top
      /\ \A p \in 1 .. top : Advanced[p].node = stack[p].node
      /\ \A p \in 1 .. top - 1 : Advanced[p].next = stack[p].next
      /\ Advanced[top].next = Top.next + 1
  BY <1>1, AdvancedFacts
<1>4. /\ Top.next \in 1 .. Len(declared[Top.node])
      /\ Dependency = declared[Top.node][Top.next]
  BY <1>1, VisitFacts
<1> HIDE DEF top
<1>5. Advanced[top].next - 1 = Top.next /\ Advanced[top].node = Top.node
  BY <1>2, <1>3
<1>6. ASSUME NEW p \in 1 .. top, NEW k \in 1 .. Len(declared[Advanced[p].node]),
             k < Advanced[p].next
      PROVE  \/ colours[declared[Advanced[p].node][k]] = "visited"
             \/ p < top /\ Advanced[p + 1].node = declared[Advanced[p].node][k]
             \/ p = top /\ declared[Advanced[p].node][k] = Dependency
  <2>1. CASE k < stack[p].next
    <3>1. \/ colours[declared[stack[p].node][k]] = "visited"
          \/ p < top /\ stack[p + 1].node = declared[stack[p].node][k]
      BY <1>1, <1>3, <2>1 DEF VisitedInv, top
    <3>2. p < top => p + 1 \in 1 .. top
      BY <1>2
    <3> QED  BY <1>3, <3>1, <3>2
  <2>2. CASE ~ (k < stack[p].next)
    <3>1. p = top
      <4>1. p # top => p \in 1 .. top - 1
        BY <1>2
      <4> QED  BY <1>3, <1>6, <2>2, <4>1
    <3>2. k = Top.next
      BY <1>2, <1>3, <1>6, <2>2, <3>1
    <3> QED  BY <1>4, <1>5, <3>1, <3>2
  <2> QED  BY <2>1, <2>2
<1> QED  BY <1>2, <1>3, <1>4, <1>5, <1>6 DEF top

LEMMA VisitStep ==
    ASSUME GraphInv, visit
    PROVE  GraphInv'
<1> DEFINE top == Len(stack)
<1>1. /\ phase = "cycle" /\ stack # << >> /\ stack \in Seq(Frame)
      /\ graph' = graph /\ [NextGraph]_graphVars
      /\ GraphType /\ OneCallEach /\ PathInv /\ VisitedInv /\ VisitedAcyclic
  BY DEF visit, AtDependency, AtEnd, GraphInv, GraphType, CycleInv, NextGraph
<1>2. /\ declared' = declared /\ unreadable' = unreadable /\ DependedOn' = DependedOn
      /\ HasCycle' = HasCycle /\ \A m, n : DependsOn(m, n)' = DependsOn(m, n)
      /\ declared \in [Node -> Seq(Node)]
  BY <1>1, InputsUnchanged DEF GraphType
<1>3. top \in Nat /\ top \in 1 .. top /\ Top = stack[top] /\ Top.next \in Nat
  BY <1>1, TopFacts DEF Top
<1>4. /\ Top.node \in DependedOn /\ Top.node \in Node /\ colours[Top.node] = "visiting"
      /\ colours \in [Node -> {"new", "visiting", "visited"}]
  BY <1>1, VisitFacts DEF GraphType
<1>5. \A p, q \in 1 .. top : stack[p].node = stack[q].node => p = q
  BY <1>1 DEF OneCallEach
<1>6. ASSUME phase' \in {"cycle", "done"} PROVE ResolvesReachable' /\ ResolveInv'
  BY <1>1, <1>2, <1>6 DEF GraphInv, ResolvesReachable, ResolveInv
(* A dependency on the path. *)
<1>7. CASE AtDependency /\ OnPath(colours[Dependency]) /\ phase' = "done" /\ cyclic' = TRUE
           /\ stack' = << >> /\ UNCHANGED colours
  <2>1. HasCycle
    BY <1>1, <1>7, FoundIsCycle DEF OnPath
  <2>2. GraphType' /\ FindsCycles'
    BY <1>1, <1>2, <1>7, <2>1 DEF GraphType, FindsCycles
  <2> QED  BY <1>6, <1>7, <2>2 DEF GraphInv, CycleInv
(* A dependency that was left behind. *)
<1>8. CASE AtDependency /\ colours[Dependency] = "visited" /\ stack' = Advanced
           /\ UNCHANGED <<phase, colours, cyclic>>
  <2>1. /\ Advanced \in Seq(Frame) /\ Len(Advanced) = top
        /\ \A p \in 1 .. top : Advanced[p].node = stack[p].node
        /\ \A p \in 1 .. top - 1 : Advanced[p].next = stack[p].next
    BY <1>1, <1>8, AdvancedVisit
  <2>2. \A p \in 1 .. top : \A k \in 1 .. Len(declared[Advanced[p].node]) :
            k < Advanced[p].next =>
               \/ colours[declared[Advanced[p].node][k]] = "visited"
               \/ p < top /\ Advanced[p + 1].node = declared[Advanced[p].node][k]
    BY <1>1, <1>8, AdvancedVisit
  <2> HIDE DEF top
  <2>3. GraphType' /\ OneCallEach'
    BY <1>1, <1>2, <1>5, <1>8, <2>1 DEF GraphType, OneCallEach
  <2>4. PathInv'
    <3>1. \A p \in 1 .. top - 1 : p \in 1 .. top /\ p + 1 \in 1 .. top
      BY <1>3
    <3>2. /\ colours[Root] # "new"
          /\ \A p \in 1 .. top : stack[p].node \in DependedOn /\ colours[stack[p].node] = "visiting"
          /\ \A n \in Node : colours[n] = "visiting" => \E p \in 1 .. top : stack[p].node = n
          /\ \A p \in 1 .. top - 1 :
                /\ stack[p].next - 1 \in 1 .. Len(declared[stack[p].node])
                /\ stack[p + 1].node = declared[stack[p].node][stack[p].next - 1]
      BY <1>1 DEF PathInv, top
    <3>3. ASSUME NEW p \in 1 .. top - 1
          PROVE  /\ Advanced[p].next - 1 \in 1 .. Len(declared[Advanced[p].node])
                 /\ Advanced[p + 1].node = declared[Advanced[p].node][Advanced[p].next - 1]
      <4>1. Advanced[p].next = stack[p].next /\ Advanced[p].node = stack[p].node
            /\ Advanced[p + 1].node = stack[p + 1].node
        BY <2>1, <3>1
      <4> QED  BY <3>2, <4>1
    <3>4. \A p \in 1 .. top :
              Advanced[p].node \in DependedOn /\ colours[Advanced[p].node] = "visiting"
      BY <2>1, <3>2
    <3>5. \A n \in Node : colours[n] = "visiting" => \E p \in 1 .. top : Advanced[p].node = n
      BY <2>1, <3>2
    <3>6. stack' = Advanced /\ Len(Advanced) = top /\ colours' = colours /\ declared' = declared
          /\ DependedOn' = DependedOn
      BY <1>2, <1>8, <2>1
    <3> QED  BY <3>2, <3>3, <3>4, <3>5, <3>6 DEF PathInv
  <2>5. VisitedInv'
    BY <1>1, <1>2, <1>8, <2>1, <2>2 DEF VisitedInv
  <2>6. VisitedAcyclic'
    BY <1>1, <1>2, <1>8 DEF VisitedAcyclic
  <2> QED  BY <1>1, <1>6, <1>8, <2>3, <2>4, <2>5, <2>6 DEF GraphInv, CycleInv, FindsCycles
(* A dependency that is new. *)
<1>9. CASE AtDependency /\ ~OnPath(colours[Dependency]) /\ colours[Dependency] # "visited"
           /\ colours' = [colours EXCEPT ![Dependency] = "visiting"]
           /\ stack' = Call(Advanced, Dependency) /\ UNCHANGED <<phase, cyclic>>
  <2>1. /\ Advanced \in Seq(Frame) /\ Len(Advanced) = top
        /\ \A p \in 1 .. top : Advanced[p].node = stack[p].node
        /\ \A p \in 1 .. top - 1 : Advanced[p].next = stack[p].next
        /\ Advanced[top].next - 1 \in 1 .. Len(declared[Advanced[top].node])
        /\ Dependency = declared[Advanced[top].node][Advanced[top].next - 1]
    BY <1>1, <1>9, AdvancedVisit
  <2>2. \A p \in 1 .. top : \A k \in 1 .. Len(declared[Advanced[p].node]) :
            k < Advanced[p].next =>
               \/ colours[declared[Advanced[p].node][k]] = "visited"
               \/ p < top /\ Advanced[p + 1].node = declared[Advanced[p].node][k]
               \/ p = top /\ declared[Advanced[p].node][k] = Dependency
    BY <1>1, <1>9, AdvancedVisit
  <2>3. Dependency \in DependedOn /\ Dependency \in Node /\ colours[Dependency] = "new"
    BY <1>1, <1>4, <1>9, VisitFacts DEF OnPath
  <2> HIDE DEF top
  <2>4. /\ stack' \in Seq(Frame) /\ Len(stack') = top + 1
        /\ \A p \in 1 .. top : stack'[p] = Advanced[p] /\ stack'[p].node = stack[p].node
        /\ stack'[top + 1].node = Dependency /\ stack'[top + 1].next = 1
    BY <1>9, <2>1, <2>3, CallFacts
  <2>5. /\ colours' \in [Node -> {"new", "visiting", "visited"}]
        /\ colours'[Dependency] = "visiting"
        /\ \A n \in Node : n # Dependency => colours'[n] = colours[n]
    BY <1>4, <1>9, <2>3
  <2>6. \A p \in 1 .. top + 1 : p \in 1 .. top \/ p = top + 1
    BY <1>3
  <2>7. \A p \in 1 .. top : stack[p].node \in DependedOn /\ stack[p].node \in Node
                              /\ stack[p].node # Dependency /\ colours[stack[p].node] = "visiting"
    BY <1>1, <1>2, <2>3, DependedOnFacts DEF PathInv, top
  <2>8. GraphType'
    BY <1>1, <1>2, <1>9, <2>4, <2>5 DEF GraphType
  <2>9. OneCallEach'
    BY <1>5, <2>4, <2>6, <2>7 DEF OneCallEach
  <2>10. PathInv'
    <3>1. colours'[Root] # "new"
      BY <1>1, <2>5, RootAssumption DEF PathInv
    <3>2. \A p \in 1 .. Len(stack') :
              stack'[p].node \in DependedOn /\ colours'[stack'[p].node] = "visiting"
      BY <2>3, <2>4, <2>5, <2>6, <2>7
    <3>3. ASSUME NEW n \in Node, colours'[n] = "visiting"
          PROVE  \E p \in 1 .. Len(stack') : stack'[p].node = n
      <4>1. CASE n = Dependency
        <5>1. top + 1 \in 1 .. Len(stack')
          BY <1>3, <2>4
        <5> QED  BY <2>4, <4>1, <5>1
      <4>2. CASE n # Dependency
        <5>1. PICK p \in 1 .. top : stack[p].node = n
          BY <1>1, <2>5, <3>3, <4>2 DEF PathInv, top
        <5>2. p \in 1 .. Len(stack')
          BY <1>3, <2>4
        <5> QED  BY <2>4, <5>1, <5>2
      <4> QED  BY <4>1, <4>2
    <3>4. ASSUME NEW p \in 1 .. Len(stack') - 1
          PROVE  /\ stack'[p].next - 1 \in 1 .. Len(declared[stack'[p].node])
                 /\ stack'[p + 1].node = declared[stack'[p].node][stack'[p].next - 1]
      <4>1. p \in 1 .. top
        BY <1>3, <2>4
      <4>2. CASE p = top
        BY <2>1, <2>4, <4>1, <4>2
      <4>3. CASE p # top
        <5>1. p \in 1 .. top - 1 /\ p + 1 \in 1 .. top
          BY <1>3, <4>1, <4>3
        <5>2. /\ stack[p].next - 1 \in 1 .. Len(declared[stack[p].node])
              /\ stack[p + 1].node = declared[stack[p].node][stack[p].next - 1]
          BY <1>1, <5>1 DEF PathInv, top
        <5>3. stack'[p].next = stack[p].next /\ stack'[p].node = stack[p].node
              /\ stack'[p + 1].node = stack[p + 1].node
          BY <2>1, <2>4, <4>1, <5>1
        <5> QED  BY <5>2, <5>3
      <4> QED  BY <4>2, <4>3
    <3> QED  BY <1>2, <3>1, <3>2, <3>3, <3>4 DEF PathInv
  <2>11. VisitedInv'
    <3>1. ASSUME NEW n \in Node, colours'[n] = "visited", NEW k \in 1 .. Len(declared[n])
          PROVE  colours'[declared[n][k]] = "visited"
      <4>1. colours[n] = "visited"
        BY <2>5, <3>1
      <4>2. colours[declared[n][k]] = "visited" /\ declared[n][k] \in Node
        BY <1>1, <1>2, <4>1 DEF VisitedInv
      <4> QED  BY <2>3, <2>5, <4>2
    <3>2. ASSUME NEW p \in 1 .. Len(stack'), NEW k \in 1 .. Len(declared[stack'[p].node]),
                 k < stack'[p].next
          PROVE  \/ colours'[declared[stack'[p].node][k]] = "visited"
                 \/ p < Len(stack') /\ stack'[p + 1].node = declared[stack'[p].node][k]
      <4>1. p \in 1 .. top
        BY <2>4, <2>6, <3>2
      <4>2. stack'[p].node = Advanced[p].node /\ k < Advanced[p].next /\ p < Len(stack')
            /\ k \in 1 .. Len(declared[Advanced[p].node])
        BY <1>3, <2>4, <3>2, <4>1
      <4>3. CASE colours[declared[Advanced[p].node][k]] = "visited"
        <5>1. declared[Advanced[p].node][k] \in Node
          <6>1. Advanced[p].node \in Node
            BY <2>1, <2>7, <4>1
          <6>2. declared[Advanced[p].node] \in Seq(Node)
            BY <1>2, <6>1
          <6> QED  BY <4>2, <6>2
        <5> QED  BY <2>3, <2>5, <4>2, <4>3, <5>1
      <4>4. CASE p < top /\ Advanced[p + 1].node = declared[Advanced[p].node][k]
        <5>1. p + 1 \in 1 .. top
          BY <1>3, <4>1, <4>4
        <5> QED  BY <2>4, <4>2, <4>4, <5>1
      <4>5. CASE p = top /\ declared[Advanced[p].node][k] = Dependency
        BY <2>4, <4>2, <4>5
      <4> QED  BY <2>2, <4>1, <4>2, <4>3, <4>4, <4>5
    <3> QED  BY <1>2, <3>1, <3>2 DEF VisitedInv
  <2>12. VisitedAcyclic'
    <3> SUFFICES ASSUME NEW C \in SUBSET Node, C # {}, \A n \in C : colours'[n] = "visited"
                 PROVE  \E n \in C : \A m \in C : ~DependsOn(m, n)
      BY <1>2 DEF VisitedAcyclic
    <3>1. \A n \in C : colours[n] = "visited"
      BY <2>5
    <3> QED  BY <1>1, <3>1 DEF VisitedAcyclic
  <2> QED  BY <1>1, <1>6, <1>9, <2>8, <2>9, <2>10, <2>11, <2>12 DEF GraphInv, CycleInv, FindsCycles
(* The call has looked at every dependency. *)
<1>10. CASE AtEnd /\ colours' = [colours EXCEPT ![Top.node] = "visited"]
            /\ stack' = Returned /\ UNCHANGED <<phase, cyclic>>
  <2> DEFINE t == Top.node
  <2> HIDE DEF top, t
  <2>1. /\ stack' \in Seq(Frame) /\ Len(stack') = top - 1
        /\ \A p \in 1 .. top - 1 : stack'[p] = stack[p]
    BY <1>1, <1>10, ReturnedFacts DEF top
  <2>2. \A p \in 1 .. top - 1 : p \in 1 .. top /\ p + 1 \in 1 .. top /\ p # top
    BY <1>3
  <2>3. /\ colours' \in [Node -> {"new", "visiting", "visited"}]
        /\ t \in Node /\ colours[t] = "visiting" /\ colours'[t] = "visited"
        /\ \A n \in Node : n # t => colours'[n] = colours[n]
    BY <1>4, <1>10 DEF t
  <2>4. t = stack[top].node
    BY <1>3 DEF t
  <2>5. ASSUME NEW k \in 1 .. Len(declared[t]) PROVE colours[declared[t][k]] = "visited"
    <3>1. Top.next > Len(declared[Top.node])
      BY <1>1, <1>10, VisitFacts
    <3>2. k < stack[top].next
      <4>1. declared[t] \in Seq(Node)
        BY <1>2, <2>3
      <4> QED  BY <1>3, <3>1, <4>1 DEF t
    <3>3. \/ colours[declared[t][k]] = "visited"
          \/ top < top
      BY <1>1, <1>3, <2>4, <3>2 DEF VisitedInv, top
    <3> QED  BY <1>3, <3>3
  <2>6. \A p \in 1 .. top - 1 : stack[p].node # t /\ stack[p].node \in DependedOn
                                  /\ stack[p].node \in Node /\ colours[stack[p].node] = "visiting"
    BY <1>1, <1>2, <1>3, <1>5, <2>2, <2>4, DependedOnFacts DEF PathInv, top
  <2>7. GraphType'
    BY <1>1, <1>2, <1>10, <2>1, <2>3 DEF GraphType
  <2>8. OneCallEach'
    BY <1>5, <2>1, <2>2 DEF OneCallEach
  <2>9. PathInv'
    <3>1. colours'[Root] # "new"
      BY <1>1, <2>3, RootAssumption DEF PathInv
    <3>2. \A p \in 1 .. Len(stack') :
              stack'[p].node \in DependedOn /\ colours'[stack'[p].node] = "visiting"
      BY <2>1, <2>3, <2>6
    <3>3. ASSUME NEW n \in Node, colours'[n] = "visiting"
          PROVE  \E p \in 1 .. Len(stack') : stack'[p].node = n
      <4>1. n # t /\ colours[n] = "visiting"
        BY <2>3, <3>3
      <4>2. PICK p \in 1 .. top : stack[p].node = n
        BY <1>1, <4>1 DEF PathInv, top
      <4>3. p \in 1 .. top - 1
        BY <1>3, <2>4, <4>1, <4>2
      <4> QED  BY <2>1, <4>2, <4>3
    <3>4. ASSUME NEW p \in 1 .. Len(stack') - 1
          PROVE  /\ stack'[p].next - 1 \in 1 .. Len(declared[stack'[p].node])
                 /\ stack'[p + 1].node = declared[stack'[p].node][stack'[p].next - 1]
      <4>1. p \in 1 .. top - 1 /\ p + 1 \in 1 .. top - 1
        BY <1>3, <2>1
      <4>2. /\ stack[p].next - 1 \in 1 .. Len(declared[stack[p].node])
            /\ stack[p + 1].node = declared[stack[p].node][stack[p].next - 1]
        BY <1>1, <4>1 DEF PathInv, top
      <4> QED  BY <2>1, <4>1, <4>2
    <3> QED  BY <1>2, <3>1, <3>2, <3>3, <3>4 DEF PathInv
  <2>10. VisitedInv'
    <3>1. ASSUME NEW n \in Node, NEW k \in 1 .. Len(declared[n]), colours[declared[n][k]] = "visited"
          PROVE  colours'[declared[n][k]] = "visited"
      <4>1. declared[n][k] \in Node
        BY <1>2
      <4> QED  BY <2>3, <3>1, <4>1
    <3>2. ASSUME NEW n \in Node, colours'[n] = "visited", NEW k \in 1 .. Len(declared[n])
          PROVE  colours'[declared[n][k]] = "visited"
      <4>1. colours[declared[n][k]] = "visited"
        BY <1>1, <2>3, <2>5, <3>2 DEF VisitedInv
      <4> QED  BY <3>1, <4>1
    <3>3. ASSUME NEW p \in 1 .. Len(stack'), NEW k \in 1 .. Len(declared[stack'[p].node]),
                 k < stack'[p].next
          PROVE  \/ colours'[declared[stack'[p].node][k]] = "visited"
                 \/ p < Len(stack') /\ stack'[p + 1].node = declared[stack'[p].node][k]
      <4>1. p \in 1 .. top - 1 /\ p \in 1 .. top /\ stack'[p] = stack[p] /\ stack[p].node \in Node
        BY <2>1, <2>2, <2>6, <3>3
      <4>2. \/ colours[declared[stack[p].node][k]] = "visited"
            \/ p < top /\ stack[p + 1].node = declared[stack[p].node][k]
        BY <1>1, <3>3, <4>1 DEF VisitedInv, top
      <4>3. CASE colours[declared[stack[p].node][k]] = "visited"
        BY <3>1, <4>1, <4>3
      <4>4. CASE stack[p + 1].node = declared[stack[p].node][k]
        <5>1. CASE p + 1 = top
          BY <2>3, <2>4, <4>1, <4>4, <5>1
        <5>2. CASE p + 1 # top
          <6>1. p + 1 \in 1 .. top - 1 /\ p < Len(stack')
            BY <1>3, <2>1, <4>1, <5>2
          <6> QED  BY <2>1, <4>1, <4>4, <6>1
        <5> QED  BY <5>1, <5>2
      <4> QED  BY <4>2, <4>3, <4>4
    <3> QED  BY <1>2, <3>2, <3>3 DEF VisitedInv
  <2>11. VisitedAcyclic'
    <3> SUFFICES ASSUME NEW C \in SUBSET Node, C # {}, \A n \in C : colours'[n] = "visited",
                        \A n \in C : \E m \in C : DependsOn(m, n)
                 PROVE  FALSE
      BY <1>2 DEF VisitedAcyclic
    <3>1. t \notin C
      <4> SUFFICES ASSUME t \in C PROVE FALSE
        OBVIOUS
      <4>1. PICK m \in C : DependsOn(m, t)
        OBVIOUS
      <4>2. PICK k \in 1 .. Len(declared[m]) : declared[m][k] = t
        BY <4>1 DEF DependsOn
      <4>3. CASE m = t
        BY <2>3, <2>5, <4>2, <4>3
      <4>4. CASE m # t
        <5>1. colours[m] = "visited" /\ m \in Node
          BY <2>3, <4>4
        <5>2. colours[declared[m][k]] = "visited"
          BY <1>1, <5>1 DEF VisitedInv
        <5> QED  BY <2>3, <4>2, <5>2
      <4> QED  BY <4>3, <4>4
    <3>2. \A n \in C : colours[n] = "visited"
      BY <2>3, <3>1
    <3> QED  BY <1>1, <3>2 DEF VisitedAcyclic
  <2> QED  BY <1>1, <1>6, <1>10, <2>7, <2>8, <2>9, <2>10, <2>11 DEF GraphInv, CycleInv, FindsCycles
<1> QED  BY <1>7, <1>8, <1>9, <1>10 DEF visit

LEMMA GraphInit == InitGraph => GraphInv
<1> SUFFICES ASSUME InitGraph PROVE GraphInv
  OBVIOUS
<1>1. GraphType
  <2>1. stack \in Seq(Frame) /\ colours \in [Node -> {"new", "visiting", "visited"}]
    BY DEF InitGraph
  <2> QED  BY <2>1 DEF InitGraph, GraphType
<1> QED  BY <1>1 DEF InitGraph, GraphInv, ResolveInv, ResolvesReachable, CycleInv, FindsCycles

LEMMA GraphStep == GraphInv /\ [NextGraph]_graphVars => GraphInv'
<1> SUFFICES ASSUME GraphInv, [NextGraph]_graphVars PROVE GraphInv'
  OBVIOUS
<1>1. CASE UNCHANGED graphVars
  <2>1. /\ declared' = declared /\ unreadable' = unreadable /\ phase' = phase /\ graph' = graph
        /\ colours' = colours /\ stack' = stack /\ cyclic' = cyclic
    BY <1>1 DEF graphVars
  <2>2. /\ DependedOn' = DependedOn /\ HasCycle' = HasCycle
        /\ \A m, n : DependsOn(m, n)' = DependsOn(m, n)
    BY InputsUnchanged
  <2>3. GraphType' /\ (phase' \in {"resolve", "cycle"} => OneCallEach') /\ FindsCycles'
    BY <2>1, <2>2 DEF GraphInv, GraphType, OneCallEach, FindsCycles
  <2>4. ResolveInv' /\ ResolvesReachable'
    BY <2>1, <2>2 DEF GraphInv, ResolveInv, ResolvesReachable
  <2>5. CycleInv'
    <3>1. PathInv => PathInv'
      BY <2>1, <2>2 DEF PathInv
    <3>2. VisitedInv => VisitedInv'
      BY <2>1 DEF VisitedInv
    <3>3. VisitedAcyclic => VisitedAcyclic'
      BY <2>1, <2>2 DEF VisitedAcyclic
    <3> QED  BY <2>1, <3>1, <3>2, <3>3 DEF GraphInv, CycleInv
  <2> QED  BY <2>3, <2>4, <2>5 DEF GraphInv
<1> QED  BY <1>1, StartStep, ResolveStep, BeginStep, VisitStep, EndStep DEF NextGraph

(* The inductive invariant of the searches holds in every state. *)
LEMMA GraphInvariance == GraphSpec => []GraphInv
BY GraphInit, GraphStep, PTL DEF GraphSpec

(* resolveDependencyGraph finds what the root depends on, and nothing      *)
(* else, in every graph, cyclic or not, whatever the order in which        *)
(* dependencies are declared; it fails exactly if something among it       *)
(* cannot be read, and never enters a node it is already in.               *)
THEOREM GraphIsResolved == GraphSpec => []ResolvesReachable
<1>1. GraphInv => ResolvesReachable
  BY DEF GraphInv
<1> QED  BY <1>1, GraphInvariance, PTL

(* dependencyGraphCycle answers true exactly if something the root depends *)
(* on is on a cycle: no diamond is ignored, no cycle is started.           *)
THEOREM CyclesAreFound == GraphSpec => []FindsCycles
<1>1. GraphInv => FindsCycles
  BY DEF GraphInv
<1> QED  BY <1>1, GraphInvariance, PTL

-----------------------------------------------------------------------------
(* The searches end. *)

(* The nodes the search has not entered. *)
Fresh ==
    {n \in Node : \/ phase = "resolve" /\ n \notin DOMAIN graph
                  \/ phase = "cycle" /\ colours[n] = "new"}

(* The dependencies that are still to be looked at if the nodes "fresh"    *)
(* are still to be entered and "calls" are in progress.                    *)
Unseen(fresh, calls) ==
    {e \in Node \X Nat :
        /\ e[2] \in 1 .. Len(declared[e[1]])
        /\ \/ e[1] \in fresh
           \/ \E p \in 1 .. Len(calls) : calls[p].node = e[1] /\ calls[p].next <= e[2]}

(* A step within a search leaves less to look at, or as much and fewer     *)
(* calls to return from.                                                   *)
MovesOn ==
    phase \in {"resolve", "cycle"} /\ phase' = phase =>
        \/ /\ Unseen(Fresh, stack)' \subseteq Unseen(Fresh, stack)
           /\ Unseen(Fresh, stack)' # Unseen(Fresh, stack)
        \/ Unseen(Fresh, stack)' = Unseen(Fresh, stack) /\ Len(stack') < Len(stack)

(* The top call goes on, and perhaps a fresh node is entered. *)
LEMMA AdvanceSees ==
    ASSUME stack \in Seq(Frame), stack # << >>, declared \in [Node -> Seq(Node)], OneCallEach,
           Top.node \in Node, Top.next \in 1 .. Len(declared[Top.node]),
           NEW F \in SUBSET Node, NEW G \in SUBSET F, Top.node \notin F,
           NEW s, s = Advanced \/ \E d \in F : s = Call(Advanced, d)
    PROVE  Unseen(G, s) \subseteq Unseen(F, stack) /\ Unseen(G, s) # Unseen(F, stack)
<1> DEFINE top == Len(stack)
           e0 == <<Top.node, Top.next>>
<1>1. top \in Nat /\ top \in 1 .. top /\ Top = stack[top] /\ Top.next \in Nat
  BY TopFacts DEF Top
<1>2. /\ Advanced \in Seq(Frame) /\ Len(Advanced) = top
      /\ \A p \in 1 .. top : Advanced[p].node = stack[p].node
      /\ \A p \in 1 .. top - 1 : Advanced[p].next = stack[p].next
      /\ Advanced[top].next = Top.next + 1
  BY AdvancedFacts
<1>3. \A p \in 1 .. top : stack[p].next \in Nat
  <2>1. \A p \in 1 .. top : stack[p] \in Frame
    OBVIOUS
  <2> QED  BY <2>1 DEF Frame
<1> HIDE DEF top
<1>4. ASSUME NEW p \in 1 .. Len(s)
      PROVE  \/ s[p].node \in F
             \/ /\ p \in 1 .. top /\ s[p].node = stack[p].node
                /\ s[p].next = IF p = top THEN stack[p].next + 1 ELSE stack[p].next
  <2>1. ASSUME p \in 1 .. top, s[p] = Advanced[p]
        PROVE  /\ p \in 1 .. top /\ s[p].node = stack[p].node
               /\ s[p].next = IF p = top THEN stack[p].next + 1 ELSE stack[p].next
    <3>1. p # top => p \in 1 .. top - 1
      BY <1>1, <2>1
    <3> QED  BY <1>1, <1>2, <2>1, <3>1
  <2>2. CASE s = Advanced
    BY <1>2, <2>1, <2>2
  <2>3. CASE \E d \in F : s = Call(Advanced, d)
    <3>1. PICK d \in F : s = Call(Advanced, d)
      BY <2>3
    <3>2. /\ Len(s) = top + 1 /\ s[top + 1].node = d
          /\ \A q \in 1 .. top : s[q] = Advanced[q]
      <4>1. d \in Node /\ Advanced \in Seq(Frame) /\ Len(Advanced) = top
        BY <1>2
      <4>2. /\ Len(Call(Advanced, d)) = Len(Advanced) + 1
            /\ \A q \in 1 .. Len(Advanced) : Call(Advanced, d)[q] = Advanced[q]
            /\ Call(Advanced, d)[Len(Advanced) + 1].node = d
        BY <4>1, CallFacts, Zenon
      <4> QED  BY <3>1, <4>1, <4>2, Zenon
    <3>3. p \in 1 .. top \/ p = top + 1
      BY <1>1, <3>2
    <3> QED  BY <2>1, <3>2, <3>3
  <2> QED  BY <2>2, <2>3
<1>5. ASSUME NEW e \in Unseen(G, s) PROVE e \in Unseen(F, stack)
  <2>1. e \in Node \X Nat /\ e[2] \in 1 .. Len(declared[e[1]])
    BY DEF Unseen
  <2>2. CASE e[1] \in F
    BY <2>1, <2>2 DEF Unseen
  <2>3. CASE e[1] \notin F
    <3>1. PICK p \in 1 .. Len(s) : s[p].node = e[1] /\ s[p].next <= e[2]
      BY <2>3 DEF Unseen
    <3>2. p \in 1 .. top /\ s[p].node = stack[p].node
          /\ s[p].next = IF p = top THEN stack[p].next + 1 ELSE stack[p].next
      BY <1>4, <2>3, <3>1
    <3>3. stack[p].next <= e[2]
      BY <1>3, <2>1, <3>1, <3>2
    <3> QED  BY <2>1, <3>1, <3>2, <3>3 DEF Unseen, top
  <2> QED  BY <2>2, <2>3
<1>6. e0 \in Unseen(F, stack)
  <2>1. e0 \in Node \X Nat /\ e0[1] = Top.node /\ e0[2] = Top.next
    BY <1>1
  <2>2. stack[top].node = e0[1] /\ stack[top].next <= e0[2]
    BY <1>1, <2>1
  <2> HIDE DEF e0
  <2> QED  BY <1>1, <2>1, <2>2 DEF Unseen, top
<1>7. e0 \notin Unseen(G, s)
  <2> SUFFICES ASSUME e0 \in Unseen(G, s) PROVE FALSE
    OBVIOUS
  <2>1. e0[1] = Top.node /\ e0[2] = Top.next
    OBVIOUS
  <2> HIDE DEF e0
  <2>2. PICK p \in 1 .. Len(s) : s[p].node = Top.node /\ s[p].next <= Top.next
    BY <2>1 DEF Unseen
  <2>3. p \in 1 .. top /\ s[p].node = stack[p].node
        /\ s[p].next = IF p = top THEN stack[p].next + 1 ELSE stack[p].next
    BY <1>4, <2>2
  <2>4. p = top
    BY <1>1, <2>2, <2>3 DEF OneCallEach, top
  <2> QED  BY <1>1, <2>2, <2>3, <2>4
<1> QED  BY <1>5, <1>6, <1>7

(* The top call returns. *)
LEMMA ReturnSees ==
    ASSUME stack \in Seq(Frame), stack # << >>, declared \in [Node -> Seq(Node)],
           Top.node \in Node, Top.next > Len(declared[Top.node]),
           NEW F \in SUBSET Node
    PROVE  Unseen(F, Returned) = Unseen(F, stack) /\ Len(Returned) < Len(stack)
<1> DEFINE top == Len(stack)
<1>1. top \in Nat /\ top \in 1 .. top /\ Top = stack[top] /\ Top.next \in Nat
  BY TopFacts DEF Top
<1>2. /\ Len(Returned) = top - 1 /\ \A p \in 1 .. top - 1 : Returned[p] = stack[p]
  BY ReturnedFacts
<1> HIDE DEF top
<1>3. \A p \in 1 .. top : p \in 1 .. top - 1 \/ p = top
  BY <1>1
<1>4. \A p \in 1 .. top - 1 : p \in 1 .. top
  BY <1>1
<1>5. ASSUME NEW e \in Node \X Nat, e[2] \in 1 .. Len(declared[e[1]])
      PROVE  (\E p \in 1 .. top - 1 : Returned[p].node = e[1] /\ Returned[p].next <= e[2])
                <=> (\E p \in 1 .. top : stack[p].node = e[1] /\ stack[p].next <= e[2])
  <2>1. ~ (stack[top].node = e[1] /\ stack[top].next <= e[2])
    <3>1. declared[Top.node] \in Seq(Node)
      OBVIOUS
    <3> QED  BY <1>1, <1>5, <3>1
  <2> QED  BY <1>2, <1>3, <1>4, <2>1
<1>6. Unseen(F, Returned) = Unseen(F, stack)
  BY <1>2, <1>5 DEF Unseen, top
<1> QED  BY <1>1, <1>2, <1>6 DEF top

LEMMA MovesOnStep == GraphInv /\ NextGraph => MovesOn
<1> SUFFICES ASSUME GraphInv, NextGraph, phase \in {"resolve", "cycle"}, phase' = phase
             PROVE  \/ /\ Unseen(Fresh, stack)' \subseteq Unseen(Fresh, stack)
                       /\ Unseen(Fresh, stack)' # Unseen(Fresh, stack)
                    \/ Unseen(Fresh, stack)' = Unseen(Fresh, stack) /\ Len(stack') < Len(stack)
  BY DEF MovesOn
<1>1. /\ declared' = declared /\ declared \in [Node -> Seq(Node)] /\ stack \in Seq(Frame)
      /\ OneCallEach /\ colours \in [Node -> {"new", "visiting", "visited"}]
  BY InputsUnchanged DEF GraphInv, GraphType
<1>2. Unseen(Fresh, stack)' = Unseen(Fresh', stack')
  BY <1>1 DEF Unseen
<1>3. Fresh \in SUBSET Node
  BY DEF Fresh
<1>4. ASSUME stack # << >>, AtDependency, Fresh' \in SUBSET Fresh,
             stack' = Advanced \/ \E d \in Fresh : stack' = Call(Advanced, d)
      PROVE  /\ Unseen(Fresh', stack') \subseteq Unseen(Fresh, stack)
             /\ Unseen(Fresh', stack') # Unseen(Fresh, stack)
  <2>1. Top.node \in Node /\ Top.next \in 1 .. Len(declared[Top.node])
    BY <1>4, ResolveFacts, VisitFacts
  <2>2. Top.node \notin Fresh
    BY <1>4, ResolveFacts, VisitFacts DEF Fresh
  <2> QED  BY <1>1, <1>3, <1>4, <2>1, <2>2, AdvanceSees
<1>5. ASSUME stack # << >>, AtEnd, Fresh' = Fresh, stack' = Returned
      PROVE  Unseen(Fresh', stack') = Unseen(Fresh, stack) /\ Len(stack') < Len(stack)
  <2>1. Top.node \in Node /\ Top.next > Len(declared[Top.node])
    BY <1>5, ResolveFacts, VisitFacts
  <2> QED  BY <1>1, <1>3, <1>5, <2>1, ReturnSees
<1>6. CASE resolveDependencyGraph
  <2>1. phase = "resolve" /\ stack # << >>
    BY <1>6 DEF resolveDependencyGraph, AtDependency, AtEnd
  <2>2. Fresh = Node \ DOMAIN graph /\ Fresh' = Node \ DOMAIN graph'
    <3>1. phase # "cycle" /\ phase' = "resolve" /\ phase' # "cycle"
      BY <2>1
    <3>2. ASSUME NEW n \in Node
          PROVE  (n \in Fresh <=> n \notin DOMAIN graph) /\ (n \in Fresh' <=> n \notin DOMAIN graph')
      <4>1. n \in Fresh <=> \/ phase = "resolve" /\ n \notin DOMAIN graph
                            \/ phase = "cycle" /\ colours[n] = "new"
        BY DEF Fresh
      <4>2. n \in Fresh' <=> \/ phase' = "resolve" /\ n \notin DOMAIN graph'
                             \/ phase' = "cycle" /\ colours'[n] = "new"
        BY DEF Fresh
      <4> QED  BY <2>1, <3>1, <4>1, <4>2, Zenon
    <3>3. Fresh \subseteq Node /\ Fresh' \subseteq Node
      BY DEF Fresh
    <3> QED  BY <3>2, <3>3
  <2>3. CASE AtDependency /\ stack' = Advanced /\ graph' = graph
    <3>1. Fresh' = Fresh
      BY <2>3, <2>2
    <3> QED  BY <1>2, <1>4, <2>1, <2>3, <3>1
  <2>4. CASE AtDependency /\ Dependency \notin DOMAIN graph /\ Read(Dependency, graph, Advanced)
    <3>1. stack' = Call(Advanced, Dependency) /\ graph' = Recorded(graph, Dependency)
      BY <2>1, <2>4 DEF Read
    <3>2. DOMAIN graph' = DOMAIN graph \cup {Dependency}
      BY <3>1 DEF Recorded
    <3>3. Fresh' \in SUBSET Fresh
      BY <2>2, <3>2
    <3>4. Dependency \in Fresh
      BY <2>1, <2>4, <2>2, ResolveFacts
    <3> QED  BY <1>2, <1>4, <2>1, <2>4, <3>1, <3>3, <3>4
  <2>5. CASE AtEnd /\ stack' = Returned /\ graph' = graph
    <3>1. Fresh' = Fresh
      BY <2>5, <2>2
    <3> QED  BY <1>2, <1>5, <2>1, <2>5, <3>1
  <2> QED  BY <1>6, <2>3, <2>4, <2>5 DEF resolveDependencyGraph
<1>7. CASE visit
  <2>1. phase = "cycle" /\ stack # << >>
    BY <1>7 DEF visit, AtDependency, AtEnd
  <2>2. CASE AtDependency /\ stack' = Advanced /\ colours' = colours
    <3>1. Fresh' = Fresh
      BY <2>1, <2>2 DEF Fresh
    <3> QED  BY <1>2, <1>4, <2>1, <2>2, <3>1
  <2>3. CASE AtDependency /\ ~OnPath(colours[Dependency]) /\ colours[Dependency] # "visited"
             /\ colours' = [colours EXCEPT ![Dependency] = "visiting"]
             /\ stack' = Call(Advanced, Dependency)
    <3>1. Dependency \in Node
      BY <2>1, <2>3, VisitFacts
    <3>2. Dependency \in Fresh
      BY <1>1, <2>1, <2>3, <3>1 DEF Fresh, OnPath
    <3>3. Fresh' \in SUBSET Fresh
      BY <1>1, <2>1, <2>3, <3>1 DEF Fresh
    <3> QED  BY <1>2, <1>4, <2>1, <2>3, <3>2, <3>3
  <2>4. CASE AtEnd /\ colours' = [colours EXCEPT ![Top.node] = "visited"] /\ stack' = Returned
    <3>1. Top.node \in Node /\ colours[Top.node] = "visiting"
      BY <2>1, VisitFacts
    <3>2. Fresh' = Fresh
      BY <1>1, <2>1, <2>4, <3>1 DEF Fresh
    <3> QED  BY <1>2, <1>5, <2>1, <2>4, <3>2
  <2> QED  BY <1>7, <2>1, <2>2, <2>3, <2>4 DEF visit
<1>8. ~StartWithDependencies /\ ~CycleBegin /\ ~CycleEnd
  BY DEF StartWithDependencies, CycleBegin, CycleEnd
<1> QED  BY <1>6, <1>7, <1>8 DEF NextGraph

(* Both searches end on every finite graph: each step leaves fewer         *)
(* dependencies to look at, or as many and a call less to return from.     *)
(* The comment of resolveDependencyGraph claims it for cyclic graphs.      *)
THEOREM SearchesMoveOn == GraphSpec => [][MovesOn]_graphVars
<1>1. GraphInv /\ [NextGraph]_graphVars => [MovesOn]_graphVars
  BY MovesOnStep
<1> QED  BY <1>1, GraphInvariance, PTL DEF GraphSpec

(* Each instance declares what it depends on, in some order. *)
Declares ==
    /\ Node = Instance
    /\ \A n \in Node : deps[n] = {declared[n][k] : k \in 1 .. Len(declared[n])}

(* What DependencyStart takes for the results of the two searches is what  *)
(* they compute: if each instance declares its dependencies in some order, *)
(* Reachable is the domain of the graph the first one resolves, and Cyclic *)
(* is what the second one answers.                                         *)
THEOREM SearchesOfAFlow ==
    GraphSpec => [](Declares /\ phase = "done" =>
                        DOMAIN graph = Reachable(Root) /\ (cyclic <=> Cyclic(Root)))
<1>1. ASSUME GraphInv, Declares, phase = "done"
      PROVE  DOMAIN graph = Reachable(Root) /\ (cyclic <=> Cyclic(Root))
  <2>1. declared \in [Node -> Seq(Node)] /\ Node = Instance
    BY <1>1 DEF GraphInv, GraphType, Declares
  <2>2. ASSUME NEW n \in Node, NEW m PROVE m \in deps[n] <=> DependsOn(n, m)
    <3>1. deps[n] = {declared[n][k] : k \in 1 .. Len(declared[n])}
      BY <1>1 DEF Declares
    <3> QED  BY <3>1 DEF DependsOn
  <2>3. ASSUME NEW n \in Node, NEW m, DependsOn(n, m) PROVE m \in Node
    BY <2>1, <2>3 DEF DependsOn
  <2>4. Reachable(Root) = DependedOn
    <3>1. ASSUME NEW S \in SUBSET Node
          PROVE  (\A m \in S : deps[m] \subseteq S)
                    <=> (\A m \in S, d \in Node : DependsOn(m, d) => d \in S)
      BY <2>2, <2>3
    <3> QED  BY <2>1, <3>1, Zenon DEF Reachable, DependedOn
  <2>5. Cyclic(Root) <=> HasCycle
    <3>1. DependedOn \subseteq Node
      BY <2>1, DependedOnFacts
    <3> QED  BY <2>2, <2>4, <3>1 DEF Cyclic, HasCycle
  <2>6. DOMAIN graph = DependedOn /\ (cyclic <=> HasCycle)
    BY <1>1 DEF GraphInv, ResolvesReachable, FindsCycles
  <2> QED  BY <2>4, <2>5, <2>6
<1>2. GraphInv => (Declares /\ phase = "done" =>
                        DOMAIN graph = Reachable(Root) /\ (cyclic <=> Cyclic(Root)))
  BY <1>1
<1> QED  BY <1>2, GraphInvariance, PTL
=============================================================================
