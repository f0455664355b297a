--------------------------- MODULE DependencyStart --------------------------
(***************************************************************************)
(* pkg/sablier/instance_dependency.go: the start goroutine of an instance  *)
(* (startWithDependencies) first starts what the instance depends on, and  *)
(* waits for the condition each dependency is declared with.               *)
(*                                                                         *)
(* A flow is the start goroutine of one managed instance; InstanceRequest  *)
(* shows that an instance has one at a time.  Within a flow there is one   *)
(* goroutine of an errgroup per edge <<n, d>> of the dependency graph: the *)
(* graph is acyclic and the memo lets satisfyDependencies(n) run once.  A  *)
(* step is what happens between two calls of the provider, two critical    *)
(* sections of pendingMu or two waits.                                     *)
(***************************************************************************)
EXTENDS Naturals, FiniteSets

CONSTANTS
    Instance,
    Managed,      \* the instances that requests ask for
    OneShot,      \* instances that exit by design
    Graphs,       \* the dependency graphs to consider: what depends on what
    Condition,    \* the condition each dependency is declared with
    Faults        \* what may go wrong with each graph: a subset of {"resolve",
                  \* "inspect", "start", "boot", "stop", "timeout"}

ASSUME DependencyAssumption ==
    /\ Managed \subseteq Instance
    /\ OneShot \subseteq Instance
    /\ Graphs \subseteq [Instance -> SUBSET Instance]
    /\ Condition \in [Instance \X Instance -> STRING]

VARIABLES
    status,     \* the provider: InstanceStatus of each instance
    deps,       \* the provider: the direct dependencies of each instance
    pending,    \* s.pendingStarts: none, running, or failed and not collected
    depStarts,  \* s.depStarts: the instances with an entry
    flow,       \* where the start goroutine of each managed instance is
    expired,    \* flows whose InstanceStartTimeout has passed
    memo,       \* the dependencyMemo of each flow
    above,      \* the nodes whose errgroup contexts enclose that of a node
    branch      \* the goroutines of each flow, one per edge

vars == <<status, deps, pending, depStarts, flow, expired, memo, above, branch>>

flowVars == <<flow, expired, memo, above, branch>>

Status == {"stopped", "starting", "ready", "completed", "error"}

Edge == Instance \X Instance

(* A goroutine of satisfyDependency is done (ok, err) or about to: inspect *)
(* the dependency, look it up in the memo, join the goroutine that handles *)
(* it, wait for the errgroup of its dependencies, run                      *)
(* ensureDependencyStarted, follow the start of another flow, return from  *)
(* InstanceStart, poll the condition.                                      *)
BranchPC == {"off", "inspect", "load", "join", "group", "ensure", "follow",
             "start", "poll", "ok", "err"}

TypeOK ==
    /\ status \in [Instance -> Status]
    /\ deps \in Graphs
    /\ pending \in [Managed -> {"none", "running", "failed"}]
    /\ depStarts \subseteq Instance
    /\ flow \in [Managed -> {"idle", "resolve", "group", "start"}]
    /\ expired \subseteq Managed
    /\ memo \in [Managed -> [Instance -> {"none", "running", "ok", "err"}]]
    /\ above \in [Managed -> [Instance -> SUBSET Instance]]
    /\ branch \in [Managed -> [Edge -> BranchPC]]

Init ==
    /\ status = [i \in Instance |-> "stopped"]
    /\ deps \in Graphs
    /\ pending = [f \in Managed |-> "none"]
    /\ depStarts = {}
    /\ flow = [f \in Managed |-> "idle"]
    /\ expired = {}
    /\ memo = [f \in Managed |-> [i \in Instance |-> "none"]]
    /\ above = [f \in Managed |-> [i \in Instance |-> {}]]
    /\ branch = [f \in Managed |-> [e \in Edge |-> "off"]]

-----------------------------------------------------------------------------
(* The graph. *)

(* resolveDependencyGraph: everything root depends on, and root itself. *)
Reachable(root) ==
    {n \in Instance : \A S \in SUBSET Instance :
        root \in S /\ (\A m \in S : deps[m] \subseteq S) => n \in S}

(* dependencyGraphCycle: there are nodes each of which another one of them *)
(* depends on.  DependencyGraph.tla has the two searches of the code.      *)
Cyclic(root) ==
    \E C \in SUBSET Reachable(root) :
        C # {} /\ \A n \in C : \E m \in C : n \in deps[m]

Group(n) == {n} \X deps[n]

(* dependencyConditionSatisfied *)
ConditionSatisfied(st, condition) ==
    CASE condition = "service_healthy" -> st = "ready"
      [] condition = "service_completed_successfully" -> st = "completed"
      [] condition = "service_running_or_healthy" -> st \in {"starting", "ready"}
      [] OTHER -> st \in {"starting", "ready", "completed"}

Satisfied(e) == ConditionSatisfied(status[e[2]], Condition[e])

-----------------------------------------------------------------------------
(* What a provider call does. *)

(* InstanceStart on an instance that runs changes nothing. *)
Started(i) ==
    [status EXCEPT ![i] = IF @ \in {"starting", "ready"} THEN @ ELSE "starting"]

(* The errgroup context of node n in flow f is cancelled: by a failure in  *)
(* the group or in an enclosing one, or by the timeout of the start.       *)
Cancelled(f, n) ==
    \/ f \in expired
    \/ \E m \in above[f][n] : \E e \in Group(m) : branch[f][e] = "err"

MayFail(f, n, call) == call \in Faults[deps] \/ Cancelled(f, n)

-----------------------------------------------------------------------------
(* The start goroutine. *)

(* requestStart registers the start of f, which has no session but may run *)
(* all the same, and dispatches its goroutine.                             *)
RequestStart(f) ==
    /\ pending[f] = "none"
    /\ flow[f] = "idle"
    /\ pending' = [pending EXCEPT ![f] = "running"]
    /\ flow' = [flow EXCEPT ![f] = "resolve"]
    /\ UNCHANGED <<status, deps, depStarts, expired, memo, above, branch>>

(* A later request finds the error and clears the entry. *)
CollectError(f) ==
    /\ pending[f] = "failed"
    /\ pending' = [pending EXCEPT ![f] = "none"]
    /\ UNCHANGED <<status, deps, depStarts, flowVars>>

(* startWithDependencies returns: a failed start stays in pendingStarts.   *)
(* A goroutine that is not done would go on.                               *)
Finish(f, result) ==
    /\ pending' = [pending EXCEPT ![f] = result]
    /\ flow' = [flow EXCEPT ![f] = "idle"]
    /\ expired' = expired \ {f}
    /\ memo' = [memo EXCEPT ![f] = [i \in Instance |-> "none"]]
    /\ above' = [above EXCEPT ![f] = [i \in Instance |-> {}]]
    /\ branch' = [branch EXCEPT ![f] =
          [e \in Edge |-> IF @[e] \in {"ok", "err"} THEN "off" ELSE @[e]]]

(* The goroutines of satisfyDependencies(n) are launched; outer are the    *)
(* nodes around it.                                                        *)
Launch(f, n, outer) ==
    /\ above' = [above EXCEPT ![f][n] = outer \cup {n}]
    /\ branch' = [branch EXCEPT
          ![f] = [e \in Edge |-> IF e \in Group(n) THEN "inspect" ELSE @[e]]]

Resolve(f) ==
    /\ flow[f] = "resolve"
    /\ IF Cyclic(f) \/ deps[f] = {}
       THEN /\ flow' = [flow EXCEPT ![f] = "start"]
            /\ UNCHANGED <<above, branch>>
       ELSE /\ flow' = [flow EXCEPT ![f] = "group"]
            /\ Launch(f, f, {})
    /\ UNCHANGED <<status, deps, pending, depStarts, expired, memo>>

ResolveFails(f) ==
    /\ flow[f] = "resolve"
    /\ "resolve" \in Faults[deps] \/ f \in expired
    /\ Finish(f, "failed")
    /\ UNCHANGED <<status, deps, depStarts>>

(* Mutant of GroupDone: the first failure ends the wait. *)
GroupDoneOrFailed(f, n) ==
    \/ \A e \in Group(n) : branch[f][e] = "ok"
    \/ \E e \in Group(n) : branch[f][e] = "err"

(* g.Wait returns once every goroutine of the group has. *)
GroupDone(f, n) == \A e \in Group(n) : branch[f][e] \in {"ok", "err"}

GroupFailed(f, n) == \E e \in Group(n) : branch[f][e] = "err"

DependenciesDone(f) ==
    /\ flow[f] = "group"
    /\ GroupDone(f, f)
    /\ IF GroupFailed(f, f)
       THEN Finish(f, "failed")
       ELSE /\ flow' = [flow EXCEPT ![f] = "start"]
            /\ UNCHANGED <<pending, expired, memo, above, branch>>
    /\ UNCHANGED <<status, deps, depStarts>>

(* The InstanceStart of f itself. *)
StartRoot(f) ==
    /\ flow[f] = "start"
    /\ \/ status' = Started(f) /\ Finish(f, "none")
       \/ /\ "start" \in Faults[deps] \/ f \in expired
          /\ status' \in {status, Started(f)}
          /\ Finish(f, "failed")
    /\ UNCHANGED <<deps, depStarts>>

-----------------------------------------------------------------------------
(* A goroutine of an errgroup, on edge <<n, d>> of flow f. *)

Goto(f, e, pc) == branch' = [branch EXCEPT ![f][e] = pc]

(* startDependencyNode returns r on this edge and to those who join it. *)
NodeDone(f, e, r) ==
    /\ memo' = [memo EXCEPT ![f][e[2]] = r]
    /\ Goto(f, e, IF r = "ok" THEN "poll" ELSE "err")

(* satisfyDependency: an inspection that fails is not an error here. *)
InspectDependency(f, e) ==
    /\ branch[f][e] = "inspect"
    /\ \/ Goto(f, e, IF Satisfied(e) THEN "ok" ELSE "load")
       \/ MayFail(f, e[1], "inspect") /\ Goto(f, e, "load")
    /\ UNCHANGED <<status, deps, pending, depStarts, flow, expired, memo, above>>

(* Mutant of LoadMemo: the result is not looked up. *)
LoadAlwaysFirst(f, e) ==
    /\ branch[f][e] = "load"
    /\ memo' = [memo EXCEPT ![f][e[2]] = "running"]
    /\ above' = [above EXCEPT ![f][e[2]] = above[f][e[1]] \cup {e[2]}]
    /\ branch' = [branch EXCEPT ![f] = [x \in Edge |->
          IF x = e THEN "group" ELSE
          IF x \in Group(e[2]) THEN "inspect" ELSE @[x]]]
    /\ UNCHANGED <<status, deps, pending, depStarts, flow, expired>>

(* startDependencyNode: the first to load the node handles it. *)
LoadMemo(f, e) ==
    /\ branch[f][e] = "load"
    /\ IF memo[f][e[2]] = "none"
       THEN /\ memo' = [memo EXCEPT ![f][e[2]] = "running"]
            /\ above' = [above EXCEPT ![f][e[2]] = above[f][e[1]] \cup {e[2]}]
            /\ branch' = [branch EXCEPT ![f] = [x \in Edge |->
                  IF x = e THEN "group" ELSE
                  IF x \in Group(e[2]) THEN "inspect" ELSE @[x]]]
       ELSE Goto(f, e, "join") /\ UNCHANGED <<memo, above>>
    /\ UNCHANGED <<status, deps, pending, depStarts, flow, expired>>

(* Mutant of JoinNode: the channel of a result is closed on errors only. *)
JoinFailed(f, e) ==
    /\ branch[f][e] = "join"
    /\ memo[f][e[2]] = "err" \/ Cancelled(f, e[1])
    /\ Goto(f, e, "err")
    /\ UNCHANGED <<status, deps, pending, depStarts, flow, expired, memo, above>>

JoinNode(f, e) ==
    /\ branch[f][e] = "join"
    /\ \/ memo[f][e[2]] = "ok" /\ Goto(f, e, "poll")
       \/ memo[f][e[2]] = "err" /\ Goto(f, e, "err")
       \/ Cancelled(f, e[1]) /\ Goto(f, e, "err")
    /\ UNCHANGED <<status, deps, pending, depStarts, flow, expired, memo, above>>

WaitGroup(f, e) ==
    /\ branch[f][e] = "group"
    /\ GroupDone(f, e[2])
    /\ IF GroupFailed(f, e[2])
       THEN NodeDone(f, e, "err")
       ELSE Goto(f, e, "ensure") /\ UNCHANGED memo
    /\ UNCHANGED <<status, deps, pending, depStarts, flow, expired, above>>

(* Mutant of EnsureStarted: a start in flight is not looked up. *)
EnsureUnshared(f, e) ==
    /\ branch[f][e] = "ensure"
    /\ \/ /\ e[2] \in Managed /\ pending[e[2]] # "none"
          /\ NodeDone(f, e, "ok")
          /\ UNCHANGED depStarts
       \/ /\ e[2] \in Managed => pending[e[2]] = "none"
          /\ Goto(f, e, "start")
          /\ depStarts' = depStarts \cup {e[2]}
          /\ UNCHANGED memo
    /\ UNCHANGED <<status, deps, pending, flow, expired, above>>

(* ensureDependencyStarted, under pendingMu: a managed start is left to    *)
(* its goroutine, a start of another flow is followed.                     *)
EnsureStarted(f, e) ==
    /\ branch[f][e] = "ensure"
    /\ \/ /\ e[2] \in Managed /\ pending[e[2]] # "none"
          /\ NodeDone(f, e, "ok")
          /\ UNCHANGED depStarts
       \/ /\ e[2] \in Managed => pending[e[2]] = "none"
          /\ Goto(f, e, IF e[2] \in depStarts THEN "follow" ELSE "start")
          /\ depStarts' = depStarts \cup {e[2]}
          /\ UNCHANGED memo
    /\ UNCHANGED <<status, deps, pending, flow, expired, above>>

FollowCancelled(f, e) ==
    /\ branch[f][e] = "follow"
    /\ Cancelled(f, e[1])
    /\ NodeDone(f, e, "err")
    /\ UNCHANGED <<status, deps, pending, depStarts, flow, expired, above>>

(* InstanceStart returns r; the entry goes and everyone who follows it     *)
(* gets r.                                                                 *)
StartReturns(f, e, r) ==
    LET Party == {fx \in Managed \X Edge :
            \/ fx = <<f, e>>
            \/ fx[2][2] = e[2] /\ branch[fx[1]][fx[2]] = "follow"}
    IN  /\ depStarts' = depStarts \ {e[2]}
        /\ memo' = [x \in Managed |-> [d \in Instance |->
              IF d = e[2] /\ \E y \in Edge : <<x, y>> \in Party
              THEN r ELSE memo[x][d]]]
        /\ branch' = [x \in Managed |-> [y \in Edge |->
              IF <<x, y>> \in Party
              THEN IF r = "ok" THEN "poll" ELSE "err"
              ELSE branch[x][y]]]

StartDependency(f, e) ==
    /\ branch[f][e] = "start"
    /\ \/ status' = Started(e[2]) /\ StartReturns(f, e, "ok")
       \/ /\ MayFail(f, e[1], "start")
          /\ status' \in {status, Started(e[2])}
          /\ StartReturns(f, e, "err")
    /\ UNCHANGED <<deps, pending, flow, expired, above>>

(* Mutant of PollCondition: one look at the dependency is enough. *)
PollOnce(f, e) ==
    /\ branch[f][e] = "poll"
    /\ \/ status[e[2]] # "error" /\ Goto(f, e, "ok")
       \/ status[e[2]] = "error" /\ Goto(f, e, "err")
       \/ MayFail(f, e[1], "inspect") /\ Goto(f, e, "err")
    /\ UNCHANGED <<status, deps, pending, depStarts, flow, expired, memo, above>>

(* Mutant of PollCondition: the context is not looked at. *)
PollForever(f, e) ==
    /\ branch[f][e] = "poll"
    /\ \/ Satisfied(e) /\ Goto(f, e, "ok")
       \/ status[e[2]] = "error" /\ Goto(f, e, "err")
    /\ UNCHANGED <<status, deps, pending, depStarts, flow, expired, memo, above>>

(* waitForDependencyCondition; a poll that decides nothing is a stutter.   *)
PollCondition(f, e) ==
    /\ branch[f][e] = "poll"
    /\ \/ Satisfied(e) /\ Goto(f, e, "ok")
       \/ status[e[2]] = "error" /\ Goto(f, e, "err")
       \/ MayFail(f, e[1], "inspect") /\ Goto(f, e, "err")
    /\ UNCHANGED <<status, deps, pending, depStarts, flow, expired, memo, above>>

BranchStep(f, e) ==
    \/ InspectDependency(f, e)
    \/ LoadMemo(f, e)
    \/ JoinNode(f, e)
    \/ WaitGroup(f, e)
    \/ EnsureStarted(f, e)
    \/ FollowCancelled(f, e)
    \/ StartDependency(f, e)
    \/ PollCondition(f, e)

FlowStep(f) ==
    \/ Resolve(f)
    \/ ResolveFails(f)
    \/ DependenciesDone(f)
    \/ StartRoot(f)

-----------------------------------------------------------------------------
(* The environment. *)

(* A started service becomes healthy, a one-shot completes. *)
Settle(i) ==
    /\ status[i] = "starting"
    /\ \/ status' = [status EXCEPT ![i] =
                        IF i \in OneShot THEN "completed" ELSE "ready"]
       \/ "boot" \in Faults[deps] /\ status' = [status EXCEPT ![i] = "error"]
    /\ UNCHANGED <<deps, pending, depStarts, flowVars>>

(* A session expires, or someone stops the instance. *)
StopInstance(i) ==
    /\ "stop" \in Faults[deps]
    /\ status[i] \in {"starting", "ready"}
    /\ status' = [status EXCEPT ![i] = "stopped"]
    /\ UNCHANGED <<deps, pending, depStarts, flowVars>>

(* InstanceStartTimeout passes. *)
Timeout(f) ==
    /\ "timeout" \in Faults[deps]
    /\ flow[f] # "idle"
    /\ f \notin expired
    /\ expired' = expired \cup {f}
    /\ UNCHANGED <<status, deps, pending, depStarts, flow, memo, above, branch>>

Next ==
    \/ \E f \in Managed : \/ RequestStart(f) \/ CollectError(f) \/ Timeout(f)
                          \/ FlowStep(f)
    \/ \E f \in Managed, e \in Edge : BranchStep(f, e)
    \/ \E i \in Instance : Settle(i) \/ StopInstance(i)

SafetySpec == Init /\ [][Next]_vars

(* Goroutines run, provider calls return, instances settle, the timeout of *)
(* a start fires.  A goroutine of a flow takes a few steps only, so it is  *)
(* enough that some goroutine of the flow runs.                            *)
Fairness ==
    /\ \A f \in Managed : /\ WF_vars(FlowStep(f))
                           /\ WF_vars(Timeout(f))
                           /\ WF_vars(\E e \in Edge : BranchStep(f, e))
    /\ \A i \in Instance : WF_vars(Settle(i))

Spec == SafetySpec /\ Fairness

-----------------------------------------------------------------------------
(* Properties. *)

Up(i) == status[i] \in {"starting", "ready"}

Active(f, e) == branch[f][e] \notin {"off", "ok", "err"}

(* The goroutine of edge e handles the node at its end. *)
Handles(f, e) == branch[f][e] \in {"group", "ensure", "follow", "start"}

(* ensureDependencyStarted: over all flows, an entry of depStarts stands   *)
(* for one InstanceStart in flight, so dependency flows never start a      *)
(* dependency twice at once and nobody follows a start that is over.  A    *)
(* requestStart for the same instance has its own table, pendingStarts.    *)
OneDependencyStart ==
    /\ \A f, g \in Managed, e, x \in Edge :
          branch[f][e] = "start" /\ branch[g][x] = "start" /\ e[2] = x[2]
              => f = g /\ e = x
    /\ \A d \in Instance :
          d \in depStarts <=> \E f \in Managed, n \in Instance :
                                branch[f][<<n, d>>] = "start"
    /\ \A f \in Managed, e \in Edge : branch[f][e] = "follow" => e[2] \in depStarts

(* The memo: in a flow one goroutine at most handles a node, and while the *)
(* node is marked as running there is one, so whoever joins will be told.  *)
HandledOnce ==
    \A f \in Managed :
        /\ \A e, x \in Edge : Handles(f, e) /\ Handles(f, x) /\ e[2] = x[2] => e = x
        /\ \A d \in Instance :
              memo[f][d] = "running" <=> \E n \in Instance : Handles(f, <<n, d>>)

(* errgroup.Wait: when the instance itself is started, or its start has    *)
(* failed, no goroutine of its flow is left, in particular none that would *)
(* still start a dependency.                                               *)
NoStragglers ==
    \A f \in Managed, e \in Edge : Active(f, e) => flow[f] = "group"

(* As long as nothing fails or is stopped behind its back, Sablier starts  *)
(* in order: whatever runs, or runs as a dependency, has its dependencies  *)
(* up in the condition they are declared with.                             *)
StartedInOrder ==
    Faults[deps] \cap {"boot", "stop"} = {} =>
        \A n \in Instance : Up(n) => (\A e \in Group(n) : Satisfied(e)) \/ Cyclic(n)

(* A start ends, however its dependencies behave, with the timeout at the  *)
(* latest.                                                                 *)
StartsEnd == \A f \in Managed : flow[f] # "idle" ~> flow[f] = "idle"

(* Where nothing fails every start succeeds, without the timeout: flows    *)
(* that share dependencies or depend on each other never block each other, *)
(* and cycles are cut.                                                     *)
StartsSucceed ==
    Faults[deps] = {} =>
        \A f \in Managed : flow[f] # "idle" ~> flow[f] = "idle" /\ pending[f] = "none"

=============================================================================
