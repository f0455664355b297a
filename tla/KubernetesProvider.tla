------------------------- MODULE KubernetesProvider -------------------------
(***************************************************************************)
(* pkg/provider/kubernetes.  The workload is a Deployment, a StatefulSet   *)
(* (perhaps of the redis-operator) or a CloudNativePG Cluster:             *)
(*   exists    there is such an object                                     *)
(*   replicas  spec.replicas; of a Cluster, its instances unless the       *)
(*             hibernation annotation is "on", then 0                      *)
(*   ready     status.readyReplicas or status.readyInstances, which lags   *)
(*   limits    which profile the container's resource limits come from     *)
(*   skip      the skip-reconcile annotation of the owning Redis resource  *)
(*   lapse     a call that should have taken it away did not               *)
(* Options: kind, redis, first (readyOnFirstReplica), labelled and active  *)
(* (sablier.active.replicas), named (the replicas in the instance's name), *)
(* idle, activeRes, idleRes, invalid, types, and flaky: requests that only *)
(* log their failure (the annotation's) may fail.                          *)
(***************************************************************************)
EXTENDS ProviderCalls

InitKubernetes ==
    /\ work = [exists |-> TRUE, replicas |-> 0, ready |-> 0,
               skip |-> cfg.redis /\ cfg.idle = 0, lapse |-> FALSE,
               limits |-> [f \in Field |-> "none"]]
    /\ calls = [c \in Caller |-> NoCall]
    /\ asked = "none"
    /\ stream = [chan |-> NewStream.chan, cancelled |-> FALSE, out |-> "none",
                 owed |-> 0, wire |-> <<"off">>, known |-> "gone", todo |-> <<>>]

Cluster == cfg.kind = "cnpgcluster"

-----------------------------------------------------------------------------
(* InstanceInspect and InstanceList. *)

(* When a workload with replicas is ready; a StatefulSet has the same code *)
(* as a Deployment.                                                        *)
DeploymentInspect ==
    IF cfg.first THEN work.ready > 0 ELSE work.ready = work.replicas

StatefulSetInspect == DeploymentInspect

ClusterInspect == work.ready >= work.replicas

IsReady ==
    CASE cfg.kind = "deployment"  -> DeploymentInspect
      [] cfg.kind = "statefulset" -> StatefulSetInspect
      [] Cluster                  -> ClusterInspect

InstanceInspect ==
    CASE ~work.exists                            -> "error"
      [] work.exists /\ work.replicas = 0        -> "stopped"
      [] OTHER -> IF IsReady THEN "ready" ELSE "starting"

(* deploymentIsRunning, statefulSetIsRunning and clusterIsRunning look at  *)
(* the specification, not at the pods.                                     *)
InstanceList == work.exists /\ work.replicas # 0

-----------------------------------------------------------------------------
(* The API server: who watches the object gets every version of it. *)

Seen(w) == CASE ~w.exists                      -> "gone"
             [] w.exists /\ w.replicas = 0     -> "off"
             [] OTHER                          -> "on"

Last == IF stream.wire = <<>> THEN stream.known
        ELSE stream.wire[Len(stream.wire)]

(* The stops between two versions; a removal is one. *)
Falls(from, to) ==
    IF /\ Wants("stopped")
       /\ (from = "on" /\ to = "off") \/ (from # "gone" /\ to = "gone")
    THEN 1 ELSE 0

Write(w) ==
    /\ work' = w
    /\ IF stream.chan # "open" \/ Seen(w) = Last THEN UNCHANGED stream
       ELSE /\ Len(stream.wire) < MaxWire
            /\ stream' = [stream EXCEPT !.wire = Append(@, Seen(w)),
                                        !.owed = @ + Falls(Last, Seen(w))]

-----------------------------------------------------------------------------
(* InstanceStart and InstanceStop. *)

(* The label wins over the replicas in the instance's name, which win over *)
(* the default of one.                                                     *)
activeReplicas ==
    CASE cfg.labelled                       -> cfg.active
      [] ~cfg.labelled /\ cfg.named > 1     -> cfg.named
      [] OTHER                              -> 1

(* A Cluster is hibernated or resumed by one patch. *)
clusterHibernate(c) ==
    /\ Cluster
    /\ calls[c].step = "begin"
    /\ \/ /\ work.exists
          /\ Write([work EXCEPT
                !.replicas = IF calls[c].op = "start" THEN cfg.active ELSE 0])
          /\ WroteAndReturn(c, TRUE)
       \/ ~work.exists /\ Return(c, FALSE) /\ UNCHANGED <<work, stream>>

(* A StatefulSet that goes to zero: its operator has to let it. *)
ToZero(c) == calls[c].op = "stop" /\ cfg.idle = 0

getWorkloadLabels(c, step) ==
    /\ ~Cluster
    /\ work.exists
    /\ Goto(c, step)
    /\ UNCHANGED <<work, stream>>

InstanceStart(c) == At(c, "start", "begin") /\ getWorkloadLabels(c, "getScale")

InstanceStop(c) ==
    /\ At(c, "stop", "begin")
    /\ getWorkloadLabels(c, IF ToZero(c) /\ cfg.kind = "statefulset"
                            THEN "owner" ELSE "getScale")

(* redisOperatorOwner; that the StatefulSet cannot be read is only logged. *)
redisOperatorOwner(c) ==
    /\ calls[c].step = "owner"
    /\ \/ work.exists /\ Goto(c, IF cfg.redis THEN "skip" ELSE "getScale")
       \/ (~work.exists \/ cfg.flaky) /\ Goto(c, "getScale")
    /\ UNCHANGED <<work, stream>>

(* Mutant of SkipReconcile: nothing is deferred. *)
SkipForGood(c) ==
    /\ calls[c].step = "skip"
    /\ work' = [work EXCEPT !.skip = TRUE, !.lapse = FALSE]
    /\ calls' = [calls EXCEPT ![c].step = "getScale"]
    /\ UNCHANGED <<cfg, asked, stream>>

(* setRedisOperatorSkipReconcile(true), and the deferred restore. *)
SkipReconcile(c) ==
    /\ calls[c].step = "skip"
    /\ \/ work' = [work EXCEPT !.skip = TRUE, !.lapse = FALSE]
       \/ cfg.flaky /\ UNCHANGED work
    /\ calls' = [calls EXCEPT ![c].step = "getScale", ![c].undo = TRUE]
    /\ UNCHANGED <<cfg, asked, stream>>

GetScale(c) ==
    /\ calls[c].step = "getScale"
    /\ work.exists
    /\ ReadAndGoto(c, "setScale")
    /\ UNCHANGED <<work, stream>>

(* Where a call goes on that has scaled, or that has nothing more to scale. *)
AfterScale(c) ==
    CASE Named(calls[c].op) # {} /\ ~ToZero(c)                    -> "limits"
      [] calls[c].op = "start" /\ cfg.kind = "statefulset"
            /\ cfg.activeRes = {}                                 -> "fetch"
      [] OTHER                                                    -> "done"

(* UpdateScale is refused when the object changed since GetScale. *)
UpdateScale(c) ==
    /\ calls[c].step = "setScale"
    /\ work.exists /\ calls[c].fresh
    /\ Write([work EXCEPT !.replicas = IF calls[c].op = "start"
                                       THEN activeReplicas ELSE cfg.idle])
    /\ IF AfterScale(c) = "done" THEN WroteAndReturn(c, TRUE)
       ELSE WroteAndGoto(c, AfterScale(c))

(* scaleResources, after the scale: with an invalid value it fails. *)
scaleResources(c) ==
    /\ calls[c].step = "limits"
    /\ work.exists /\ cfg.invalid = {}
    /\ work' = [work EXCEPT !.limits = Applied(calls[c].op)]
    /\ IF calls[c].op = "start" /\ cfg.kind = "statefulset"
       THEN WroteAndGoto(c, "fetch") ELSE WroteAndReturn(c, TRUE)
    /\ UNCHANGED stream

(* setRedisOperatorSkipReconcile(false), whose failure is only logged; and *)
(* what it means for an operator that it is left out.                      *)
Resume ==
    \/ work' = [work EXCEPT !.skip = FALSE, !.lapse = FALSE]
    \/ cfg.flaky /\ work' = [work EXCEPT !.lapse = work.skip]

NotResumed == work' = [work EXCEPT !.lapse = work.skip]

(* The deferred end of a successful start of a StatefulSet: read it, and   *)
(* let its operator work again.  Failures are only logged.                 *)
FetchOwner(c) ==
    /\ calls[c].step = "fetch"
    /\ \/ work.exists /\ Goto(c, "unskip") /\ UNCHANGED work
       \/ (~work.exists \/ cfg.flaky) /\ Return(c, TRUE) /\ NotResumed
    /\ UNCHANGED stream

UnskipReconcile(c) ==
    /\ calls[c].step = "unskip"
    /\ Resume
    /\ Return(c, TRUE)
    /\ UNCHANGED stream

(* The deferred end of a stop that failed after it paused the operator. *)
RestoreReconcile(c) ==
    /\ calls[c].step = "restore"
    /\ Resume
    /\ Return(c, FALSE)
    /\ UNCHANGED stream

(* A request fails, or has to: the object is gone, was changed meanwhile,  *)
(* or the limit is not valid.  A start that has scaled the StatefulSet up  *)
(* by then leaves its operator as it is: its deferred function does        *)
(* nothing after an error.                                                 *)
FailKubernetes(c) ==
    /\ calls[c].step \in {"begin", "getScale", "setScale", "limits"}
    /\ IF calls[c].undo THEN Goto(c, "restore") ELSE Return(c, FALSE)
    /\ IF At(c, "start", "limits") THEN NotResumed ELSE UNCHANGED work
    /\ UNCHANGED stream

CallStep(c) ==
    \/ clusterHibernate(c) \/ InstanceStart(c) \/ InstanceStop(c)
    \/ redisOperatorOwner(c)
    \/ SkipReconcile(c) \/ GetScale(c) \/ UpdateScale(c) \/ scaleResources(c)
    \/ FetchOwner(c) \/ UnskipReconcile(c) \/ RestoreReconcile(c)

-----------------------------------------------------------------------------
(* InstanceEvents: an informer compares each version with the one before,  *)
(* and its handlers send without looking at the context; the channels are  *)
(* never closed.                                                           *)

Streaming == stream.chan = "open" /\ UNCHANGED <<cfg, work, calls, asked>>

(* An event of a type the subscriber asked for. *)
Told(type) == IF Wants(type) THEN <<type>> ELSE <<>>

(* Mutant of deploymentEventHandler: a change of the replicas is not told. *)
HandlerMissesScale(old, new) ==
    CASE old = "gone" /\ new # "gone" -> Told("created")
      [] old # "gone" /\ new = "gone" -> Told("removed") \o Told("stopped")
      [] OTHER                        -> <<>>

(* AddFunc, UpdateFunc and DeleteFunc: the events of a change.  Those of a *)
(* StatefulSet are the same; those of a Cluster compare the annotation.    *)
deploymentEventHandler(old, new) ==
    CASE old = "gone" /\ new # "gone" -> Told("created")
      [] old = "on" /\ new = "off"    -> Told("stopped")
      [] old = "off" /\ new = "on"    -> Told("started")
      [] old # "gone" /\ new = "gone" -> Told("removed") \o Told("stopped")
      [] OTHER                        -> <<>>

statefulSetEventHandler(old, new) == deploymentEventHandler(old, new)

watchClusters(old, new) ==
    IF new = "gone" \/ old = "gone" THEN deploymentEventHandler(old, new)
    ELSE CASE old # "off" /\ new = "off" -> Told("stopped")
           [] old = "off" /\ new # "off" -> Told("started")
           [] OTHER                      -> <<>>

Handler(old, new) ==
    CASE cfg.kind = "deployment"  -> deploymentEventHandler(old, new)
      [] cfg.kind = "statefulset" -> statefulSetEventHandler(old, new)
      [] Cluster                  -> watchClusters(old, new)

Handle ==
    /\ Streaming
    /\ stream.out = "none" /\ stream.todo = <<>> /\ stream.wire # <<>>
    /\ stream' = [stream EXCEPT
            !.wire = Tail(@), !.known = Head(stream.wire),
            !.todo = Handler(stream.known, Head(stream.wire))]

Offer ==
    /\ Streaming
    /\ stream.out = "none" /\ stream.todo # <<>>
    /\ stream' = [stream EXCEPT !.out = Head(stream.todo), !.todo = Tail(@)]

(* The watch is lost: the informer lists again and compares what it finds  *)
(* with what it knew.  A removal it missed comes as a tombstone.           *)
Relist ==
    /\ Streaming
    /\ stream.out = "none" /\ stream.todo = <<>>
    /\ LET now == Seen(work) IN
       stream' = [stream EXCEPT
            !.wire = IF now = stream.known THEN <<>> ELSE <<now>>,
            !.owed = Falls(stream.known, now)]

Serve == Handle \/ Offer

-----------------------------------------------------------------------------
(* The controllers bring up or end pods, one at a time. *)
Settle ==
    /\ work.exists /\ work.ready # work.replicas
    /\ work' = [work EXCEPT !.ready = IF @ < work.replicas THEN @ + 1 ELSE @ - 1]
    /\ Progress
    /\ UNCHANGED stream

PodEnds ==
    /\ work.ready > 0
    /\ work' = [work EXCEPT !.ready = @ - 1]
    /\ Disturb
    /\ UNCHANGED stream

(* The redis-operator restores the replicas of its StatefulSet. *)
OperatorReconciles ==
    /\ cfg.redis /\ ~work.skip /\ work.exists /\ work.replicas # 1
    /\ Write([work EXCEPT !.replicas = 1])
    /\ Disturb

(* Somebody uses kubectl, but not on what an operator manages. *)
Operate ==
    /\ ~cfg.redis
    /\ \/ /\ work.exists
          /\ \/ \E n \in {0, 1} : Write([work EXCEPT !.replicas = n])
             \/ Write([work EXCEPT !.exists = FALSE, !.replicas = 0, !.ready = 0])
       \/ ~work.exists /\ Write([work EXCEPT !.exists = TRUE])
    /\ Disturb

Environment == PodEnds \/ OperatorReconciles \/ Operate \/ Relist

-----------------------------------------------------------------------------
(* What the provider promises. *)

Up == work.exists /\ work.replicas > 0

Awake ==
    IF Cluster THEN work.replicas = cfg.active
    ELSE work.replicas = activeReplicas /\ HasLimits("start")

Asleep ==
    IF Cluster THEN work.replicas = 0
    ELSE work.replicas = cfg.idle /\ (cfg.idle >= 1 => HasLimits("stop"))

(* What the comment in InstanceStop promises: once the calls are over, the *)
(* redis-operator is not paused while pods run.  What leaves it paused is  *)
(* one of two failures of the call that was to resume it: of the request   *)
(* that reads the owner or writes the annotation, which is only logged, or *)
(* of a start that has scaled the StatefulSet up and cannot set its        *)
(* limits.                                                                 *)
OperatorNotLeftPaused ==
    work.skip /\ work.replicas > 0 /\ (\A c \in Caller : calls[c] = NoCall)
        => work.lapse
=============================================================================
