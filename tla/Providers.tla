----------------------------- MODULE Providers ------------------------------
(***************************************************************************)
(* setupProvider (pkg/sabliercmd/provider.go) makes one provider, the one  *)
(* the configuration names; whichever it is, Sablier calls it in the same  *)
(* way.  This module states what all of them have to do.                   *)
(***************************************************************************)
EXTENDS ProviderCalls

CONSTANTS
    Configs,  \* the configurations to look at
    MaxEdits  \* bound on the edits of a unit file

(* The options of a provider together with the labels of a workload. *)
EventTypes == {"created", "started", "stopped", "removed"}

DockerConfig ==
    [provider : {"docker"}, podman : BOOLEAN, strategy : {"stop", "pause"},
     honor : BOOLEAN, restart : BOOLEAN, check : BOOLEAN, idle : Nat,
     activeRes : SUBSET Field, idleRes : SUBSET Field, invalid : SUBSET Field,
     types : SUBSET EventTypes, callers : SUBSET Caller]

SwarmConfig ==
    [provider : {"swarm"}, replicated : BOOLEAN, active : Nat, idle : Nat,
     activeRes : SUBSET Field, idleRes : SUBSET Field, invalid : SUBSET Field,
     types : SUBSET EventTypes, callers : SUBSET Caller]

KubernetesConfig ==
    [provider : {"kubernetes"}, kind : {"deployment", "statefulset", "cnpgcluster"},
     redis : BOOLEAN, first : BOOLEAN, labelled : BOOLEAN, active : Nat,
     named : Nat, idle : Nat, activeRes : SUBSET Field, idleRes : SUBSET Field,
     invalid : SUBSET Field, types : SUBSET EventTypes, flaky : BOOLEAN,
     callers : SUBSET Caller]

SystemdConfig ==
    [provider : {"systemd"}, match : BOOLEAN, edited : BOOLEAN, idle : Nat,
     activeRes : SUBSET Field, idleRes : SUBSET Field, invalid : SUBSET Field,
     types : SUBSET EventTypes, callers : SUBSET Caller]

ProxmoxConfig ==
    [provider : {"proxmox"}, skips : BOOLEAN, types : SUBSET EventTypes,
     callers : SUBSET Caller]

(* The redis-operator owns StatefulSets only. *)
ASSUME ConfigsAssumption ==
    /\ Configs \subseteq DockerConfig \cup SwarmConfig \cup KubernetesConfig
                              \cup SystemdConfig \cup ProxmoxConfig
    /\ \A c \in Configs :
        c.provider = "kubernetes" /\ c.redis => c.kind = "statefulset"

ASSUME CallerAssumption == "nobody" \notin Caller

Docker     == INSTANCE DockerProvider
Swarm      == INSTANCE SwarmProvider
Kubernetes == INSTANCE KubernetesProvider
Systemd    == INSTANCE SystemdProvider
Proxmox    == INSTANCE ProxmoxProvider

Is(name) == cfg.provider = name

Init ==
    /\ cfg \in Configs
    /\ CASE Is("docker")     -> Docker!InitDocker
         [] Is("swarm")      -> Swarm!InitSwarm
         [] Is("kubernetes") -> Kubernetes!InitKubernetes
         [] Is("systemd")    -> Systemd!InitSystemd
         [] Is("proxmox")    -> Proxmox!InitProxmox

-----------------------------------------------------------------------------
(* A step of a call, or its failure. *)
CallStep(c) ==
    \/ Is("docker")     /\ Docker!CallStep(c)
    \/ Is("swarm")      /\ Swarm!CallStep(c)
    \/ Is("kubernetes") /\ Kubernetes!CallStep(c)
    \/ Is("systemd")    /\ Systemd!CallStep(c)
    \/ Is("proxmox")    /\ Proxmox!CallStep(c)

CallFails(c) ==
    \/ (Is("docker") \/ Is("swarm")) /\ Fail(c)
    \/ Is("kubernetes") /\ Kubernetes!FailKubernetes(c)
    \/ Is("systemd")    /\ Systemd!FailSystemd(c)
    \/ Is("proxmox")    /\ Proxmox!FailProxmox(c)

(* A step of the goroutine behind the events. *)
Serve ==
    \/ Is("docker")     /\ Docker!ServeDocker
    \/ Is("swarm")      /\ Swarm!ServeSwarm
    \/ Is("kubernetes") /\ Kubernetes!Serve
    \/ Is("systemd")    /\ Systemd!Forward

(* A poll of the platform. *)
Poll ==
    \/ Is("systemd")    /\ Systemd!Poll
    \/ Is("proxmox")    /\ (Proxmox!InitialScan \/ Proxmox!Poll)

Close ==
    \/ Is("docker")     /\ Docker!Close
    \/ Is("swarm")      /\ Swarm!Close
    \/ Is("systemd")    /\ Systemd!Close
    \/ Is("proxmox")    /\ Proxmox!Close

(* Scans and inspections Sablier makes again and again. *)
Scan == Is("proxmox") /\ Proxmox!Scan

Inspect == Is("proxmox") /\ \E c \in Caller : Proxmox!checkPendingTask(c)

(* The platform does what it was told. *)
Settle ==
    \/ Is("docker")     /\ Docker!Settle
    \/ Is("swarm")      /\ Swarm!Settle
    \/ Is("kubernetes") /\ Kubernetes!Settle
    \/ Is("systemd")    /\ Systemd!Settle
    \/ Is("proxmox")    /\ Proxmox!Settle

(* Whatever else happens. *)
Environment ==
    \/ Is("docker")     /\ Docker!Environment
    \/ Is("swarm")      /\ Swarm!Environment
    \/ Is("kubernetes") /\ Kubernetes!Environment
    \/ Is("systemd")    /\ Systemd!Environment
    \/ Is("proxmox")    /\ Proxmox!Environment

Next ==
    \/ \E c \in Caller :
        Begin(c, "start") \/ Begin(c, "stop") \/ CallStep(c) \/ CallFails(c)
    \/ Serve \/ Poll \/ Close \/ Receive \/ Cancel
    \/ Scan \/ Inspect \/ Settle \/ Environment

(* Goroutines run, tickers tick and clients ask again; the platform gets   *)
(* on with its work.  A call may have to wait for it, and ends at the      *)
(* latest with its context.                                                *)
Spec ==
    /\ Init /\ [][Next]_vars
    /\ \A c \in Caller : WF_vars(CallStep(c) \/ CallFails(c))
    /\ WF_vars(Serve) /\ WF_vars(Poll) /\ WF_vars(Close) /\ WF_vars(Receive)
    /\ WF_vars(Scan) /\ WF_vars(Inspect) /\ WF_vars(Settle)

-----------------------------------------------------------------------------
(* What Sablier sees of the workload. *)

Status ==
    CASE Is("docker")     -> Docker!InstanceInspect
      [] Is("swarm")      -> Swarm!InstanceInspect
      [] Is("kubernetes") -> Kubernetes!InstanceInspect
      [] Is("systemd")    -> Systemd!InstanceInspect
      [] Is("proxmox")    -> Proxmox!InstanceInspect

Listed ==
    CASE Is("docker")     -> Docker!InstanceList
      [] Is("swarm")      -> Swarm!InstanceList
      [] Is("kubernetes") -> Kubernetes!InstanceList
      [] Is("systemd")    -> Systemd!InstanceList
      [] Is("proxmox")    -> Proxmox!InstanceList

Up ==
    CASE Is("docker")     -> Docker!Up
      [] Is("swarm")      -> Swarm!Up
      [] Is("kubernetes") -> Kubernetes!Up
      [] Is("systemd")    -> Systemd!Up
      [] Is("proxmox")    -> Proxmox!Up

-----------------------------------------------------------------------------
(* What the documentation promises of a start ("restarts it on demand"):   *)
(* when InstanceStart has returned without an error and nothing else       *)
(* touched the workload, then it is up, whatever state the start found it  *)
(* in and however it was configured.                                       *)
StartKept ==
    asked = "start" =>
        CASE Is("docker")     -> Docker!Awake
          [] Is("swarm")      -> Swarm!Awake
          [] Is("kubernetes") -> Kubernetes!Awake
          [] Is("systemd")    -> Systemd!Awake
          [] Is("proxmox")    -> Proxmox!Awake

(* The same of a stop, which "supersedes" a start in progress (comment in  *)
(* proxmoxlxc/container_stop.go): the workload is down, or at its idle     *)
(* profile, and nothing is bringing it up.                                 *)
StopKept ==
    asked = "stop" =>
        CASE Is("docker")     -> Docker!Asleep
          [] Is("swarm")      -> Swarm!Asleep
          [] Is("kubernetes") -> Kubernetes!Asleep
          [] Is("systemd")    -> Systemd!Asleep
          [] Is("proxmox")    -> Proxmox!Asleep

(* When InstanceStart or InstanceStop has returned without an error and    *)
(* nothing else touched the workload, then it is what the call was to make *)
(* of it, whatever state the call found it in, with two exceptions only:   *)
(* Docker's scale mode leaves a container that is down as it is, and       *)
(* Proxmox calls do not look at the tasks that work on the container.      *)
SettledAsAsked ==
    LET lapse == Is("proxmox") /\ work.lapse
    IN  /\ StartKept \/ lapse \/ (Is("docker") /\ Docker!OnlyLimited)
        /\ StopKept \/ lapse

(* Once started and left alone, a workload that is up is reported ready by *)
(* InstanceInspect and listed as running: no pending task, stale cache or  *)
(* disagreement between the two keeps a client on the waiting page.        *)
StatusSettles ==
    (asked = "start" /\ Up) ~> (asked # "start" \/ (Status = "ready" /\ Listed))

(* A stopped event, which removes the session of the instance, stands for  *)
(* a stop that has not been told yet; no stop is told twice, and a drop of *)
(* the connection makes none up.  There are three exceptions: a node of    *)
(* Proxmox that a scan cannot reach makes its containers look stopped; and *)
(* a unit of systemd that was down is told as stopped (owed counts these)  *)
(* when a poll sees it for the first time, and when it is down in another  *)
(* way than at the last poll.  A unit that the last poll saw up is told as *)
(* stopped only if it did stop.                                            *)
StoppedEventIsReal ==
    stream.out = "stopped" =>
        /\ stream.owed > 0 \/ (Is("proxmox") /\ cfg.skips)
        /\ Is("systemd") => stream.due

(* Every stop that reached the subscription is told, unless the connection *)
(* drops first or nobody listens any more.                                 *)
EveryStopIsSeen ==
    stream.owed > 0 ~>
        (stream.out = "stopped" \/ stream.owed = 0 \/ stream.cancelled)

(* The providers keep the contract of InstanceEventStream.  Kubernetes'    *)
(* channels are never closed, which the contract asks for after a          *)
(* cancellation, so for it cancellations are not held against it.          *)
Contract == INSTANCE EventStream WITH
    chan      <- IF cfg.types = {} THEN "open" ELSE stream.chan,
    cancelled <- stream.cancelled /\ ~Is("kubernetes"),
    out       <- stream.out

KeepsStreamContract == Contract!Spec

(* The redis-operator is not left paused when the calls are over, unless   *)
(* the one that was to resume it failed to.                                *)
OperatorNotLeftPaused == Is("kubernetes") => Kubernetes!OperatorNotLeftPaused

(* The systemd provider's label cache holds what the unit file says. *)
CacheIsFresh == Is("systemd") => Systemd!CacheIsFresh
=============================================================================
