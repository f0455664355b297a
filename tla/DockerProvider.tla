--------------------------- MODULE DockerProvider ---------------------------
(***************************************************************************)
(* pkg/provider/docker, and pkg/provider/podman, which is the same code    *)
(* with strategy "stop" and without HonorRestartPolicy.  The workload is   *)
(* one container:                                                          *)
(*   state    State.Status, or "gone" when there is no such container      *)
(*   health   State.Health, "none" without a health check                  *)
(*   code     State.ExitCode, 0 or not                                     *)
(*   limits   which profile each resource limit comes from                 *)
(* The options are                                                         *)
(*   strategy "stop" or "pause"    honor    HonorRestartPolicy             *)
(*   restart  the restart policy is always or unless-stopped               *)
(*   check    the container has a health check                             *)
(*   idle     sablier.idle.replicas                                        *)
(*   activeRes, idleRes, invalid: limits the labels give, or give wrongly  *)
(*   types    the types of events subscribed to                            *)
(***************************************************************************)
EXTENDS MobyEvents

(* podman.New: the options of a Podman provider are fixed. *)
PodmanNew(c) == c.podman => c.strategy = "stop" /\ ~c.honor

InitDocker ==
    /\ PodmanNew(cfg)
    /\ work = [state |-> IF cfg.idle >= 1 THEN "running" ELSE "created",
               health |-> "none", code |-> 0,
               limits |-> [f \in Field |-> "none"]]
    /\ calls = [c \in Caller |-> NoCall]
    /\ asked = "none"
    /\ stream = NewMobyStream

(* State.Running, which Docker also sets while a container is paused or    *)
(* waits to be restarted.                                                  *)
Running(w) == w.state \in {"running", "paused", "restarting"}

Exists == work.state # "gone"

(* A process runs that can die. *)
Alive(w) == w.state \in {"running", "paused"}

-----------------------------------------------------------------------------
(* InstanceInspect and InstanceList. *)

HealthStatus ==
    IF work.health \in {"none", "healthy"} THEN "ready" ELSE "starting"

ExitStatus ==
    CASE work.code # 0                               -> "error"
      [] work.code = 0 /\ cfg.honor /\ ~cfg.restart  -> "completed"
      [] OTHER                                       -> "stopped"

InstanceInspect ==
    CASE work.state \in {"created", "paused", "restarting", "removing"} ->
            "starting"
      [] work.state = "running" -> HealthStatus
      [] work.state = "exited"  -> ExitStatus
      [] OTHER                  -> "error"

(* ContainerList without All, as the scans for running instances ask. *)
InstanceList == Running(work)

-----------------------------------------------------------------------------
(* The daemon. *)

(* Write the container.  The daemon sends "die" when a process is gone and *)
(* "start" when one came up, and only what the subscription's filter names.*)
EventType ==
    [die |-> "stopped", start |-> "started", create |-> "created",
     destroy |-> "removed"]

Message(action) ==
    IF action \in DOMAIN EventType /\ Wants(EventType[action])
    THEN <<action>> ELSE <<>>

SetState(w, action) ==
    /\ work' = w
    /\ Emit(Message(action),
            IF Wants("stopped") /\ Alive(work) /\ ~Alive(w) THEN 1 ELSE 0)

Booted == [work EXCEPT !.state = "running",
                       !.health = IF cfg.check THEN "starting" ELSE "none"]

Exited(to, code) == [work EXCEPT !.state = to, !.health = "none", !.code = code]

-----------------------------------------------------------------------------
(* InstanceStart. *)

(* startSingle up to its first call that changes the container. *)
startSingle(c) ==
    /\ At(c, "start", "begin")
    /\ \/ ~Exists /\ Return(c, FALSE)
       \/ Exists /\ cfg.activeRes # {} /\ Goto(c, "apply")
       \/ Exists /\ cfg.activeRes = {} /\ cfg.idle >= 1 /\ Return(c, TRUE)
       \/ /\ Exists /\ cfg.activeRes = {} /\ cfg.idle = 0
          /\ \/ /\ Running(work) /\ work.state # "paused"
                /\ Return(c, TRUE)
             \/ /\ ~Running(work) \/ work.state = "paused"
                /\ Goto(c, IF cfg.strategy = "pause" THEN "unpause" ELSE "start")
    /\ UNCHANGED <<work, stream>>

(* dockerUnpause looks again whether there is anything to unpause. *)
dockerUnpause(c) ==
    /\ At(c, "start", "unpause")
    /\ \/ ~Exists /\ Return(c, FALSE)
       \/ Exists /\ Goto(c, IF work.state = "paused" THEN "resume" ELSE "start")
    /\ UNCHANGED <<work, stream>>

ContainerUnpause(c) ==
    /\ At(c, "start", "resume")
    /\ \/ /\ work.state = "paused"
          /\ SetState([work EXCEPT !.state = "running"], "unpause")
          /\ WroteAndReturn(c, TRUE)
       \/ /\ work.state # "paused"
          /\ Return(c, FALSE)
          /\ UNCHANGED <<work, stream>>

(* ContainerStart does nothing to a container that runs and refuses one    *)
(* that is paused, dead or being removed.                                  *)
dockerStart(c) ==
    /\ At(c, "start", "start")
    /\ \/ /\ work.state \in {"created", "exited"}
          /\ SetState(Booted, "start")
          /\ WroteAndReturn(c, TRUE)
       \/ /\ work.state \notin {"created", "exited"}
          /\ Return(c, work.state \in {"running", "restarting"})
          /\ UNCHANGED <<work, stream>>

(* applyResources: an invalid CPU or memory value is an error, an invalid  *)
(* device rate is left out, and a limit the profile does not name keeps    *)
(* its value.                                                              *)
applyResources(c) ==
    LET op == calls[c].op
        ok == /\ "cpu" \notin Named(op) \cap cfg.invalid
              /\ work.state \notin {"restarting", "removing", "dead", "gone"}
    IN  /\ calls[c].step = "apply"
        /\ \/ /\ ok
              /\ work' = [work EXCEPT !.limits = Applied(op)]
              /\ WroteAndReturn(c, TRUE)
           \/ ~ok /\ Return(c, FALSE) /\ UNCHANGED work
        /\ UNCHANGED stream

-----------------------------------------------------------------------------
(* InstanceStop. *)

InstanceStop(c) ==
    /\ At(c, "stop", "begin")
    /\ \/ ~Exists /\ Return(c, FALSE)
       \/ Exists /\ cfg.idle >= 1 /\ cfg.idleRes # {} /\ Goto(c, "apply")
       \/ Exists /\ cfg.idle >= 1 /\ cfg.idleRes = {} /\ Return(c, TRUE)
       \/ Exists /\ cfg.idle = 0 /\ Goto(c, cfg.strategy)
    /\ UNCHANGED <<work, stream>>

(* ContainerStop also stops a paused container, and what it stops is not   *)
(* restarted by the daemon.                                                *)
dockerStop(c) ==
    /\ At(c, "stop", "stop")
    /\ \/ /\ ~Exists
          /\ Return(c, FALSE)
          /\ UNCHANGED <<work, stream>>
       \/ /\ Running(work)
          /\ \E code \in {0, 1} :
                SetState(Exited("exited", code),
                         IF Alive(work) THEN "die" ELSE "stop")
          /\ WroteAndGoto(c, "wait")
       \/ /\ Exists /\ ~Running(work)
          /\ Goto(c, "wait")
          /\ UNCHANGED <<work, stream>>

(* ContainerWait: the stop returns only when the container does not run,   *)
(* which it may do again by now.                                           *)
ContainerWait(c) ==
    /\ At(c, "stop", "wait")
    /\ ~Running(work)
    /\ Return(c, Exists)
    /\ UNCHANGED <<work, stream>>

dockerPause(c) ==
    /\ At(c, "stop", "pause")
    /\ \/ /\ work.state = "running"
          /\ work' = [work EXCEPT !.state = "paused"]
          /\ WroteAndReturn(c, TRUE)
       \/ /\ work.state # "running"
          /\ Return(c, FALSE)
          /\ UNCHANGED work
    /\ UNCHANGED stream

CallStep(c) ==
    \/ startSingle(c) \/ dockerUnpause(c) \/ ContainerUnpause(c)
    \/ dockerStart(c) \/ applyResources(c) \/ InstanceStop(c)
    \/ dockerStop(c) \/ ContainerWait(c) \/ dockerPause(c)

-----------------------------------------------------------------------------
(* InstanceEvents. *)

(* build; the container's details, which an inspect adds unless it fails,  *)
(* are left out.  The filter of the subscription passes nothing else.      *)
BuildEvent(action) == EventType[action]

-----------------------------------------------------------------------------
(* What happens to the container without Sablier. *)

(* The health check's verdict. *)
Heal ==
    /\ work.state = "running" /\ work.health \in {"starting", "unhealthy"}
    /\ SetState([work EXCEPT !.health = "healthy"], "health")
    /\ Progress

Sicken ==
    /\ work.state = "running" /\ work.health \in {"starting", "healthy"}
    /\ SetState([work EXCEPT !.health = "unhealthy"], "health")
    /\ Disturb

(* The process ends by itself; the restart policy may bring it back. *)
Crash ==
    /\ work.state = "running"
    /\ \E code \in {0, 1} :
        SetState(Exited(IF cfg.restart THEN "restarting" ELSE "exited", code),
                 "die")
    /\ Disturb

Restart ==
    /\ work.state = "restarting"
    /\ SetState(Booted, "start")
    /\ Progress

(* Somebody uses the docker command. *)
Operate ==
    /\ \/ work.state \in {"created", "exited"} /\ SetState(Booted, "start")
       \/ /\ work.state = "running"
          /\ SetState([work EXCEPT !.state = "paused"], "pause")
       \/ /\ work.state = "paused"
          /\ SetState([work EXCEPT !.state = "running"], "unpause")
       \/ /\ Running(work)
          /\ SetState(Exited("exited", 0), IF Alive(work) THEN "die" ELSE "stop")
       \/ /\ work.state \notin {"removing", "gone"}
          /\ SetState(Exited("removing", 0), IF Alive(work) THEN "die" ELSE "rm")
       \/ /\ work.state = "removing"
          /\ \/ SetState([work EXCEPT !.state = "gone"], "destroy")
             \/ SetState([work EXCEPT !.state = "dead"], "rm")
       \/ work.state = "gone" /\ SetState([work EXCEPT !.state = "created"], "create")
    /\ Disturb

-----------------------------------------------------------------------------
(* What the provider promises. *)

Up == Running(work) /\ work.state # "paused"

Awake == Up /\ HasLimits("start")

(* What a start does instead in scale mode: a container with idle replicas *)
(* or with limits for its active profile is given these limits, and one    *)
(* that does not run is left as it is.                                     *)
OnlyLimited == (cfg.idle >= 1 \/ cfg.activeRes # {}) /\ HasLimits("start")

Asleep ==
    CASE cfg.idle >= 1                           -> HasLimits("stop")
      [] cfg.idle = 0 /\ cfg.strategy = "pause" -> work.state = "paused"
      [] OTHER                                  -> ~Running(work)

ServeDocker == Serve(BuildEvent(Head(stream.wire)))

Settle == Heal \/ Restart

Environment == Sicken \/ Crash \/ Operate \/ Drop
=============================================================================
