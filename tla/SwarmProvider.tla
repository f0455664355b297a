---------------------------- MODULE SwarmProvider ---------------------------
(***************************************************************************)
(* pkg/provider/dockerswarm.  The workload is one service:                 *)
(*   exists    there is such a service                                     *)
(*   replicas  Spec.Mode.Replicated.Replicas, also DesiredTasks            *)
(*   tasks     ServiceStatus.RunningTasks                                  *)
(*   limits    which profile its resource limits come from                 *)
(* Options: replicated (false for a global service), active and idle (the  *)
(* replicas the labels give), activeRes, idleRes, invalid, types.          *)
(***************************************************************************)
EXTENDS MobyEvents

InitSwarm ==
    /\ work = [exists |-> TRUE, replicas |-> 0, tasks |-> 0,
               limits |-> [f \in Field |-> "none"]]
    /\ calls = [c \in Caller |-> NoCall]
    /\ asked = "none"
    /\ stream = NewMobyStream

(* getServiceByName: an exact match, whatever else the filter found. *)
Found == work.exists

-----------------------------------------------------------------------------
InstanceInspect ==
    CASE ~Found \/ ~cfg.replicated     -> "error"
      [] work.replicas = 0             -> "stopped"
      [] work.replicas # work.tasks    -> "starting"
      [] OTHER                         -> "ready"

InstanceList == Found /\ cfg.replicated /\ work.tasks > 0

-----------------------------------------------------------------------------
(* The manager: writing a service sends a message that tells a change of   *)
(* the replicas.                                                           *)

Kind(w) ==
    CASE work.exists /\ ~w.exists                    -> "remove"
      [] ~work.exists /\ w.exists                    -> "create"
      [] work.replicas > 0 /\ w.replicas = 0         -> "toZero"
      [] work.replicas = 0 /\ w.replicas > 0         -> "fromZero"
      [] OTHER                                       -> "update"

(* The stops a message stands for: to a subscriber that does not ask for   *)
(* removals, a removal is one.                                             *)
Falls(kind) ==
    IF /\ Wants("stopped")
       /\ kind = "toZero" \/ (kind = "remove" /\ ~Wants("removed"))
    THEN 1 ELSE 0

SetService(w) == work' = w /\ Emit(<<Kind(w)>>, Falls(Kind(w)))

-----------------------------------------------------------------------------
(* InstanceStart and InstanceStop: read the labels, then                   *)
(* ServiceUpdateScale with the active or the idle profile.                 *)

ReadLabels(c) ==
    /\ \/ Found /\ Goto(c, "read")
       \/ ~Found /\ Return(c, FALSE)
    /\ UNCHANGED <<work, stream>>

InstanceStart(c) == At(c, "start", "begin") /\ ReadLabels(c)

InstanceStop(c) == At(c, "stop", "begin") /\ ReadLabels(c)

(* ServiceUpdateScale reads the service again. *)
ReadService(c) ==
    /\ calls[c].step = "read"
    /\ \/ Found /\ cfg.replicated /\ ReadAndGoto(c, "update")
       \/ ~(Found /\ cfg.replicated) /\ Return(c, FALSE)
    /\ UNCHANGED <<work, stream>>

(* ... and updates it, if nobody else did in the meantime.  An invalid     *)
(* limit is left out; a warning makes the update an error although it was  *)
(* carried out.                                                            *)
ServiceUpdateScale(c) ==
    LET op == calls[c].op IN
    /\ calls[c].step = "update"
    /\ \/ /\ Found /\ calls[c].fresh
          /\ SetService([work EXCEPT
                !.replicas = IF op = "start" THEN cfg.active ELSE cfg.idle,
                !.limits = Applied(op)])
          /\ \E ok \in BOOLEAN : WroteAndReturn(c, ok)
       \/ /\ ~(Found /\ calls[c].fresh)
          /\ Return(c, FALSE)
          /\ UNCHANGED <<work, stream>>

CallStep(c) ==
    \/ InstanceStart(c) \/ InstanceStop(c)
    \/ ReadService(c) \/ ServiceUpdateScale(c)

-----------------------------------------------------------------------------
(* InstanceEvents: build. *)
BuildEvent(kind) ==
    CASE kind = "create" /\ Wants("created")                     -> "created"
      [] kind = "remove" /\ Wants("removed")                     -> "removed"
      [] kind = "remove" /\ ~Wants("removed") /\ Wants("stopped") -> "stopped"
      [] kind = "toZero" /\ Wants("stopped")                     -> "stopped"
      [] kind = "fromZero" /\ Wants("started")                   -> "started"
      [] OTHER                                                   -> "none"

ServeSwarm == Serve(BuildEvent(Head(stream.wire)))

-----------------------------------------------------------------------------
(* The swarm starts and ends tasks until there are as many as asked for. *)
Settle ==
    /\ work.exists /\ work.tasks # work.replicas
    /\ work' = [work EXCEPT !.tasks = IF @ < work.replicas THEN @ + 1 ELSE @ - 1]
    /\ Progress
    /\ UNCHANGED stream

TaskEnds ==
    /\ work.tasks > 0
    /\ work' = [work EXCEPT !.tasks = @ - 1]
    /\ Disturb
    /\ UNCHANGED stream

(* Somebody uses the docker service command. *)
Operate ==
    /\ \/ Found /\ \E n \in 0..2 : SetService([work EXCEPT !.replicas = n])
       \/ Found /\ SetService([work EXCEPT !.exists = FALSE, !.replicas = 0,
                                           !.tasks = 0])
       \/ ~Found /\ SetService([work EXCEPT !.exists = TRUE])
    /\ Disturb

Environment == TaskEnds \/ Operate \/ Drop

-----------------------------------------------------------------------------
(* What the provider promises. *)

Up == Found /\ work.replicas > 0

Awake == work.replicas = cfg.active /\ HasLimits("start")

Asleep == work.replicas = cfg.idle /\ HasLimits("stop")
=============================================================================
