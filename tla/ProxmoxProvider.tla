-------------------------- MODULE ProxmoxProvider ---------------------------
(***************************************************************************)
(* pkg/provider/proxmoxlxc.  The workload is one LXC container:            *)
(*   node     where it is, or Nowhere    up    its status is "running"     *)
(*   ip       an interface has an address                                  *)
(*   task     the task Proxmox runs for it, "start", "stop" or "none"      *)
(*   fell     it went down since the last poll                             *)
(*   lapse    what the last call asked for is undone by a task of the      *)
(*            provider's own, or was not done and nobody is told           *)
(* and what the provider remembers of it:                                  *)
(*   cache    the node resolve will look for it on, or Nowhere             *)
(*   pending  the start task InstanceInspect has to ask for, by its state  *)
(* Options: skips (nodes may be out of reach during a scan) and types.     *)
(***************************************************************************)
EXTENDS ProviderCalls

(* The nodes of the cluster, and no node. *)
Node == {1, 2}

Nowhere == 0

maxConsecutivePollErrors == 5

InitProxmox ==
    /\ work = [node |-> 1, up |-> FALSE, ip |-> FALSE, task |-> "none",
               fell |-> FALSE, lapse |-> FALSE, cache |-> Nowhere,
               pending |-> "none"]
    /\ calls = [c \in Caller |-> NoCall]
    /\ asked = "none"
    /\ stream = [chan |-> NewStream.chan, cancelled |-> FALSE, out |-> "none",
                 owed |-> 0, seeded |-> FALSE, known |-> FALSE, errors |-> 0]

-----------------------------------------------------------------------------
(* InstanceInspect and InstanceList, without what they change. *)

InstanceInspect ==
    CASE work.cache # work.node \/ work.node = Nowhere        -> "error"
      [] work.pending = "failed"                             -> "error"
      [] work.pending \in {"running", "ok"}                  -> "starting"
      [] work.pending = "none" /\ ~work.up                   -> "stopped"
      [] work.pending = "none" /\ work.up /\ ~work.ip        -> "starting"
      [] OTHER                                               -> "ready"

InstanceList == work.node # Nowhere /\ work.up

(* scanContainers: the new cache.  A node that cannot be reached is left   *)
(* out, and so is all that is on it.                                       *)
scanContainers == {work.node} \cup (IF cfg.skips THEN {Nowhere} ELSE {})

(* InstanceList and InstanceGroups, which the group watch calls again and  *)
(* again, scan.                                                            *)
Remember(found) ==
    /\ found \in scanContainers
    /\ work' = [work EXCEPT !.cache = found]
    /\ UNCHANGED <<cfg, calls, asked, stream>>

Scan == Remember(work.node)

ScanSkips == work.node # Nowhere /\ Remember(Nowhere)

-----------------------------------------------------------------------------
(* resolve and getContainer: a cached node is taken as it is, and a scan   *)
(* is made only for a container that is not cached.                        *)

Resolved == IF work.cache = Nowhere THEN scanContainers ELSE {work.cache}

(* The reference a call has is to where it found the container. *)
Holds(c) == calls[c].seen = work.node

GotoWith(c, step) ==
    /\ calls' = [calls EXCEPT ![c].step = step, ![c].seen = work.node]
    /\ UNCHANGED <<cfg, asked>>

(* The call finds the container where it looks for it. *)
Find(c, op) ==
    /\ At(c, op, "begin")
    /\ work.node \in Resolved \ {Nowhere}

(* It does not, and returns the error; a scan has changed the cache. *)
NotFound(c) ==
    /\ calls[c].step = "begin"
    /\ \E node \in Resolved :
        /\ node # work.node \/ node = Nowhere
        /\ work' = [work EXCEPT !.cache = node]
    /\ Return(c, FALSE)
    /\ UNCHANGED stream

(* InstanceStart looks at the status; there is nothing to do for one that  *)
(* runs, even while a stop task works on it ...                            *)
InstanceStart(c) ==
    /\ Find(c, "start")
    /\ \/ /\ work.up
          /\ work' = [work EXCEPT !.cache = work.node, !.lapse = work.task = "stop"]
          /\ Return(c, TRUE)
       \/ /\ ~work.up
          /\ work' = [work EXCEPT !.cache = work.node]
          /\ GotoWith(c, "submit")
    /\ UNCHANGED stream

(* ... submits a task, and returns without waiting for it.  Where another  *)
(* task holds the container, Proxmox refuses, or it accepts the task and   *)
(* lets it fail, which the call does not see.                              *)
Submit(c) ==
    /\ At(c, "start", "submit")
    /\ \/ /\ Holds(c) /\ work.task = "none" /\ ~work.up
          /\ work' = [work EXCEPT !.task = "start", !.pending = "running",
                                  !.lapse = FALSE]
          /\ WroteAndReturn(c, TRUE)
       \/ /\ work.task # "none" \/ work.up
          /\ work' = [work EXCEPT !.pending = "failed", !.lapse = FALSE]
          /\ Return(c, TRUE)
       \/ /\ ~Holds(c) \/ work.task # "none" \/ work.up
          /\ Return(c, FALSE) /\ UNCHANGED work
    /\ UNCHANGED stream

(* InstanceStop forgets the start task, whether or not it still runs, and  *)
(* has nothing to do for a container that is not up yet.                   *)
InstanceStop(c) ==
    /\ Find(c, "stop")
    /\ \/ /\ ~work.up
          /\ work' = [work EXCEPT !.cache = work.node, !.pending = "none",
                                  !.lapse = work.task = "start"]
          /\ Return(c, TRUE)
       \/ /\ work.up
          /\ work' = [work EXCEPT !.cache = work.node, !.pending = "none"]
          /\ GotoWith(c, "submit")
    /\ UNCHANGED stream

SubmitStop(c) ==
    /\ At(c, "stop", "submit")
    /\ \/ /\ Holds(c) /\ work.task = "none" /\ work.up
          /\ work' = [work EXCEPT !.task = "stop", !.lapse = FALSE]
          /\ WroteAndGoto(c, "wait")
       \/ /\ ~Holds(c) \/ work.task # "none" \/ ~work.up
          /\ Return(c, FALSE) /\ UNCHANGED work
    /\ UNCHANGED stream

(* task.Wait: the stop's own task has ended.  Whether it failed is not     *)
(* looked at.                                                              *)
Wait(c) ==
    /\ At(c, "stop", "wait")
    /\ work.task # "stop"
    /\ Return(c, TRUE)
    /\ UNCHANGED <<work, stream>>

-----------------------------------------------------------------------------
(* Mutant of checkPendingTask: a task that succeeded is kept. *)
checkFailedTask(c) ==
    /\ c \in cfg.callers /\ calls[c] = NoCall
    /\ work.pending = "failed"
    /\ calls' = [calls EXCEPT ![c] = [NoCall EXCEPT
            !.op = "inspect", !.step = "clear", !.undo = TRUE]]
    /\ UNCHANGED <<cfg, work, asked, stream>>

(* InstanceInspect with a pending task, when its answer is not only that   *)
(* the task still runs or has failed lately.  checkPendingTask asks for    *)
(* the task without the lock ...                                           *)
checkPendingTask(c) ==
    /\ c \in cfg.callers /\ calls[c] = NoCall
    /\ work.pending \in {"ok", "failed"}
    /\ \E node \in Resolved \ {Nowhere} : work' = [work EXCEPT !.cache = node]
    /\ calls' = [calls EXCEPT ![c] = [NoCall EXCEPT
            !.op = "inspect", !.step = "clear", !.undo = work.pending = "failed"]]
    /\ UNCHANGED <<cfg, asked, stream>>

(* ... and removes the entry, which may be another one by now.  When the   *)
(* task had failed (failedTaskTTL ago) the instance is started once more:  *)
(* the inspection has become a start.  Otherwise a later task whose entry  *)
(* was removed is not watched any more.                                    *)
ClearPending(c) ==
    /\ At(c, "inspect", "clear")
    /\ work' = [work EXCEPT
            !.pending = "none",
            !.lapse = @ \/ (~calls[c].undo /\ work.pending \in {"running", "failed"})]
    /\ IF calls[c].undo
       THEN /\ calls' = Interfere([calls EXCEPT ![c] = [NoCall EXCEPT
                    !.op = "start", !.step = "begin",
                    !.clean = \A d \in Caller \ {c} : calls[d] = NoCall]], {c})
            /\ asked' = "none"
       ELSE calls' = [calls EXCEPT ![c] = NoCall] /\ UNCHANGED asked
    /\ UNCHANGED <<cfg, stream>>

CallStep(c) ==
    \/ NotFound(c) \/ InstanceStart(c) \/ Submit(c)
    \/ InstanceStop(c) \/ SubmitStop(c) \/ Wait(c) \/ ClearPending(c)

FailProxmox(c) == calls[c].op \in {"start", "stop"} /\ Fail(c)

-----------------------------------------------------------------------------
(* InstanceEvents polls. *)

Streaming == stream.chan = "open" /\ UNCHANGED <<cfg, calls, asked>>

Polling == Streaming /\ {"stopped", "started"} \cap cfg.types # {}

(* The initial scan, which may fail, tells of nothing. *)
InitialScan ==
    /\ Polling
    /\ ~stream.seeded
    /\ \/ \E found \in scanContainers :
            /\ work' = [work EXCEPT !.cache = found, !.fell = FALSE]
            /\ stream' = [stream EXCEPT !.seeded = TRUE,
                                        !.known = found # Nowhere /\ work.up]
       \/ stream' = [stream EXCEPT !.seeded = TRUE] /\ UNCHANGED work

(* A scan compares the containers that run with those of the scan before;  *)
(* the next one is made when the event it led to has been received.        *)
Poll ==
    /\ Polling
    /\ stream.seeded /\ stream.out = "none"
    /\ \E found \in scanContainers :
        LET now == found # Nowhere /\ work.up IN
        /\ work' = [work EXCEPT !.cache = found, !.fell = FALSE]
        /\ stream' = [stream EXCEPT
                !.errors = 0, !.known = now,
                !.out = CASE stream.known /\ ~now /\ Wants("stopped")  -> "stopped"
                          [] ~stream.known /\ now /\ Wants("started")  -> "started"
                          [] OTHER                                     -> "none",
                !.owed = IF work.fell /\ stream.known /\ ~work.up /\ Wants("stopped")
                         THEN @ + 1 ELSE @]

(* A scan fails; too many in a row end the stream. *)
PollFails ==
    /\ Polling
    /\ stream.seeded /\ stream.out = "none"
    /\ stream' = IF stream.errors + 1 = maxConsecutivePollErrors
                 THEN [Closed EXCEPT !.errors = 0, !.known = FALSE]
                 ELSE [stream EXCEPT !.errors = @ + 1]
    /\ UNCHANGED work

Close ==
    /\ Streaming
    /\ stream.cancelled
    /\ stream' = [Closed EXCEPT !.errors = 0, !.known = FALSE]
    /\ UNCHANGED work

-----------------------------------------------------------------------------
(* Proxmox ends its tasks, and a container that runs gets its address.  A  *)
(* stop does not wait for the start task it finds, nor a start for the     *)
(* stop task of a call that gave up: then the task undoes what was asked.  *)

TaskEnds ==
    /\ \/ /\ work.task = "start"
          /\ work' = [work EXCEPT !.task = "none", !.up = TRUE,
                          !.pending = IF @ = "running" THEN "ok" ELSE @]
       \/ /\ work.task = "stop"
          /\ work' = [work EXCEPT !.task = "none", !.up = FALSE, !.ip = FALSE,
                                  !.fell = Wants("stopped")]
    /\ Progress

Settle ==
    /\ \/ TaskEnds
       \/ work.up /\ ~work.ip /\ work' = [work EXCEPT !.ip = TRUE] /\ Progress
    /\ UNCHANGED stream

(* A task fails: InstanceInspect will find out about a start, nobody about *)
(* a stop.                                                                 *)
StartFails ==
    /\ work.task = "start"
    /\ work' = [work EXCEPT !.task = "none",
                            !.pending = IF @ = "running" THEN "failed" ELSE @]
    /\ Progress
    /\ UNCHANGED stream

StopFails ==
    /\ work.task = "stop"
    /\ work' = [work EXCEPT !.task = "none", !.lapse = TRUE]
    /\ Progress
    /\ UNCHANGED stream

(* Somebody shuts the container down, migrates it or removes it. *)
Operate ==
    /\ work.task = "none"
    /\ \/ /\ work.up
          /\ work' = [work EXCEPT !.up = FALSE, !.ip = FALSE, !.fell = Wants("stopped")]
       \/ /\ work.node # Nowhere
          /\ work' = [work EXCEPT !.node = CHOOSE n \in Node : n # work.node]
       \/ /\ ~work.up
          /\ work' = [work EXCEPT !.node = IF @ = Nowhere THEN 1 ELSE Nowhere]
    /\ Disturb
    /\ UNCHANGED stream

Environment == StartFails \/ StopFails \/ Operate \/ ScanSkips \/ PollFails

-----------------------------------------------------------------------------
(* What the provider promises. *)

Up == work.up /\ work.task # "stop"

(* A start is asynchronous: the container runs and stays, or it is being   *)
(* started, or InstanceInspect is going to tell that its start has failed  *)
(* and to start it again.                                                  *)
Awake == Up \/ work.task = "start" \/ work.pending = "failed"

Asleep == ~work.up /\ work.task # "start"
=============================================================================
