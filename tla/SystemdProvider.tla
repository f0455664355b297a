--------------------------- MODULE SystemdProvider --------------------------
(***************************************************************************)
(* pkg/provider/systemd.  The workload is one unit:                        *)
(*   state    ActiveState ("refreshing" is like "reloading")               *)
(*   loaded   systemd has not unloaded the unit                            *)
(*   fell     the unit went down since the last poll                       *)
(*   job, by  the job systemd runs for the unit, and the call it is for    *)
(*   limits   which profile the unit's resource properties come from       *)
(*   file     the unit file: its modification time and whether it enables  *)
(*            Sablier                                                      *)
(*   cache    the label cache's entry for that file                        *)
(* Options: match (the unit matches the configured patterns), edited (its  *)
(* file is), idle, activeRes, idleRes, invalid, types.                     *)
(***************************************************************************)
EXTENDS ProviderCalls

CONSTANT MaxEdits  \* bound on the edits of the unit file

InitSystemd ==
    /\ work = [state |-> "inactive", loaded |-> TRUE, fell |-> FALSE, job |-> "none",
               by |-> "nobody", limits |-> [f \in Field |-> "none"],
               file |-> [mtime |-> 1, enabled |-> TRUE],
               cache |-> [mtime |-> 0, enabled |-> FALSE]]
    /\ calls = [c \in Caller |-> NoCall]
    /\ asked = "none"
    /\ stream = [chan |-> NewStream.chan, cancelled |-> FALSE, out |-> "none",
                 owed |-> 0, old |-> "unknown", wire |-> <<>>, due |-> TRUE]

(* The states buildEvent takes for stopped. *)
Down == {"inactive", "failed", "maintenance"}

(* The unit in another state. *)
Entered(state) ==
    [work EXCEPT !.state = state,
                 !.fell = @ \/ /\ Wants("stopped") /\ stream.chan = "open"
                               /\ work.state \notin Down /\ state \in Down]

-----------------------------------------------------------------------------
(* infoFromUnit and listUnits. *)

InstanceInspect ==
    CASE work.state \in {"inactive", "deactivating", "maintenance"} -> "stopped"
      [] work.state \in {"activating", "reloading"}                 -> "starting"
      [] work.state = "active"                                      -> "ready"
      [] work.state = "failed"                                      -> "error"

InstanceList == work.loaded /\ work.state = "active" /\ work.file.enabled

-----------------------------------------------------------------------------
(* Labels: labelsFromUnitFileCached takes the file's time first and then,  *)
(* under the cache's lock, the entry of that time or the file itself.      *)

Stat(c) ==
    /\ calls' = [calls EXCEPT ![c].step = "labels",
                              ![c].seen = work.file.mtime]
    /\ UNCHANGED <<cfg, work, asked, stream>>

InstanceStart(c) == At(c, "start", "begin") /\ Stat(c)

InstanceStop(c) == At(c, "stop", "begin") /\ Stat(c)

Cached(c) == work.cache.mtime = calls[c].seen

Enabled(c) == IF Cached(c) THEN work.cache.enabled ELSE work.file.enabled

(* Mutant of Remember: the time is taken after the file was read. *)
RememberNow(c) ==
    IF Cached(c) THEN work.cache
    ELSE [mtime |-> calls[c].seen + 1, enabled |-> work.file.enabled]

Remember(c) ==
    IF Cached(c) THEN work.cache
    ELSE [mtime |-> calls[c].seen, enabled |-> work.file.enabled]

(* Where a call goes once scaleConfig has the labels. *)
AfterLabels(c) ==
    CASE calls[c].op = "start"
            -> IF cfg.activeRes \cup cfg.idleRes = {} THEN "enqueue" ELSE "apply"
      [] calls[c].op = "stop" -> IF cfg.idle = 0 THEN "enqueue" ELSE "apply"

scaleConfig(c) ==
    /\ calls[c].step = "labels"
    /\ work' = [work EXCEPT !.cache = Remember(c)]
    /\ IF Enabled(c) THEN Goto(c, AfterLabels(c)) ELSE Return(c, FALSE)
    /\ UNCHANGED stream

-----------------------------------------------------------------------------
(* applyResources and buildProperties: the limits of the profile are set,  *)
(* those only the other profile names are reset, and any invalid value is  *)
(* an error.                                                               *)

Cleared(op) ==
    [f \in Field |->
        CASE f \in Named(op)                          -> Profile(op)
          [] f \in (cfg.activeRes \cup cfg.idleRes) \ Named(op) -> "none"
          [] OTHER                                    -> work.limits[f]]

(* Mutant of applyResources: what the other profile set is kept. *)
applyResourcesKeeps(c) ==
    LET op == calls[c].op IN
    /\ calls[c].step = "apply"
    /\ Named(op) \cap cfg.invalid = {}
    /\ work' = [work EXCEPT !.limits = Applied(op)]
    /\ IF op = "start" THEN WroteAndGoto(c, "enqueue") ELSE WroteAndReturn(c, TRUE)
    /\ UNCHANGED stream

applyResources(c) ==
    LET op == calls[c].op IN
    /\ calls[c].step = "apply"
    /\ \/ /\ Named(op) \cap cfg.invalid = {}
          /\ work' = [work EXCEPT !.limits = Cleared(op)]
          /\ IF op = "start" THEN WroteAndGoto(c, "enqueue")
             ELSE WroteAndReturn(c, TRUE)
       \/ /\ Named(op) \cap cfg.invalid # {}
          /\ Return(c, FALSE)
          /\ UNCHANGED work
    /\ UNCHANGED stream

-----------------------------------------------------------------------------
(* Jobs.  A new job replaces the one the unit has, whose caller is told    *)
(* that it was canceled; a job with nothing to do is done at once.         *)

Nothing(op) == \/ op = "start" /\ work.state \in {"active", "reloading"}
               \/ op = "stop" /\ work.state \in {"inactive", "failed"}

(* The calls once the unit's job has the given result. *)
Ended(cs, result) ==
    [c \in Caller |-> IF c = work.by THEN [cs[c] EXCEPT !.step = result]
                      ELSE cs[c]]

Enqueue(c) ==
    LET op == calls[c].op IN
    /\ IF Nothing(op)
       THEN /\ work' = [work EXCEPT !.job = "none", !.by = "nobody",
                                    !.loaded = TRUE]
            /\ calls' = Interfere([Ended(calls, "failed") EXCEPT
                                        ![c].step = "done"], {c})
       ELSE /\ work' = [work EXCEPT !.job = op, !.by = c, !.loaded = TRUE]
            /\ calls' = Interfere([Ended(calls, "failed") EXCEPT
                                        ![c].step = "wait"], {c})
    /\ UNCHANGED <<cfg, asked, stream>>

startUnit(c) == At(c, "start", "enqueue") /\ Enqueue(c)

stopUnit(c) == At(c, "stop", "enqueue") /\ Enqueue(c)

waitUnitJob(c) ==
    /\ calls[c].step \in {"done", "failed"}
    /\ Return(c, calls[c].step = "done")
    /\ UNCHANGED <<work, stream>>

CallStep(c) ==
    \/ InstanceStart(c) \/ InstanceStop(c) \/ scaleConfig(c)
    \/ applyResources(c) \/ startUnit(c) \/ stopUnit(c) \/ waitUnitJob(c)

(* The context of a call that waits ends too; the job goes on. *)
FailSystemd(c) ==
    /\ calls[c] # NoCall
    /\ Return(c, FALSE)
    /\ work' = [work EXCEPT !.by = IF @ = c THEN "nobody" ELSE @]
    /\ UNCHANGED stream

(* systemd works on the job. *)
Become(state) ==
    /\ work' = Entered(state)
    /\ Progress

Finish(state, result) ==
    /\ work' = [Entered(state) EXCEPT !.job = "none", !.by = "nobody"]
    /\ calls' = Ended(calls, result)
    /\ UNCHANGED <<cfg, asked>>

Settle ==
    /\ \/ work.job = "start" /\ work.state \in {"inactive", "failed"} /\ Become("activating")
       \/ work.job = "start" /\ work.state = "deactivating" /\ Become("inactive")
       \/ work.job = "start" /\ work.state = "activating" /\ Finish("active", "done")
       \/ /\ work.job = "stop" /\ work.state \in {"active", "activating", "reloading"}
          /\ Become("deactivating")
       \/ /\ work.job = "stop" /\ work.state \in {"deactivating", "maintenance"}
          /\ Finish("inactive", "done")
       \/ work.job # "stop" /\ work.state = "reloading" /\ Become("active")
       \/ work.job # "stop" /\ work.state = "maintenance" /\ Become("inactive")
    /\ UNCHANGED stream

-----------------------------------------------------------------------------
(* InstanceEvents. *)

Streaming == stream.chan = "open" /\ UNCHANGED <<cfg, calls, asked>>

isFinalState(state) == state \notin {"activating", "deactivating", "reloading"}

(* Mutant of unitStatusChanged: only the new state is looked at. *)
unitStatusFinal(old, new) == isFinalState(new)

unitStatusChanged(old, new) == old # new /\ isFinalState(new)

(* What a poll reports: one that did not know the unit reports it as it    *)
(* is, one that does not find it any more as "gone".                       *)
Changed(old, now) ==
    CASE old = "unknown" /\ now = "unknown" -> {}
      [] old = "unknown" /\ now # "unknown" -> {now}
      [] old # "unknown" /\ now = "unknown" -> {"gone"}
      [] OTHER -> {s \in {now} : unitStatusChanged(old, now)}

(* Whether a poll that finds the unit down has a reason to tell: it went   *)
(* down since the poll before, or it was down already but not known (the   *)
(* first poll, a unit that was loaded) or down in another way (a reset of  *)
(* its failure, a clean).                                                  *)
Due(old, now) ==
    now \in Down => work.fell \/ old = "unknown" \/ old \in Down \ {now}

(* A poll by go-systemd, which compares the units with the poll before. *)
Poll ==
    LET now  == IF work.loaded /\ cfg.match THEN work.state ELSE "unknown"
        old  == stream.old
        news == Changed(old, now)
    IN  /\ Streaming
        /\ Len(stream.wire) < MaxWire
        /\ work' = [work EXCEPT !.fell = FALSE]
        /\ stream' = [stream EXCEPT
                !.old = now,
                !.wire = IF news = {} THEN @
                         ELSE Append(@, [status |-> CHOOSE s \in news : TRUE,
                                         due |-> Due(old, now)]),
                !.owed = IF Wants("stopped") /\ now # old /\ now \in Down
                         THEN @ + 1 ELSE @]

(* buildEvent, for the types the subscriber asked for. *)
buildEvent(status) ==
    CASE status = "gone" /\ Wants("removed")                     -> "removed"
      [] status = "active" /\ Wants("started")                   -> "started"
      [] status \in Down /\ Wants("stopped")                     -> "stopped"
      [] OTHER                                                   -> "none"

Forward ==
    /\ Streaming
    /\ stream.out = "none" /\ stream.wire # <<>>
    /\ stream' = [stream EXCEPT !.wire = Tail(@),
                                !.out = buildEvent(Head(stream.wire).status),
                                !.due = Head(stream.wire).due]
    /\ UNCHANGED work

(* Every select of the goroutine watches the context. *)
Close ==
    /\ Streaming
    /\ stream.cancelled
    /\ stream' = [Closed EXCEPT !.wire = <<>>, !.old = "unknown"]
    /\ work' = [work EXCEPT !.fell = FALSE]

-----------------------------------------------------------------------------
(* What happens to the unit without Sablier. *)

(* The unit's process ends, or does not come up. *)
Crash ==
    /\ \/ /\ work.state \in {"active", "reloading"} /\ work.job = "none"
          /\ \E s \in {"inactive", "failed"} : work' = Entered(s)
          /\ Disturb
       \/ work.state = "activating" /\ work.job = "start" /\ Finish("failed", "failed")
    /\ UNCHANGED stream

(* Somebody uses systemctl, or systemd unloads a unit nothing refers to. *)
Operate ==
    /\ work.job = "none"
    /\ \/ ~Nothing("start") /\ work' = [work EXCEPT !.job = "start", !.loaded = TRUE]
       \/ work.state = "active" /\ work' = [work EXCEPT !.job = "stop"]
       \/ work.state = "active" /\ work' = Entered("reloading")
       \/ work.state = "failed" /\ work' = Entered("inactive")
       \/ work.state = "inactive" /\ work' = [Entered("maintenance") EXCEPT !.loaded = TRUE]
       \/ work.state = "inactive" /\ work' = [work EXCEPT !.loaded = FALSE]
       \/ work' = [work EXCEPT !.limits = [f \in Field |-> "none"]]
    /\ Disturb
    /\ UNCHANGED stream

EditFile ==
    /\ cfg.edited /\ work.file.mtime < MaxEdits
    /\ \E e \in BOOLEAN :
        work' = [work EXCEPT !.file = [mtime |-> @.mtime + 1, enabled |-> e]]
    /\ Disturb
    /\ UNCHANGED stream

Environment == Crash \/ Operate \/ EditFile

-----------------------------------------------------------------------------
(* What the provider promises. *)

Up == work.state = "active" /\ work.file.enabled

Awake ==
    /\ work.state \in {"active", "reloading"}
    /\ cfg.activeRes \cup cfg.idleRes # {} => work.limits = Cleared("start")

Asleep ==
    IF cfg.idle = 0 THEN work.state \in Down
    ELSE work.limits = Cleared("stop")

(* An entry of the label cache that will be taken for current is current,  *)
(* although the file may change between the look at its time and the read: *)
(* labels that were edited are not overlooked for ever.  Each edit changes *)
(* the file's time, which the cache goes by.                               *)
CacheIsFresh ==
    work.cache.mtime = work.file.mtime => work.cache.enabled = work.file.enabled
=============================================================================
