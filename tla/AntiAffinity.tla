---------------------------- MODULE AntiAffinity ----------------------------
(***************************************************************************)
(* pkg/sablier/anti_affinity.go: an instance may name groups it backs off  *)
(* from.  While a member of such a group has a session, requests for the   *)
(* instance are held, and a reconciliation stops it and marks it           *)
(* suppressed; a later reconciliation restores what it suppressed.         *)
(*                                                                         *)
(* A reconciliation holds affinityMu from ReconcileBegin to ReconcileEnd,  *)
(* but the sessions it reads belong to the store: every Get, Put and       *)
(* Delete is a step of its own, between those of requests, expirations and *)
(* events.  The part of GroupWatch that keeps the index in step with the   *)
(* labels (group_watch.go) is here too; group membership is fixed.  A      *)
(* request is reduced to what anti-affinity sees of InstanceRequest.tla:   *)
(* hold, Get, dispatch of a start, Put.                                    *)
(***************************************************************************)
EXTENDS Naturals, Sequences

CONSTANTS
    Instance, Group,
    Members,       \* groups.Snapshot(): the members of each group
    Labels,        \* the anti-affinity labels at start-up
    Tracked,       \* instances whose state at the provider is followed; the
                   \* others are seen through their sessions only
    Environments,  \* the surroundings to look at
    MaxNotices,    \* bound on the undelivered events
    Request,       \* goroutines that call instanceRequest
    Restorer,      \* the call of instanceRequest by restoreFromAntiAffinity
    NoInstance

(* What fails: an instanceRequest, a start, a stop, a list of the instances *)
(* (which fails or leaves some out) or one of the inspects after it, the    *)
(* delivery of an event.                                                    *)
Fault == {"request", "start", "stop", "list", "notice"}

(* The surroundings: the instances clients ask for, those whose labels     *)
(* change while they run, those that are removed and created again, and    *)
(* what fails.                                                             *)
Environment ==
    [requested : SUBSET Instance, relabelled : SUBSET Instance,
     destroyed : SUBSET Instance, faults : SUBSET Fault]

ASSUME AntiAffinityAssumption ==
    /\ Members \in [Group -> SUBSET Instance]
    /\ Labels \in [Instance -> SUBSET Group]
    /\ Tracked \subseteq Instance
    /\ Environments \subseteq Environment
    /\ Restorer \notin Request
    /\ NoInstance \notin Instance
    /\ MaxNotices \in Nat

VARIABLES
    env,         \* the surroundings
    sessions,    \* instances with a session
    up,          \* instances that run
    starting,    \* instances with a start in flight
    stopping,    \* instances with a stop goroutine of an expiration
    stopped,     \* instances with an undelivered stopped event
    labels,      \* the labels as the provider has them
    present,     \* instances the provider has
    notices,     \* undelivered created, updated and removed events
    index,       \* s.antiAffinity, from instances to groups
    suppressed,  \* s.suppressed
    triggered,   \* a goroutine of triggerAntiAffinityReconcile waits for the mutex
    rec,         \* the reconciliation that holds affinityMu
    watch,       \* the GroupWatch goroutine
    req          \* the calls of instanceRequest

storeVars == <<sessions, up, starting, stopping, stopped>>
labelVars == <<env, labels, present, notices>>
vars == <<storeVars, labelVars, index, suppressed, triggered, rec, watch, req>>

Caller == Request \cup {Restorer}

Idle == "idle"

(* A reconciliation: snap is its copy of the index, toCheck the Gets of    *)
(* isGroupActive it has left, todo the instances it has not handled.       *)
Reconciliation ==
    [pc : {Idle, "evaluate", "act", "stop", "delete", "restore"},
     byWatch : BOOLEAN, snap : [Instance -> SUBSET Group],
     toCheck : SUBSET (Group \X Instance), active : SUBSET Group,
     todo : SUBSET Instance, target : Instance \cup {NoInstance}]

Watcher == [pc : {Idle, "forget", "rebuild", "enforce"},
            inst : Instance \cup {NoInstance}, changed : BOOLEAN]

(* A call of instanceRequest; "ok" and "error" are results for Restorer. *)
InstanceCall == [pc : {Idle, "hold", "get", "start", "put", "ok", "error"},
                 inst : Instance \cup {NoInstance},
                 toCheck : SUBSET (Group \X Instance), new : BOOLEAN]

InstanceEvent ==
    [type : {"updated", "removed"}, inst : Instance, groups : SUBSET Group]

TypeOK ==
    /\ env \in Environment
    /\ sessions \subseteq Instance /\ present \subseteq Instance
    /\ suppressed \subseteq Instance
    /\ up \subseteq Tracked /\ starting \subseteq Tracked
    /\ stopping \subseteq Tracked /\ stopped \subseteq Tracked
    /\ labels \in [Instance -> SUBSET Group]
    /\ index \in [Instance -> SUBSET Group]
    /\ notices \in Seq(InstanceEvent)
    /\ triggered \in BOOLEAN
    /\ rec \in Reconciliation
    /\ watch \in Watcher
    /\ req \in [Caller -> InstanceCall]

(* The Gets by which isGroupActive looks at the groups in gs. *)
Checks(gs) == {gm \in gs \X Instance : gm[2] \in Members[gm[1]]}

HasAntiAffinity == \E i \in Instance : index[i] # {}

(* triggerAntiAffinityReconcile.  Goroutines that wait for the mutex do    *)
(* the same thing, and GroupWatch adds reconciliations at any time, so one *)
(* flag stands for all of them.                                            *)
Trigger == triggered' = (triggered \/ HasAntiAffinity)

NoRec == [pc |-> Idle, byWatch |-> FALSE, snap |-> [i \in Instance |-> {}],
          toCheck |-> {}, active |-> {}, todo |-> {}, target |-> NoInstance]

NoWatch == [pc |-> Idle, inst |-> NoInstance, changed |-> FALSE]

NoReq == [pc |-> Idle, inst |-> NoInstance, toCheck |-> {}, new |-> FALSE]

(* Start-up, with sessions restored from disk or not: SeedAntiAffinity has *)
(* built the index and is about to enforce it.                             *)
Init ==
    /\ env \in Environments
    /\ sessions \in SUBSET Instance
    /\ up = sessions \cap Tracked
    /\ starting = {} /\ stopping = {} /\ stopped = {}
    /\ labels = Labels
    /\ present = Instance
    /\ notices = <<>>
    /\ index = Labels
    /\ suppressed = {}
    /\ triggered = FALSE
    /\ rec = NoRec
    /\ watch = [NoWatch EXCEPT !.pc = "enforce"]
    /\ req = [p \in Caller |-> NoReq]

-----------------------------------------------------------------------------
(* instanceRequest. *)

Call(p, i) == req' = [req EXCEPT
    ![p] = [NoReq EXCEPT !.pc = "hold", !.inst = i, !.toCheck = Checks(index[i])]]

Return(p, result) == req' = [req EXCEPT
    ![p] = IF p = Restorer THEN [@ EXCEPT !.pc = result, !.toCheck = {}] ELSE NoReq]

ReqGoto(p, pc, new) == req' = [req EXCEPT ![p].pc = pc, ![p].new = new]

RequestBegin(p, i) ==
    /\ p \in Request
    /\ i \in env.requested
    /\ req[p].pc = Idle
    /\ Call(p, i)
    /\ UNCHANGED <<storeVars, labelVars, index, suppressed, triggered, rec, watch>>

(* antiAffinityHold: one Get per step; an active antagonist ends the       *)
(* request without an error.                                               *)
Hold(p) ==
    /\ req[p].pc = "hold"
    /\ \/ \E gm \in req[p].toCheck :
            IF gm[2] \in sessions
            THEN Return(p, "ok")
            ELSE req' = [req EXCEPT ![p].toCheck = @ \ {gm}]
       \/ req[p].toCheck = {} /\ ReqGoto(p, "get", FALSE)
    /\ UNCHANGED <<storeVars, labelVars, index, suppressed, triggered, rec, watch>>

(* sessions.Get; the inspect of an instance that is not ready yet, or the  *)
(* error of its start, is part of this step.                               *)
GetSession(p) ==
    /\ req[p].pc = "get"
    /\ \/ ReqGoto(p, IF req[p].inst \in sessions THEN "put" ELSE "start", FALSE)
       \/ "request" \in env.faults /\ Return(p, "error")
    /\ UNCHANGED <<storeVars, labelVars, index, suppressed, triggered, rec, watch>>

(* requestStart: dispatch a start, or join one, or return an error. *)
DispatchStart(p) ==
    /\ req[p].pc = "start"
    /\ \/ /\ starting' = starting \cup ({req[p].inst} \cap Tracked)
          /\ ReqGoto(p, "put", TRUE)
       \/ "request" \in env.faults /\ Return(p, "error") /\ UNCHANGED starting
    /\ UNCHANGED <<sessions, up, stopping, stopped, labelVars, index, suppressed,
                   triggered, rec, watch>>

(* Mutant of PutSession: a restore reconciles in its own goroutine, which  *)
(* holds the mutex already.                                                *)
PutThenReconcile(p) ==
    /\ req[p].pc = "put"
    /\ p = Restorer /\ req[p].new /\ HasAntiAffinity => rec.pc = Idle
    /\ sessions' = sessions \cup {req[p].inst}
    /\ IF req[p].new THEN Trigger ELSE UNCHANGED triggered
    /\ Return(p, "ok")
    /\ UNCHANGED <<up, starting, stopping, stopped, labelVars, index, suppressed,
                   rec, watch>>

(* sessions.Put; a start that was dispatched goes on if it fails. *)
PutSession(p) ==
    /\ req[p].pc = "put"
    /\ \/ /\ sessions' = sessions \cup {req[p].inst}
          /\ IF req[p].new THEN Trigger ELSE UNCHANGED triggered
          /\ Return(p, "ok")
       \/ /\ "request" \in env.faults
          /\ Return(p, "error")
          /\ UNCHANGED <<sessions, triggered>>
    /\ UNCHANGED <<up, starting, stopping, stopped, labelVars, index, suppressed,
                   rec, watch>>

RequestStep(p) == Hold(p) \/ GetSession(p) \/ DispatchStart(p) \/ PutSession(p)

-----------------------------------------------------------------------------
(* Instances and sessions. *)

StartEnds(i) ==
    /\ i \in starting
    /\ starting' = starting \ {i}
    /\ \/ i \in present /\ up' = up \cup {i}
       \/ (i \notin present \/ "start" \in env.faults) /\ UNCHANGED up
    /\ UNCHANGED <<sessions, stopping, stopped, labelVars, index, suppressed,
                   triggered, rec, watch, req>>

(* OnInstanceExpired: the stop goes to a goroutine, then the trigger.  An  *)
(* instance has one such goroutine at a time.                              *)
Expire(i) ==
    /\ i \in sessions
    /\ i \notin stopping
    /\ sessions' = sessions \ {i}
    /\ stopping' = stopping \cup ({i} \cap Tracked)
    /\ Trigger
    /\ UNCHANGED <<up, starting, stopped, labelVars, index, suppressed, rec,
                   watch, req>>

(* InstanceStop.  Undelivered stopped events of an instance are one. *)
StopInstance(i) ==
    /\ up' = up \ {i}
    /\ stopped' = IF i \in up THEN stopped \cup {i} ELSE stopped

StopExpired(i) ==
    /\ i \in stopping
    /\ stopping' = stopping \ {i}
    /\ StopInstance(i)
    /\ UNCHANGED <<sessions, starting, labelVars, index, suppressed, triggered,
                   rec, watch, req>>

(* The stopped event of i arrives.  No reconciliation is triggered. *)
RemoveInstance(i) ==
    /\ IF i \in Tracked THEN i \in stopped ELSE i \in sessions
    /\ stopped' = stopped \ {i}
    /\ sessions' = sessions \ {i}
    /\ UNCHANGED <<up, starting, stopping, labelVars, index, suppressed,
                   triggered, rec, watch, req>>

-----------------------------------------------------------------------------
(* reconcileAntiAffinity, under affinityMu. *)

Unlocked == rec.pc = Idle

RecGoto(pc) == rec' = [rec EXCEPT !.pc = pc]

(* The lock is taken and the index copied; with nothing in it the function *)
(* returns.                                                                *)
ReconcileBegin(byWatch) ==
    /\ Unlocked
    /\ IF byWatch THEN watch.pc = "enforce" /\ UNCHANGED triggered
                  ELSE triggered /\ triggered' = FALSE
    /\ rec' = IF HasAntiAffinity
              THEN [NoRec EXCEPT !.pc = "evaluate", !.byWatch = byWatch,
                        !.snap = index,
                        !.toCheck = Checks(UNION {index[i] : i \in Instance})]
              ELSE NoRec
    /\ watch' = IF byWatch /\ ~HasAntiAffinity THEN NoWatch ELSE watch
    /\ UNCHANGED <<storeVars, labelVars, index, suppressed, req>>

(* isGroupActive, one Get per step, for every group of the index. *)
Evaluate ==
    /\ rec.pc = "evaluate"
    /\ LET open == {gm \in rec.toCheck : gm[1] \notin rec.active}
       IN  \/ \E gm \in open :
                 rec' = IF gm[2] \in sessions
                        THEN [rec EXCEPT !.active = @ \cup {gm[1]}]
                        ELSE [rec EXCEPT !.toCheck = @ \ {gm}]
           \/ /\ open = {}
              /\ rec' = [rec EXCEPT !.pc = "act", !.toCheck = {},
                            !.todo = {i \in Instance : rec.snap[i] # {}}]
    /\ UNCHANGED <<storeVars, labelVars, index, suppressed, triggered, watch, req>>

desiredSuppress(i) == rec.snap[i] \cap rec.active # {}

(* The next instance of the loop.  An instance without a session is idle   *)
(* already and not marked.                                                 *)
Act(i) ==
    /\ rec.pc = "act"
    /\ i \in rec.todo
    /\ \/ /\ desiredSuppress(i) /\ i \notin suppressed /\ i \in sessions
          /\ rec' = [rec EXCEPT !.pc = "stop", !.target = i, !.todo = @ \ {i}]
          /\ UNCHANGED req
       \/ /\ ~desiredSuppress(i) /\ i \in suppressed
          /\ rec' = [rec EXCEPT !.pc = "restore", !.target = i, !.todo = @ \ {i}]
          /\ Call(Restorer, i)
       \/ /\ IF desiredSuppress(i) THEN i \in suppressed \/ i \notin sessions
                                   ELSE i \notin suppressed
          /\ rec' = [rec EXCEPT !.todo = @ \ {i}]
          /\ UNCHANGED req
    /\ UNCHANGED <<storeVars, labelVars, index, suppressed, triggered, watch>>

SuppressStop ==
    /\ rec.pc = "stop"
    /\ \/ StopInstance(rec.target) /\ RecGoto("delete")
       \/ "stop" \in env.faults /\ RecGoto("act") /\ UNCHANGED <<up, stopped>>
    /\ UNCHANGED <<sessions, starting, stopping, labelVars, index, suppressed,
                   triggered, watch, req>>

SuppressDelete ==
    /\ rec.pc = "delete"
    /\ sessions' = sessions \ {rec.target}
    /\ suppressed' = suppressed \cup {rec.target}
    /\ RecGoto("act")
    /\ UNCHANGED <<up, starting, stopping, stopped, labelVars, index, triggered,
                   watch, req>>

(* restoreFromAntiAffinity looks at the error of instanceRequest only. *)
RestoreEnd ==
    /\ rec.pc = "restore"
    /\ req[Restorer].pc \in {"ok", "error"}
    /\ suppressed' = IF req[Restorer].pc = "ok" THEN suppressed \ {rec.target}
                                                ELSE suppressed
    /\ req' = [req EXCEPT ![Restorer] = NoReq]
    /\ RecGoto("act")
    /\ UNCHANGED <<storeVars, labelVars, index, triggered, watch>>

ReconcileEnd ==
    /\ rec.pc = "act"
    /\ rec.todo = {}
    /\ rec' = NoRec
    /\ watch' = IF rec.byWatch THEN NoWatch ELSE watch
    /\ UNCHANGED <<storeVars, labelVars, index, suppressed, triggered, req>>

ReconcileStep ==
    \/ Evaluate
    \/ \E i \in Instance : Act(i)
    \/ SuppressStop
    \/ SuppressDelete
    \/ RestoreEnd
    \/ ReconcileEnd

-----------------------------------------------------------------------------
(* GroupWatch, as far as the index goes. *)

Enforce(changed) == IF changed THEN [NoWatch EXCEPT !.pc = "enforce"] ELSE NoWatch

(* handleAntiAffinityEvent: the index follows the event. *)
HandleEvent ==
    /\ watch.pc = Idle
    /\ notices # <<>>
    /\ LET e == Head(notices)
           changed == index[e.inst] # e.groups
       IN  /\ index' = [index EXCEPT ![e.inst] = e.groups]
           /\ watch' = IF e.type = "removed"
                       THEN [NoWatch EXCEPT !.pc = "forget", !.inst = e.inst,
                                            !.changed = changed]
                       ELSE Enforce(changed)
    /\ notices' = Tail(notices)
    /\ UNCHANGED <<env, storeVars, labels, present, suppressed, triggered, rec, req>>

(* Mutant of Forget: the mark is dropped without the mutex. *)
ForgetUnlocked ==
    /\ watch.pc = "forget"
    /\ suppressed' = suppressed \ {watch.inst}
    /\ watch' = Enforce(watch.changed)
    /\ UNCHANGED <<storeVars, labelVars, index, triggered, rec, req>>

(* The mark of a removed instance is dropped, under affinityMu. *)
Forget ==
    /\ watch.pc = "forget"
    /\ Unlocked
    /\ suppressed' = suppressed \ {watch.inst}
    /\ watch' = Enforce(watch.changed)
    /\ UNCHANGED <<storeVars, labelVars, index, triggered, rec, req>>

WatchTick ==
    /\ watch.pc = Idle
    /\ HasAntiAffinity
    /\ watch' = [NoWatch EXCEPT !.pc = "rebuild"]
    /\ UNCHANGED <<storeVars, labelVars, index, suppressed, triggered, rec, req>>

(* Mutant of Rebuild: the tick rebuilds the index and enforces nothing. *)
RebuildOnly ==
    /\ watch.pc = "rebuild"
    /\ index' = [i \in Instance |-> IF i \in present THEN labels[i] ELSE {}]
    /\ watch' = NoWatch
    /\ UNCHANGED <<storeVars, labelVars, suppressed, triggered, rec, req>>

(* reconcileAntiAffinityRegistry: the index of every listed instance is    *)
(* what its labels say, the others are dropped; an instance that cannot be *)
(* inspected, or every one if the list fails, is kept as it is.  A         *)
(* reconciliation follows.  The list, the inspects and the drops are one   *)
(* step: only this goroutine writes the index.                             *)
Rebuild ==
    /\ watch.pc = "rebuild"
    /\ \/ \E listed \in SUBSET present : \E unread \in SUBSET listed :
            /\ listed # present \/ unread # {} => "list" \in env.faults
            /\ index' = [i \in Instance |-> CASE i \in unread -> index[i]
                                            [] i \in listed \ unread -> labels[i]
                                            [] OTHER -> {}]
       \/ "list" \in env.faults /\ UNCHANGED index
    /\ watch' = Enforce(TRUE)
    /\ UNCHANGED <<storeVars, labelVars, suppressed, triggered, rec, req>>

WatchStep ==
    \/ HandleEvent
    \/ Forget
    \/ WatchTick
    \/ Rebuild

-----------------------------------------------------------------------------
(* The provider's side. *)

Notice(type, i, groups) ==
    \/ Len(notices) < MaxNotices /\ notices' = Append(notices, [type |-> type, inst |-> i, groups |-> groups])
    \/ "notice" \in env.faults /\ UNCHANGED notices

(* The labels of i are taken away or put back. *)
Relabel(i) ==
    /\ i \in env.relabelled /\ i \in present
    /\ labels' = [labels EXCEPT ![i] = Labels[i] \ @]
    /\ Notice("updated", i, labels'[i])
    /\ UNCHANGED <<env, storeVars, present, index, suppressed, triggered, rec, watch, req>>

(* A created event is handled as an updated one. *)
Create(i) ==
    /\ i \in env.destroyed /\ i \notin present
    /\ present' = present \cup {i}
    /\ labels' = [labels EXCEPT ![i] = Labels[i]]
    /\ Notice("updated", i, Labels[i])
    /\ UNCHANGED <<env, storeVars, index, suppressed, triggered, rec, watch, req>>

Destroy(i) ==
    /\ i \in env.destroyed /\ i \in present
    /\ StopInstance(i)
    /\ present' = present \ {i}
    /\ labels' = [labels EXCEPT ![i] = {}]
    /\ Notice("removed", i, {})
    /\ UNCHANGED <<env, sessions, starting, stopping, index, suppressed, triggered,
                   rec, watch, req>>

Next ==
    \/ \E p \in Request, i \in Instance : RequestBegin(p, i)
    \/ \E p \in Caller : RequestStep(p)
    \/ \E i \in Instance : \/ StartEnds(i) \/ Expire(i) \/ StopExpired(i)
                           \/ RemoveInstance(i)
                           \/ Relabel(i) \/ Create(i) \/ Destroy(i)
    \/ \E byWatch \in BOOLEAN : ReconcileBegin(byWatch)
    \/ ReconcileStep
    \/ WatchStep

SafetySpec == Init /\ [][Next]_vars

(* Goroutines run, provider calls return, events are delivered, and the    *)
(* ticker of GroupWatch fires.  A goroutine that waits for affinityMu gets *)
(* it in the end (sync.Mutex hands over to a waiter that starves).         *)
Fairness ==
    /\ \A p \in Caller : WF_vars(RequestStep(p))
    /\ \A i \in Tracked : /\ WF_vars(StartEnds(i))
                          /\ WF_vars(StopExpired(i))
                          /\ WF_vars(RemoveInstance(i))
    /\ WF_vars(ReconcileStep)
    /\ \A byWatch \in BOOLEAN : SF_vars(ReconcileBegin(byWatch))
    /\ WF_vars(WatchStep)
    /\ SF_vars(Forget)

Spec == SafetySpec /\ Fairness

-----------------------------------------------------------------------------
(* Properties. *)

(* One of the groups i backs off from has a session. *)
Active(i) == \E g \in labels[i] : Members[g] \cap sessions # {}

(* A reconciliation restores an instance only while it carries the mark:   *)
(* the event of its removal, which drops the mark, cannot come in between. *)
RestoresOnlySuppressed ==
    /\ rec.pc = "restore" => rec.target \in suppressed
    /\ req[Restorer].pc # Idle =>
            rec.pc = "restore" /\ req[Restorer].inst = rec.target

(* affinityMu is always released, although a restore goes through          *)
(* instanceRequest, which triggers a reconciliation of its own.            *)
ReconcileReturns == rec.pc # Idle ~> rec.pc = Idle

(* When no antagonist of an instance is active any more, its mark is       *)
(* cleared: no suppression outlives its reason, whatever starts and stops  *)
(* fail.  It does when the label is taken away, or while requests for the  *)
(* instance fail or lists leave it out.                                    *)
MarkIsCleared ==
    /\ env.relabelled = {} /\ env.destroyed = {}
    /\ env.faults \cap {"request", "list"} = {}
    => \A i \in Instance : <>[](~Active(i)) => []<>(i \notin suppressed)
=============================================================================
