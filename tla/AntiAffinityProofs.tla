------------------------- MODULE AntiAffinityProofs -------------------------
(***************************************************************************)
(* Theorems about AntiAffinity, for all instances, groups, labels, numbers *)
(* of requests and surroundings, faults included.                          *)
(***************************************************************************)
EXTENDS AntiAffinity, TLAPS

(* Goroutines at rest. *)
LEMMA RestTypes ==
    /\ NoRec \in Reconciliation /\ NoRec.pc = Idle
    /\ NoWatch \in Watcher /\ NoWatch.pc = Idle
    /\ NoReq \in InstanceCall /\ NoReq.pc = Idle
BY DEF NoRec, NoReq, NoWatch, Idle, Reconciliation, Watcher, InstanceCall

(* The Gets of a set of groups are pairs of a group and an instance. *)
LEMMA ChecksType ==
    ASSUME NEW gs \in SUBSET Group
    PROVE  Checks(gs) \in SUBSET (Group \X Instance)
BY DEF Checks

(* A call of instanceRequest that has not returned has an instance, and so *)
(* has a reconciliation that is about to stop or restore one.              *)
HasTarget ==
    /\ \A p \in Caller : req[p].pc # Idle => req[p].inst \in Instance
    /\ rec.pc \in {"stop", "delete", "restore"} => rec.target \in Instance

(* The inductive invariant. *)
IInv == TypeOK /\ HasTarget /\ RestoresOnlySuppressed

LEMMA InitInv == Init => IInv
<1> SUFFICES ASSUME Init PROVE IInv
  OBVIOUS
<1>1. watch \in Watcher
  BY RestTypes DEF Init, NoWatch, Watcher
<1>2. \A p \in Caller : req[p] = NoReq
  BY DEF Init
<1>3. notices \in Seq(InstanceEvent)
  BY DEF Init
<1> QED
  BY <1>1, <1>2, <1>3, RestTypes, AntiAffinityAssumption
  DEF Init, IInv, TypeOK, HasTarget, RestoresOnlySuppressed, Caller, Idle

(* The effect of the three ways a call of instanceRequest moves on. *)
Moved(p, pcs) ==
    /\ req' \in [Caller -> InstanceCall]
    /\ \A q \in Caller \ {p} : req'[q] = req[q]
    /\ req'[p].pc \in pcs
    /\ req'[p].pc # Idle => req'[p].inst = req[p].inst

LEMMA GotoMoves ==
    ASSUME req \in [Caller -> InstanceCall], NEW p \in Caller, NEW new \in BOOLEAN,
           NEW pc \in {"get", "start", "put"}, ReqGoto(p, pc, new)
    PROVE  Moved(p, {"get", "start", "put"})
BY DEF ReqGoto, Moved, InstanceCall, Idle

LEMMA ReturnMoves ==
    ASSUME req \in [Caller -> InstanceCall], NEW p \in Caller,
           NEW result \in {"ok", "error"}, Return(p, result)
    PROVE  Moved(p, {Idle, "ok", "error"})
<1>1. CASE p = Restorer
  <2> DEFINE new == [req[p] EXCEPT !.pc = result, !.toCheck = {}]
  <2>1. new \in InstanceCall
    BY DEF InstanceCall
  <2>2. new.pc = result /\ new.inst = req[p].inst
    BY DEF InstanceCall
  <2>3. req' = [req EXCEPT ![p] = new]
    BY <1>1 DEF Return
  <2> HIDE DEF new
  <2> QED
    BY <2>1, <2>2, <2>3 DEF Moved
<1>2. CASE p # Restorer
  BY <1>2, RestTypes DEF Return, Moved
<1> QED
  BY <1>1, <1>2

LEMMA CallMoves ==
    ASSUME TypeOK, NEW p \in Caller, NEW i \in Instance, Call(p, i)
    PROVE  /\ req' \in [Caller -> InstanceCall]
           /\ \A q \in Caller \ {p} : req'[q] = req[q]
           /\ req'[p].inst = i
<1>1. Checks(index[i]) \in SUBSET (Group \X Instance)
  BY ChecksType DEF TypeOK
<1>2. [NoReq EXCEPT !.pc = "hold", !.inst = i, !.toCheck = Checks(index[i])]
        \in InstanceCall
  BY <1>1 DEF NoReq, InstanceCall, Idle
<1>3. [NoReq EXCEPT !.pc = "hold", !.inst = i, !.toCheck = Checks(index[i])].inst = i
  BY DEF NoReq
<1> QED
  BY <1>2, <1>3 DEF Call, TypeOK

(* A step of a request keeps the invariant. *)
LEMMA RequestKeeps ==
    ASSUME IInv, NEW p \in Caller, RequestStep(p)
    PROVE  IInv'
<1>1. req \in [Caller -> InstanceCall]
  BY DEF IInv, TypeOK
<1>2. req[p].pc # Idle /\ req[p].inst \in Instance
  BY DEF RequestStep, Hold, GetSession, DispatchStart, PutSession, Idle, IInv,
         HasTarget
<1>3. Moved(p, {Idle, "hold", "get", "start", "put", "ok", "error"})
  <2>1. CASE Hold(p)
    <3>1. ASSUME NEW gm \in req[p].toCheck,
                 req' = [req EXCEPT ![p].toCheck = @ \ {gm}]
          PROVE  Moved(p, {"hold"})
      BY <1>1, <2>1, <3>1 DEF Hold, Moved, InstanceCall
    <3> QED
      BY <1>1, <2>1, <3>1, GotoMoves, ReturnMoves DEF Hold, Moved
  <2>2. CASE GetSession(p)
    BY <1>1, <2>2, GotoMoves, ReturnMoves DEF GetSession, Moved
  <2>3. CASE DispatchStart(p)
    BY <1>1, <2>3, GotoMoves, ReturnMoves DEF DispatchStart, Moved
  <2>4. CASE PutSession(p)
    BY <1>1, <2>4, ReturnMoves DEF PutSession, Moved
  <2> QED
    BY <2>1, <2>2, <2>3, <2>4 DEF RequestStep
<1>4. /\ sessions' \subseteq Instance
      /\ starting' \subseteq Tracked
      /\ triggered' \in BOOLEAN
      /\ UNCHANGED <<up, stopping, stopped, labelVars, index, suppressed, rec,
                     watch>>
  BY <1>2 DEF RequestStep, Hold, GetSession, DispatchStart, PutSession, Trigger,
              HasAntiAffinity, IInv, TypeOK, storeVars
<1>5. TypeOK'
  BY <1>3, <1>4 DEF IInv, TypeOK, Moved, labelVars
<1>6. HasTarget'
  BY <1>2, <1>3, <1>4 DEF IInv, HasTarget, Moved
<1>7. RestoresOnlySuppressed'
  BY <1>2, <1>3, <1>4 DEF IInv, RestoresOnlySuppressed, Moved, Caller
<1> QED
  BY <1>5, <1>6, <1>7 DEF IInv

(* A new request keeps the invariant. *)
LEMMA BeginKeeps ==
    ASSUME IInv, NEW p \in Request, NEW i \in Instance, RequestBegin(p, i)
    PROVE  IInv'
<1>1. p \in Caller /\ p # Restorer
  BY AntiAffinityAssumption DEF Caller
<1>2. /\ req' \in [Caller -> InstanceCall]
      /\ \A q \in Caller \ {p} : req'[q] = req[q]
      /\ req'[p].inst = i
  BY <1>1, CallMoves DEF RequestBegin, IInv
<1> QED
  BY <1>1, <1>2
  DEF RequestBegin, IInv, TypeOK, HasTarget, RestoresOnlySuppressed, storeVars,
      labelVars, Caller

(* The queue of events keeps its type. *)
LEMMA NoticeType ==
    ASSUME notices \in Seq(InstanceEvent), NEW i \in Instance,
           NEW type \in {"updated", "removed"}, NEW groups \in SUBSET Group,
           Notice(type, i, groups)
    PROVE  notices' \in Seq(InstanceEvent)
<1>1. [type |-> type, inst |-> i, groups |-> groups] \in InstanceEvent
  BY DEF InstanceEvent
<1> QED
  BY <1>1 DEF Notice

(* Starts, expirations, stops and events keep the invariant. *)
LEMMA InstanceKeeps ==
    ASSUME IInv, NEW i \in Instance,
           \/ StartEnds(i) \/ Expire(i) \/ StopExpired(i)
           \/ RemoveInstance(i) \/ Relabel(i) \/ Create(i) \/ Destroy(i)
    PROVE  IInv'
<1> USE AntiAffinityAssumption
      DEF IInv, TypeOK, HasTarget, RestoresOnlySuppressed, storeVars, labelVars,
          StopInstance
<1>1. CASE StartEnds(i)
  BY <1>1 DEF StartEnds
<1>2. CASE Expire(i)
  BY <1>2 DEF Expire, Trigger, HasAntiAffinity
<1>3. CASE StopExpired(i)
  BY <1>3 DEF StopExpired
<1>4. CASE RemoveInstance(i)
  BY <1>4 DEF RemoveInstance
<1>5. CASE Relabel(i)
  <2>1. labels' \in [Instance -> SUBSET Group] /\ labels'[i] \in SUBSET Group
    BY <1>5 DEF Relabel
  <2>2. notices' \in Seq(InstanceEvent)
    BY <1>5, <2>1, NoticeType DEF Relabel
  <2> QED
    BY <1>5, <2>1, <2>2 DEF Relabel
<1>6. CASE Destroy(i)
  <2>1. up' \subseteq Tracked /\ stopped' \subseteq Tracked
    BY <1>6 DEF Destroy
  <2>2. notices' \in Seq(InstanceEvent)
    BY <1>6, NoticeType DEF Destroy
  <2> QED
    BY <1>6, <2>1, <2>2 DEF Destroy
<1>7. CASE Create(i)
  <2>1. labels' \in [Instance -> SUBSET Group] /\ Labels[i] \in SUBSET Group
    BY <1>7 DEF Create
  <2>2. notices' \in Seq(InstanceEvent)
    BY <1>7, <2>1, NoticeType DEF Create
  <2> QED
    BY <1>7, <2>1, <2>2 DEF Create
<1> QED
  BY <1>1, <1>2, <1>3, <1>4, <1>5, <1>6, <1>7

(* A reconciliation begins. *)
LEMMA ReconcileBeginKeeps ==
    ASSUME IInv, NEW byWatch \in BOOLEAN, ReconcileBegin(byWatch)
    PROVE  IInv'
<1> DEFINE all == UNION {index[i] : i \in Instance}
<1> DEFINE begun == [NoRec EXCEPT !.pc = "evaluate", !.byWatch = byWatch,
                         !.snap = index, !.toCheck = Checks(all)]
<1>1. Checks(all) \in SUBSET (Group \X Instance)
  <2>1. all \in SUBSET Group
    BY DEF IInv, TypeOK
  <2> QED
    BY <2>1, ChecksType
<1>2. begun \in Reconciliation /\ begun.pc = "evaluate"
  BY <1>1 DEF NoRec, Reconciliation, IInv, TypeOK, Idle
<1>3. rec' \in {begun, NoRec}
  BY DEF ReconcileBegin
<1>4. rec' \in Reconciliation /\ rec'.pc \in {Idle, "evaluate"}
  BY <1>2, <1>3, RestTypes
<1>5. watch' \in Watcher /\ triggered' \in BOOLEAN
  BY RestTypes DEF ReconcileBegin, IInv, TypeOK
<1>6. req[Restorer].pc = Idle
  BY DEF ReconcileBegin, Unlocked, IInv, RestoresOnlySuppressed, Idle
<1>7. UNCHANGED <<storeVars, labelVars, index, suppressed, req>>
  BY DEF ReconcileBegin
<1>8. TypeOK'
  BY <1>4, <1>5, <1>7 DEF IInv, TypeOK, storeVars, labelVars
<1> QED
  BY <1>4, <1>6, <1>7, <1>8 DEF IInv, HasTarget, RestoresOnlySuppressed, Idle

(* The three ways a reconciliation's record changes while it acts. *)
LEMMA RecGotoType ==
    ASSUME rec \in Reconciliation,
           NEW pc \in {"act", "stop", "delete", "restore"}, RecGoto(pc)
    PROVE  rec' \in Reconciliation /\ rec'.pc = pc /\ rec'.target = rec.target
BY DEF RecGoto, Reconciliation

LEMMA RecTargetType ==
    ASSUME rec \in Reconciliation, NEW i \in Instance,
           NEW pc \in {"stop", "restore"},
           rec' = [rec EXCEPT !.pc = pc, !.target = i, !.todo = @ \ {i}]
    PROVE  rec' \in Reconciliation /\ rec'.pc = pc /\ rec'.target = i
BY DEF Reconciliation

LEMMA RecSkipType ==
    ASSUME rec \in Reconciliation, NEW i \in Instance,
           rec' = [rec EXCEPT !.todo = @ \ {i}]
    PROVE  rec' \in Reconciliation /\ rec'.pc = rec.pc
BY DEF Reconciliation

(* A reconciliation at work keeps the invariant. *)
LEMMA ReconcileKeeps ==
    ASSUME IInv, ReconcileStep
    PROVE  IInv'
<1>r. rec \in Reconciliation
  BY DEF IInv, TypeOK
<1>1. CASE Evaluate
  <2>1. rec' \in Reconciliation /\ rec'.pc \in {"evaluate", "act"}
    <3> DEFINE open == {gm \in rec.toCheck : gm[1] \notin rec.active}
    <3>1. ASSUME NEW gm \in open, rec' = [rec EXCEPT !.active = @ \cup {gm[1]}]
          PROVE  rec' \in Reconciliation /\ rec'.pc = "evaluate"
      BY <1>r, <1>1, <3>1 DEF Evaluate, Reconciliation
    <3>2. ASSUME NEW gm \in open, rec' = [rec EXCEPT !.toCheck = @ \ {gm}]
          PROVE  rec' \in Reconciliation /\ rec'.pc = "evaluate"
      BY <1>r, <1>1, <3>2 DEF Evaluate, Reconciliation
    <3>3. ASSUME rec' = [rec EXCEPT !.pc = "act", !.toCheck = {},
                            !.todo = {i \in Instance : rec.snap[i] # {}}]
          PROVE  rec' \in Reconciliation /\ rec'.pc = "act"
      BY <1>r, <3>3 DEF Reconciliation
    <3> QED
      BY <1>1, <3>1, <3>2, <3>3 DEF Evaluate
  <2>2. req[Restorer].pc = Idle
    BY <1>1 DEF Evaluate, IInv, RestoresOnlySuppressed
  <2>3. UNCHANGED <<storeVars, labelVars, index, suppressed, triggered, watch, req>>
    BY <1>1 DEF Evaluate
  <2>4. TypeOK'
    BY <2>1, <2>3 DEF IInv, TypeOK, storeVars, labelVars
  <2> QED
    BY <2>1, <2>2, <2>3, <2>4 DEF IInv, HasTarget, RestoresOnlySuppressed
<1>2. ASSUME NEW i \in Instance, Act(i) PROVE IInv'
  <2>1. req[Restorer].pc = Idle /\ rec.pc = "act"
    BY <1>2 DEF Act, IInv, RestoresOnlySuppressed
  <2>2. UNCHANGED <<storeVars, labelVars, index, suppressed, triggered, watch>>
    BY <1>2 DEF Act
  <2>3. CASE /\ UNCHANGED req
             /\ \/ rec' = [rec EXCEPT !.pc = "stop", !.target = i, !.todo = @ \ {i}]
                \/ rec' = [rec EXCEPT !.todo = @ \ {i}]
    <3>1. /\ rec' \in Reconciliation
          /\ \/ rec'.pc = "stop" /\ rec'.target = i
             \/ rec'.pc = "act"
      BY <1>r, <2>1, <2>3, RecTargetType, RecSkipType
    <3>2. TypeOK'
      BY <2>2, <2>3, <3>1 DEF IInv, TypeOK, storeVars, labelVars
    <3> QED
      BY <2>1, <2>2, <2>3, <3>1, <3>2
      DEF IInv, HasTarget, RestoresOnlySuppressed
  <2>4. CASE /\ i \in suppressed
             /\ rec' = [rec EXCEPT !.pc = "restore", !.target = i, !.todo = @ \ {i}]
             /\ Call(Restorer, i)
    <3>1. rec' \in Reconciliation /\ rec'.pc = "restore" /\ rec'.target = i
      BY <1>r, <2>4, RecTargetType
    <3>2. /\ req' \in [Caller -> InstanceCall]
          /\ \A q \in Caller \ {Restorer} : req'[q] = req[q]
          /\ req'[Restorer].inst = i
      BY <2>4, CallMoves DEF Caller, IInv
    <3>3. TypeOK'
      BY <2>2, <3>1, <3>2 DEF IInv, TypeOK, storeVars, labelVars
    <3> QED
      BY <2>2, <2>4, <3>1, <3>2, <3>3
      DEF IInv, HasTarget, RestoresOnlySuppressed, Caller
  <2> QED
    BY <1>2, <2>3, <2>4 DEF Act
<1>3. CASE SuppressStop
  <2>1. rec' \in Reconciliation /\ rec'.pc \in {"delete", "act"}
        /\ rec'.target = rec.target /\ rec.target \in Instance
    BY <1>r, <1>3, RecGotoType DEF SuppressStop, IInv, HasTarget
  <2>2. up' \subseteq Tracked /\ stopped' \subseteq Tracked
    BY <1>3 DEF SuppressStop, StopInstance, IInv, TypeOK
  <2>3. req[Restorer].pc = Idle
    BY <1>3 DEF SuppressStop, IInv, RestoresOnlySuppressed
  <2>4. UNCHANGED <<sessions, starting, stopping, labelVars, index, suppressed,
                    triggered, watch, req>>
    BY <1>3 DEF SuppressStop
  <2>5. TypeOK'
    BY <2>1, <2>2, <2>4 DEF IInv, TypeOK, labelVars
  <2> QED
    BY <2>1, <2>3, <2>4, <2>5 DEF IInv, HasTarget, RestoresOnlySuppressed
<1>4. CASE SuppressDelete
  <2>1. rec' \in Reconciliation /\ rec'.pc = "act" /\ rec.target \in Instance
    BY <1>r, <1>4, RecGotoType DEF SuppressDelete, IInv, HasTarget
  <2>2. req[Restorer].pc = Idle
    BY <1>4 DEF SuppressDelete, IInv, RestoresOnlySuppressed
  <2>3. TypeOK'
    BY <1>4, <2>1 DEF SuppressDelete, IInv, TypeOK, labelVars
  <2> QED
    BY <1>4, <2>1, <2>2, <2>3
    DEF SuppressDelete, IInv, HasTarget, RestoresOnlySuppressed
<1>5. CASE RestoreEnd
  <2>1. rec' \in Reconciliation /\ rec'.pc = "act" /\ rec.target \in Instance
    BY <1>r, <1>5, RecGotoType DEF RestoreEnd, IInv, HasTarget
  <2>2. /\ req' \in [Caller -> InstanceCall]
        /\ req'[Restorer].pc = Idle
        /\ \A q \in Caller \ {Restorer} : req'[q] = req[q]
    BY <1>5, RestTypes DEF RestoreEnd, IInv, TypeOK, Caller
  <2>3. TypeOK'
    BY <1>5, <2>1, <2>2 DEF RestoreEnd, IInv, TypeOK, storeVars, labelVars
  <2> QED
    BY <2>1, <2>2, <2>3 DEF IInv, HasTarget, RestoresOnlySuppressed, Caller
<1>6. CASE ReconcileEnd
  <2>1. rec' = NoRec /\ watch' \in {watch, NoWatch} /\ req[Restorer].pc = Idle
    BY <1>6 DEF ReconcileEnd, IInv, RestoresOnlySuppressed
  <2>2. TypeOK'
    BY <1>6, <2>1, RestTypes DEF ReconcileEnd, IInv, TypeOK, storeVars, labelVars
  <2> QED
    BY <1>6, <2>1, <2>2, RestTypes
    DEF ReconcileEnd, IInv, HasTarget, RestoresOnlySuppressed, Idle
<1> QED
  BY <1>1, <1>2, <1>3, <1>4, <1>5, <1>6 DEF ReconcileStep

(* The GroupWatch goroutine keeps the invariant: Forget waits for the      *)
(* mutex, so it takes no mark from under a restore.                        *)
LEMMA WatchKeeps ==
    ASSUME IInv, WatchStep
    PROVE  IInv'
<1>1. /\ \A b \in BOOLEAN : Enforce(b) \in Watcher
      /\ [NoWatch EXCEPT !.pc = "rebuild"] \in Watcher
      /\ \A b \in BOOLEAN, i \in Instance :
            [NoWatch EXCEPT !.pc = "forget", !.inst = i, !.changed = b] \in Watcher
  BY DEF Enforce, NoWatch, Watcher, Idle
<1>2. CASE HandleEvent
  <2>1. /\ Head(notices) \in InstanceEvent
        /\ notices' \in Seq(InstanceEvent)
    BY <1>2 DEF HandleEvent, IInv, TypeOK
  <2>2. Head(notices).inst \in Instance /\ Head(notices).groups \in SUBSET Group
    BY <2>1 DEF InstanceEvent
  <2>3. watch' \in Watcher
    BY <1>1, <1>2, <2>2 DEF HandleEvent
  <2>4. index' \in [Instance -> SUBSET Group]
    BY <1>2, <2>2 DEF HandleEvent, IInv, TypeOK
  <2>5. TypeOK'
    BY <1>2, <2>1, <2>3, <2>4 DEF HandleEvent, IInv, TypeOK, storeVars
  <2> QED
    BY <1>2, <2>5 DEF HandleEvent, IInv, HasTarget, RestoresOnlySuppressed
<1>3. CASE Forget
  <2>1. watch' \in Watcher
    BY <1>1, <1>3 DEF Forget, IInv, TypeOK, Watcher
  <2>2. req[Restorer].pc = Idle /\ rec.pc = Idle
    BY <1>3 DEF Forget, Unlocked, IInv, RestoresOnlySuppressed, Idle
  <2>3. TypeOK'
    BY <1>3, <2>1 DEF Forget, IInv, TypeOK, storeVars, labelVars
  <2> QED
    BY <1>3, <2>2, <2>3 DEF Forget, IInv, HasTarget, RestoresOnlySuppressed, Idle
<1>4. CASE WatchTick \/ Rebuild
  <2>1. watch' \in Watcher /\ index' \in [Instance -> SUBSET Group]
    BY <1>1, <1>4 DEF WatchTick, Rebuild, IInv, TypeOK
  <2>2. UNCHANGED <<storeVars, labelVars, suppressed, triggered, rec, req>>
    BY <1>4 DEF WatchTick, Rebuild
  <2>3. TypeOK'
    BY <2>1, <2>2 DEF IInv, TypeOK, storeVars, labelVars
  <2> QED
    BY <2>2, <2>3 DEF IInv, HasTarget, RestoresOnlySuppressed
<1> QED
  BY <1>2, <1>3, <1>4 DEF WatchStep

(* The invariant holds in every reachable state. *)
THEOREM Invariance == SafetySpec => []IInv
<1>1. IInv /\ [Next]_vars => IInv'
  <2> SUFFICES ASSUME IInv, [Next]_vars PROVE IInv'
    OBVIOUS
  <2>1. CASE Next
    BY <2>1, RequestKeeps, BeginKeeps, InstanceKeeps, ReconcileBeginKeeps,
       ReconcileKeeps, WatchKeeps
    DEF Next
  <2>2. CASE UNCHANGED vars
    BY <2>2 DEF vars, storeVars, labelVars, IInv, TypeOK, HasTarget,
                RestoresOnlySuppressed
  <2> QED
    BY <2>1, <2>2
<1> QED
  BY <1>1, InitInv, PTL DEF SafetySpec

(* The variables of the anti-affinity component keep their types. *)
THEOREM TypeCorrect == SafetySpec => []TypeOK
BY Invariance, PTL DEF IInv

(* A reconciliation restores marked instances only: affinityMu keeps the   *)
(* handler of removals away from the mark while restoreFromAntiAffinity    *)
(* runs.                                                                   *)
THEOREM RestoreIsGuarded == SafetySpec => []RestoresOnlySuppressed
BY Invariance, PTL DEF IInv
=============================================================================
