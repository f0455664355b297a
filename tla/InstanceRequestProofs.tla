----------------------- MODULE InstanceRequestProofs ------------------------
(***************************************************************************)
(* Theorems about InstanceRequest, for any number of instances, requests   *)
(* and pendingStart objects.                                               *)
(***************************************************************************)
EXTENDS InstanceRequest, TLAPS

(* A pendingStart object that is in use is the entry of its instance. *)
InUseIsEntry ==
    \A s \in Start : starts[s].state # "free" =>
                        pendingStarts[starts[s].inst] = s

(* The inductive invariant.  OneStartInFlight alone is not inductive: that *)
(* a returned start cleans up its own entry needs the same fact for starts *)
(* that returned, and that the entry of an instance is never another       *)
(* instance's object needs DoneEntryFailed.                                *)
IInv == TypeOK /\ InUseIsEntry /\ DoneEntryFailed

(* The steps that touch neither pendingStarts nor its objects. *)
Elsewhere ==
    \/ \E r \in Request, i \in Instance : Get(r, i)
    \/ \E r \in Request : InspectBeforeStart(r) \/ InspectStatus(r) \/ Put(r)
    \/ \E i \in Instance :
        \/ Expire(i) \/ StopExpired(i) \/ RemoveInstance(i)
        \/ BecomeReady(i) \/ ExternalStart(i) \/ ExternalStop(i)

LEMMA ElsewhereUnchanged == Elsewhere => UNCHANGED <<pendingStarts, starts>>
  BY DEF Elsewhere, Get, InspectBeforeStart, InspectStatus, Put, Expire,
         StopExpired, RemoveInstance, BecomeReady, ExternalStart,
         ExternalStop, reqVars

(* A case analysis of the steps, used by every proof below. *)
LEMMA Steps ==
    Next => \/ Elsewhere
            \/ \E r \in Request : \/ CheckPending(r)
                                  \/ Register(r)
                                  \/ ConsumePendingError(r)
            \/ \E s \in Start : StartSucceeds(s) \/ StartFails(s) \/ CleanUp(s)
  BY DEF Next, Elsewhere, RequestStep, StartStep

(* Steps of the requests keep the types. *)
LEMMA TypeRequest ==
    ASSUME TypeOK, NEW r \in Request,
           \/ CheckPending(r) \/ Register(r) \/ ConsumePendingError(r)
           \/ InspectBeforeStart(r) \/ InspectStatus(r) \/ Put(r)
           \/ \E i \in Instance : Get(r, i)
    PROVE  TypeOK'
<1> USE DEF TypeOK, Goto, GoOn, GotoPut, Return, Status, StartState, Result
<1>1. name[r] \in Instance
  OBVIOUS
<1>2. \A i \in Instance : Collected(i) \in [Start -> [inst : Instance, state : StartState]]
  BY DEF Collected
<1>3. CASE CheckPending(r)
  BY <1>1, <1>2, <1>3 DEF CheckPending, Forget
<1>4. CASE Register(r)
  <2>1. pendingStarts' \in [Instance -> Start \cup {NoStart}]
    BY <1>1, <1>4 DEF Register
  <2>2. starts' \in [Start -> [inst : Instance, state : StartState]]
    <3>1. ASSUME NEW f \in [Start -> [inst : Instance, state : StartState]],
                 NEW s \in Start, NEW x \in [inst : Instance, state : StartState]
          PROVE  [f EXCEPT ![s] = x]
                    \in [Start -> [inst : Instance, state : StartState]]
      OBVIOUS
    <3>2. [inst |-> name[r], state |-> "running"]
            \in [inst : Instance, state : StartState]
      BY <1>1
    <3>3. CASE UNCHANGED starts
      BY <3>3
    <3>4. ASSUME NEW s \in Start,
                 starts' = [Collected(name[r]) EXCEPT
                            ![s] = [inst |-> name[r], state |-> "running"]]
          PROVE  starts' \in [Start -> [inst : Instance, state : StartState]]
      BY <1>1, <1>2, <3>1, <3>2, <3>4, Zenon
    <3> QED
      BY <1>4, <3>3, <3>4 DEF Register
  <2> QED
    BY <1>4, <2>1, <2>2 DEF Register
<1>5. CASE ConsumePendingError(r)
  BY <1>1, <1>2, <1>5 DEF ConsumePendingError, Forget
<1>6. CASE InspectBeforeStart(r)
  BY <1>6 DEF InspectBeforeStart
<1>7. CASE InspectStatus(r)
  <2>1. Inspected(name[r]) \in Status
    BY <1>1 DEF Inspected
  <2> QED
    BY <1>7, <2>1 DEF InspectStatus
<1>8. CASE Put(r)
  BY <1>1, <1>8 DEF Put
<1>9. ASSUME NEW i \in Instance, Get(r, i) PROVE TypeOK'
  BY <1>9 DEF Get
<1> QED
  BY <1>3, <1>4, <1>5, <1>6, <1>7, <1>8, <1>9

(* Every step keeps the types. *)
LEMMA TypeStep == TypeOK /\ [Next]_vars => TypeOK'
<1> SUFFICES ASSUME TypeOK, [Next]_vars PROVE TypeOK'
  OBVIOUS
<1>1. ASSUME NEW r \in Request, RequestStep(r) \/ \E i \in Instance : Get(r, i)
      PROVE  TypeOK'
  BY <1>1, TypeRequest DEF RequestStep
<1> USE DEF TypeOK, reqVars, StartState
<1>2. ASSUME NEW s \in Start, StartStep(s) PROVE TypeOK'
  <2>1. starts[s].inst \in Instance
    OBVIOUS
  <2>2. CASE StartSucceeds(s)
    BY <2>1, <2>2 DEF StartSucceeds, Boot, SetStart
  <2>3. CASE StartFails(s)
    BY <2>1, <2>3 DEF StartFails, Boot, SetStart
  <2>4. CASE CleanUp(s)
    BY <2>1, <2>4 DEF CleanUp, SetStart
  <2> QED
    BY <1>2, <2>2, <2>3, <2>4 DEF StartStep
<1>3. ASSUME NEW i \in Instance, Expire(i) \/ RemoveInstance(i) PROVE TypeOK'
  BY <1>3 DEF Expire, RemoveInstance
<1>4. ASSUME NEW i \in Instance, StopExpired(i) \/ ExternalStop(i)
      PROVE  TypeOK'
  BY <1>4 DEF StopExpired, ExternalStop, BringDown
<1>5. ASSUME NEW i \in Instance, BecomeReady(i) \/ ExternalStart(i)
      PROVE  TypeOK'
  BY <1>5 DEF BecomeReady, ExternalStart, Boot
<1>6. CASE UNCHANGED vars
  BY <1>6 DEF vars
<1> QED
  BY <1>1, <1>2, <1>3, <1>4, <1>5, <1>6 DEF Next

(* The requests' critical sections keep the invariant. *)
LEMMA InvRequest ==
    ASSUME IInv, TypeOK', NEW r \in Request,
           CheckPending(r) \/ Register(r) \/ ConsumePendingError(r)
    PROVE  IInv'
<1> DEFINE i == name[r]
<1>0. i \in Instance /\ NoStart \notin Start
  BY InstanceRequestAssumption DEF IInv, TypeOK
<1> HIDE DEF i
<1> USE <1>0 DEF IInv, TypeOK, InUseIsEntry, DoneEntryFailed
<1>1. ASSUME ~InProgress(i), Forget(i) PROVE IInv'
  BY <1>1 DEF Forget, Collected, InProgress
<1>2. ASSUME UNCHANGED <<pendingStarts, starts>> PROVE IInv'
  BY <1>2
<1>3. ASSUME ~InProgress(i), NEW s \in Start, starts[s].state = "free",
             pendingStarts' = [pendingStarts EXCEPT ![i] = s],
             starts' = [Collected(i) EXCEPT
                            ![s] = [inst |-> i, state |-> "running"]]
      PROVE  IInv'
  <2>1. /\ starts'[s] = [inst |-> i, state |-> "running"]
        /\ \A t \in Start \ {s} : starts'[t] = Collected(i)[t]
    BY <1>3 DEF Collected
  <2>2. /\ pendingStarts'[i] = s
        /\ \A j \in Instance \ {i} : pendingStarts'[j] = pendingStarts[j]
    BY <1>3
  <2>3. InUseIsEntry'
    <3> SUFFICES ASSUME NEW t \in Start \ {s}, starts'[t].state # "free"
                 PROVE  pendingStarts'[starts'[t].inst] = t
      BY <2>1, <2>2
    <3>1. t # pendingStarts[i] /\ starts'[t] = starts[t]
      BY <2>1 DEF Collected
    <3>2. pendingStarts[starts[t].inst] = t /\ starts[t].inst \in Instance
      BY <3>1
    <3>3. starts[t].inst # i
      BY <3>1, <3>2
    <3> QED
      BY <2>2, <3>1, <3>2, <3>3
  <2>4. DoneEntryFailed'
    <3> SUFFICES ASSUME NEW j \in Instance \ {i}, pendingStarts[j] # NoStart
                 PROVE  /\ starts'[pendingStarts[j]].inst = j
                        /\ starts'[pendingStarts[j]].state
                                \in {"running", "returned", "failed"}
      BY <2>1, <2>2
    <3>1. pendingStarts[j] # s
      BY <1>3
    <3>2. pendingStarts[j] # pendingStarts[i]
      OBVIOUS
    <3> QED
      BY <2>1, <3>1, <3>2 DEF Collected
  <2> QED
    BY <2>3, <2>4
<1>4. CASE CheckPending(r)
  BY <1>1, <1>2, <1>4 DEF CheckPending, i, Failed, InProgress
<1>5. CASE ConsumePendingError(r)
  BY <1>1, <1>2, <1>5 DEF ConsumePendingError, i, Failed, InProgress
<1>6. CASE Register(r)
  BY <1>2, <1>3, <1>6 DEF Register, i
<1> QED
  BY <1>4, <1>5, <1>6

(* The start goroutines keep the invariant. *)
LEMMA InvStart ==
    ASSUME IInv, TypeOK', NEW s \in Start,
           StartSucceeds(s) \/ StartFails(s) \/ CleanUp(s)
    PROVE  IInv'
<1> USE InstanceRequestAssumption
    DEF IInv, TypeOK, InUseIsEntry, DoneEntryFailed, SetStart
<1>1. CASE StartSucceeds(s)
  BY <1>1 DEF StartSucceeds
<1>2. CASE StartFails(s)
  BY <1>2 DEF StartFails
<1>3. CASE CleanUp(s)
  BY <1>3 DEF CleanUp
<1> QED
  BY <1>1, <1>2, <1>3

(* The invariant is inductive. *)
LEMMA InvStep == IInv /\ [Next]_vars => IInv'
<1> SUFFICES ASSUME IInv, [Next]_vars PROVE IInv'
  OBVIOUS
<1>1. TypeOK'
  BY TypeStep DEF IInv
<1>2. ASSUME UNCHANGED <<pendingStarts, starts>> PROVE IInv'
  BY <1>1, <1>2 DEF IInv, InUseIsEntry, DoneEntryFailed
<1>3. CASE Elsewhere \/ UNCHANGED vars
  BY <1>2, <1>3, ElsewhereUnchanged DEF vars
<1> QED
  BY <1>1, <1>3, Steps, InvRequest, InvStart

(* The invariant holds initially. *)
LEMMA InvInit == Init => IInv
<1> SUFFICES ASSUME Init PROVE IInv
  OBVIOUS
<1>1. TypeOK
  BY DEF Init, TypeOK, Status, StartState, Result
<1>2. InUseIsEntry /\ DoneEntryFailed
  BY DEF Init, InUseIsEntry, DoneEntryFailed
<1> QED
  BY <1>1, <1>2 DEF IInv

(* The invariant holds in every reachable state. *)
THEOREM Invariance == SafetySpec => []IInv
  BY InvInit, InvStep, PTL DEF SafetySpec

(* Every variable of the request path has its type. *)
THEOREM TypeCorrect == SafetySpec => []TypeOK
<1>1. IInv => TypeOK
  BY DEF IInv
<1> QED
  BY <1>1, Invariance, PTL

(* However many requests race, an instance has at most one start in        *)
(* flight, and pendingStarts knows it.                                     *)
THEOREM SingleStart == SafetySpec => []OneStartInFlight
<1>1. IInv => OneStartInFlight
  BY DEF IInv, InUseIsEntry, OneStartInFlight, InFlight
<1> QED
  BY <1>1, Invariance, PTL

(* An entry of pendingStarts whose start is over holds an error. *)
THEOREM SuccessIsCleanedUp == SafetySpec => []DoneEntryFailed
<1>1. IInv => DoneEntryFailed
  BY DEF IInv
<1> QED
  BY <1>1, Invariance, PTL

-----------------------------------------------------------------------------
(* Under the invariant the phase of an instance is that of its entry. *)
PhaseOfEntry ==
    \A i \in Instance :
        Phase(i) = IF pendingStarts[i] = NoStart THEN "idle"
                   ELSE IF starts[pendingStarts[i]].state = "running"
                   THEN "starting"
                   ELSE IF starts[pendingStarts[i]].state = "returned"
                   THEN "started"
                   ELSE "failed"

LEMMA PhaseTable == IInv => PhaseOfEntry
<1> SUFFICES ASSUME IInv, NEW i \in Instance
             PROVE  Phase(i) = IF pendingStarts[i] = NoStart THEN "idle"
                       ELSE IF starts[pendingStarts[i]].state = "running"
                       THEN "starting"
                       ELSE IF starts[pendingStarts[i]].state = "returned"
                       THEN "started"
                       ELSE "failed"
  BY DEF PhaseOfEntry
<1> USE InstanceRequestAssumption
    DEF IInv, TypeOK, InUseIsEntry, DoneEntryFailed, InFlight, InProgress, Failed
<1>1. CASE pendingStarts[i] = NoStart
  <2>1. InFlight(i) = {} /\ ~InProgress(i) /\ ~Failed(i)
    BY <1>1
  <2> QED
    BY <1>1, <2>1, Zenon DEF Phase
<1>2. CASE pendingStarts[i] # NoStart
  <2> DEFINE s == pendingStarts[i]
  <2>1. s \in Start /\ starts[s].inst = i
    BY <1>2
  <2>2. CASE starts[s].state = "running"
    <3>1. InFlight(i) # {}
      BY <2>1, <2>2
    <3> QED
      BY <1>2, <2>2, <3>1 DEF Phase
  <2>3. CASE starts[s].state = "returned"
    <3>1. InFlight(i) = {} /\ InProgress(i)
      BY <1>2, <2>1, <2>3
    <3> QED
      BY <1>2, <2>3, <3>1 DEF Phase
  <2>4. CASE starts[s].state = "failed"
    <3>1. InFlight(i) = {} /\ Failed(i) /\ ~InProgress(i)
      BY <1>2, <2>1, <2>4
    <3> QED
      BY <1>2, <2>4, <3>1 DEF Phase
  <2> QED
    BY <1>2, <2>2, <2>3, <2>4
<1> QED
  BY <1>1, <1>2

(* A step that leaves the entries of the other instances alone changes the *)
(* phase of one instance.                                                  *)
LEMMA PhaseStep ==
    ASSUME PhaseOfEntry, PhaseOfEntry', NEW i \in Instance,
           \A j \in Instance \ {i} :
              /\ pendingStarts'[j] = pendingStarts[j]
              /\ pendingStarts[j] # NoStart =>
                    starts'[pendingStarts[j]].state = starts[pendingStarts[j]].state
    PROVE  [j \in Instance |-> Phase(j)]'
                = [[j \in Instance |-> Phase(j)] EXCEPT ![i] = Phase(i)']
<1>1. \A j \in Instance \ {i} : Phase(j)' = Phase(j)
  BY DEF PhaseOfEntry
<1> QED
  BY <1>1

(* Every step of the request path is a step of the promise or leaves every *)
(* phase unchanged.                                                        *)
LEMMA FlightStep ==
    ASSUME IInv, IInv', PhaseOfEntry, PhaseOfEntry', [Next]_vars
    PROVE  [Flight!Next]_[i \in Instance |-> Phase(i)]
<1> DEFINE ph == [i \in Instance |-> Phase(i)]
<1> USE InstanceRequestAssumption DEF IInv, TypeOK, DoneEntryFailed
<1>1. ASSUME UNCHANGED <<pendingStarts, starts>> PROVE UNCHANGED ph
  BY <1>1 DEF PhaseOfEntry
<1>2. ASSUME NEW i \in Instance, Failed(i), Forget(i) PROVE Flight!Report(i)
  <2>1. Phase(i) = "failed" /\ Phase(i)' = "idle"
    BY <1>2 DEF PhaseOfEntry, Failed, Forget
  <2>2. \A j \in Instance \ {i} :
            /\ pendingStarts'[j] = pendingStarts[j]
            /\ pendingStarts[j] # NoStart =>
                 starts'[pendingStarts[j]].state = starts[pendingStarts[j]].state
    BY <1>2 DEF Failed, Forget, Collected
  <2>3. ph' = [ph EXCEPT ![i] = Phase(i)']
    BY <2>2, PhaseStep
  <2> QED
    BY <2>1, <2>3 DEF Flight!Report, Flight!Move
<1>3. ASSUME NEW i \in Instance, ~InProgress(i), ~Failed(i), Forget(i)
      PROVE  UNCHANGED ph
  <2>1. pendingStarts[i] = NoStart
    BY <1>3 DEF InProgress, Failed
  <2>2. UNCHANGED <<pendingStarts, starts>>
    BY <1>3, <2>1 DEF Forget, Collected
  <2> QED
    BY <1>1, <2>2
<1>4. ASSUME NEW i \in Instance, ~InProgress(i), NEW s \in Start,
             starts[s].state = "free",
             pendingStarts' = [pendingStarts EXCEPT ![i] = s],
             starts' = [Collected(i) EXCEPT
                            ![s] = [inst |-> i, state |-> "running"]]
      PROVE  Flight!Begin(i)
  <2>1. Phase(i) \in {"idle", "failed"}
    BY <1>4 DEF PhaseOfEntry, InProgress
  <2>2. Phase(i)' = "starting"
    <3>1. pendingStarts'[i] = s /\ starts'[s].state = "running"
      BY <1>4 DEF Collected
    <3> QED
      BY <3>1 DEF PhaseOfEntry
  <2>3. \A j \in Instance \ {i} :
            /\ pendingStarts'[j] = pendingStarts[j]
            /\ pendingStarts[j] # NoStart =>
                 starts'[pendingStarts[j]].state = starts[pendingStarts[j]].state
    <3> SUFFICES ASSUME NEW j \in Instance \ {i}
                 PROVE  /\ pendingStarts'[j] = pendingStarts[j]
                        /\ pendingStarts[j] # NoStart =>
                             starts'[pendingStarts[j]].state
                                = starts[pendingStarts[j]].state
      OBVIOUS
    <3>1. pendingStarts'[j] = pendingStarts[j]
      BY <1>4
    <3>2. ASSUME pendingStarts[j] # NoStart
          PROVE  pendingStarts[j] \in Start \ {s, pendingStarts[i]}
      BY <1>4, <3>2
    <3> QED
      BY <1>4, <3>1, <3>2 DEF Collected
  <2>4. ph' = [ph EXCEPT ![i] = Phase(i)']
    BY <2>3, PhaseStep
  <2> QED
    BY <2>1, <2>2, <2>4 DEF Flight!Begin, Flight!Move
<1>5. ASSUME NEW s \in Start, StartSucceeds(s) \/ StartFails(s) \/ CleanUp(s)
      PROVE  Flight!Next
  <2>0. PICK i \in Instance : i = starts[s].inst
    OBVIOUS
  <2>1. i = starts[s].inst /\ starts[s].state \in {"running", "returned"}
    BY <1>5, <2>0 DEF StartSucceeds, StartFails, CleanUp
  <2>2. pendingStarts[i] = s
    BY <2>1 DEF InUseIsEntry
  <2>3. \A j \in Instance \ {i} :
            /\ pendingStarts'[j] = pendingStarts[j]
            /\ pendingStarts[j] # NoStart =>
                 starts'[pendingStarts[j]].state = starts[pendingStarts[j]].state
    BY <1>5, <2>1 DEF StartSucceeds, StartFails, CleanUp, SetStart
  <2>4. ph' = [ph EXCEPT ![i] = Phase(i)']
    BY <2>3, PhaseStep
  <2>5. CASE StartSucceeds(s)
    <3>1. Phase(i) = "starting" /\ Phase(i)' = "started"
      BY <2>1, <2>2, <2>5 DEF PhaseOfEntry, StartSucceeds, SetStart
    <3>2. Flight!Succeed(i)
      BY <2>1, <2>4, <3>1 DEF Flight!Succeed, Flight!Move
    <3> QED
      BY <2>1, <3>2 DEF Flight!Next
  <2>6. CASE StartFails(s)
    <3>1. Phase(i) = "starting" /\ Phase(i)' = "failed"
      BY <2>1, <2>2, <2>6 DEF PhaseOfEntry, StartFails, SetStart
    <3>2. Flight!Fail(i)
      BY <2>1, <2>4, <3>1 DEF Flight!Fail, Flight!Move
    <3> QED
      BY <2>1, <3>2 DEF Flight!Next
  <2>7. CASE CleanUp(s)
    <3>1. Phase(i) = "started" /\ Phase(i)' = "idle"
      BY <2>1, <2>2, <2>7 DEF PhaseOfEntry, CleanUp, SetStart
    <3>2. Flight!CleanUp(i)
      BY <2>1, <2>4, <3>1 DEF Flight!CleanUp, Flight!Move
    <3> QED
      BY <2>1, <3>2 DEF Flight!Next
  <2> QED
    BY <1>5, <2>5, <2>6, <2>7
<1>6. ASSUME NEW r \in Request,
             CheckPending(r) \/ Register(r) \/ ConsumePendingError(r)
      PROVE  Flight!Next \/ UNCHANGED ph
  <2>1. name[r] \in Instance
    OBVIOUS
  <2>2. \/ UNCHANGED <<pendingStarts, starts>>
        \/ Failed(name[r]) /\ Forget(name[r])
        \/ ~InProgress(name[r]) /\ ~Failed(name[r]) /\ Forget(name[r])
        \/ /\ ~InProgress(name[r])
           /\ \E s \in Start :
                /\ starts[s].state = "free"
                /\ pendingStarts' = [pendingStarts EXCEPT ![name[r]] = s]
                /\ starts' = [Collected(name[r]) EXCEPT
                        ![s] = [inst |-> name[r], state |-> "running"]]
    BY <1>6 DEF CheckPending, Register, ConsumePendingError
  <2> QED
    BY <1>1, <1>2, <1>3, <1>4, <2>1, <2>2 DEF Flight!Next
<1>7. CASE Elsewhere \/ UNCHANGED vars
  BY <1>1, <1>7, ElsewhereUnchanged DEF vars
<1> QED
  BY <1>5, <1>6, <1>7, Steps

(* The safety part of the promise, for any number of instances. *)
THEOREM Refinement == SafetySpec => KeepsSingleFlightSafety
<1>1. Init => Flight!Init
  <2> SUFFICES ASSUME Init PROVE Flight!Init
    OBVIOUS
  <2>1. \A i \in Instance : Phase(i) = "idle"
    <3>1. PhaseOfEntry
      BY InvInit, PhaseTable
    <3> QED
      BY <3>1 DEF PhaseOfEntry, Init
  <2> QED
    BY <2>1 DEF Flight!Init
<1>2. IInv /\ IInv' /\ PhaseOfEntry /\ PhaseOfEntry' /\ [Next]_vars
        => [Flight!Next]_[i \in Instance |-> Phase(i)]
  BY FlightStep
<1> QED
  BY <1>1, <1>2, PhaseTable, Invariance, PTL
  DEF SafetySpec, KeepsSingleFlightSafety, Flight!SafetySpec

-----------------------------------------------------------------------------
(* No step but the one in which a request returns the error of a failed    *)
(* start reports one.                                                      *)
LEMMA ReportStep ==
    ASSUME IInv, [Next]_vars, NEW i \in Instance, NEW r \in Request,
           Reports(r, i)
    PROVE  Failed(i) /\ Forget(i)
<1> USE DEF IInv, TypeOK, Reports, Goto, GoOn, GotoPut, Return
<1>1. CASE UNCHANGED pc
  BY <1>1
<1>2. ASSUME NEW q \in Request, NEW j \in Instance, Get(q, j) PROVE FALSE
  BY <1>2 DEF Get
<1>3. ASSUME NEW q \in Request, InspectBeforeStart(q) \/ InspectStatus(q) \/ Put(q)
      PROVE  FALSE
  BY <1>3 DEF InspectBeforeStart, InspectStatus, Put
<1>4. ASSUME NEW q \in Request, CheckPending(q) \/ ConsumePendingError(q)
      PROVE  Failed(i) /\ Forget(i)
  BY <1>4 DEF CheckPending, ConsumePendingError
<1>5. ASSUME NEW q \in Request, Register(q) PROVE FALSE
  BY <1>5 DEF Register
<1>6. ASSUME NEW s \in Start, StartStep(s) PROVE UNCHANGED pc
  BY <1>6 DEF StartStep, StartSucceeds, StartFails, CleanUp, reqVars
<1>7. ASSUME NEW j \in Instance,
             \/ Expire(j) \/ StopExpired(j) \/ RemoveInstance(j)
             \/ BecomeReady(j) \/ ExternalStart(j) \/ ExternalStop(j)
      PROVE  UNCHANGED pc
  BY <1>7 DEF Expire, StopExpired, RemoveInstance, BecomeReady, ExternalStart,
              ExternalStop, reqVars
<1> QED
  BY <1>1, <1>2, <1>3, <1>4, <1>5, <1>6, <1>7 DEF Next, RequestStep, vars

(* A failed start is forgotten by the request that returns its error, or   *)
(* replaced by a start in progress.                                        *)
LEMMA FailureStep ==
    ASSUME IInv, IInv', [Next]_vars, NEW i \in Instance,
           Failed(i), ~Failed(i)'
    PROVE  \/ \E r \in Request : Reports(r, i)
           \/ pendingStarts'[i] # pendingStarts[i] /\ InProgress(i)'
<1> USE InstanceRequestAssumption DEF IInv, TypeOK, DoneEntryFailed, Failed
<1>1. ~UNCHANGED <<pendingStarts, starts>>
  OBVIOUS
<1>2. ~Elsewhere /\ ~UNCHANGED vars
  BY <1>1, ElsewhereUnchanged DEF vars
<1>3. ASSUME NEW s \in Start, StartSucceeds(s) \/ StartFails(s) \/ CleanUp(s)
      PROVE  FALSE
  <2>1. starts[s].state \in {"running", "returned"}
    BY <1>3 DEF StartSucceeds, StartFails, CleanUp
  <2>2. pendingStarts[i] # s
    BY <2>1
  <2>3. starts[s].inst # i
    BY <2>1, <2>2 DEF InUseIsEntry
  <2> QED
    BY <1>3, <2>2, <2>3 DEF StartSucceeds, StartFails, CleanUp, SetStart
<1>4. ASSUME NEW r \in Request, CheckPending(r) \/ ConsumePendingError(r)
      PROVE  \E q \in Request : Reports(q, i)
  <2>1. Forget(name[r])
    BY <1>1, <1>4 DEF CheckPending, ConsumePendingError
  <2>2. name[r] = i
    <3> SUFFICES ASSUME name[r] # i PROVE FALSE
      OBVIOUS
    <3>1. pendingStarts[name[r]] # pendingStarts[i]
      OBVIOUS
    <3> QED
      BY <2>1, <3>1 DEF Forget, Collected
  <2>3. Return(r, "startFailed")
    BY <1>1, <1>4, <2>2 DEF CheckPending, ConsumePendingError, InProgress
  <2>4. pc[r] # "idle"
    BY <1>4 DEF CheckPending, ConsumePendingError
  <2> QED
    BY <2>2, <2>3, <2>4 DEF Reports, Return, Goto
<1>5. ASSUME NEW r \in Request, Register(r)
      PROVE  pendingStarts'[i] # pendingStarts[i] /\ InProgress(i)'
  <2>1. PICK s \in Start :
            /\ starts[s].state = "free"
            /\ pendingStarts' = [pendingStarts EXCEPT ![name[r]] = s]
            /\ starts' = [Collected(name[r]) EXCEPT
                            ![s] = [inst |-> name[r], state |-> "running"]]
    BY <1>1, <1>5 DEF Register
  <2>2. pendingStarts[i] # s
    BY <2>1
  <2>3. name[r] = i
    <3> SUFFICES ASSUME name[r] # i PROVE FALSE
      OBVIOUS
    <3>1. pendingStarts[name[r]] # pendingStarts[i]
      OBVIOUS
    <3>2. pendingStarts'[i] = pendingStarts[i]
      BY <2>1
    <3>3. starts'[pendingStarts[i]] = starts[pendingStarts[i]]
      BY <2>1, <2>2, <3>1 DEF Collected
    <3> QED
      BY <3>2, <3>3
  <2>4. pendingStarts'[i] = s
    BY <2>1, <2>3
  <2>5. starts'[s].state = "running"
    BY <2>1 DEF Collected
  <2> QED
    BY <2>2, <2>4, <2>5 DEF InProgress
<1> QED
  BY <1>2, <1>3, <1>4, <1>5, Steps

(* No failed start is dropped in silence, and none is reported twice, for  *)
(* any number of instances and requests.                                   *)
THEOREM FailuresAreHandedOver == SafetySpec => FailureIsHandedOver
<1>1. ASSUME IInv, IInv', [Next]_vars
      PROVE  [\A i \in Instance : HandOver(i)]_vars
  <2> SUFFICES ASSUME NEW i \in Instance PROVE HandOver(i)
    OBVIOUS
  <2>1. ASSUME NEW r \in Request, Reports(r, i) PROVE Failed(i) /\ ~Failed(i)'
    <3>1. Failed(i) /\ Forget(i)
      BY <1>1, <2>1, ReportStep
    <3>2. pendingStarts'[i] = NoStart
      BY <1>1, <3>1 DEF Forget, IInv, TypeOK
    <3> QED
      BY <3>1, <3>2 DEF Failed
  <2> QED
    BY <1>1, <2>1, FailureStep DEF HandOver
<1> QED
  BY <1>1, Invariance, PTL DEF SafetySpec, FailureIsHandedOver
=============================================================================
