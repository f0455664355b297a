--------------------------- MODULE InstanceRequest --------------------------
(***************************************************************************)
(* The life of a session: pkg/sablier/instance_request.go (instanceRequest *)
(* and requestStart, called by one goroutine per requested instance),      *)
(* instance_expired.go (the stop that follows an expiration) and the       *)
(* handler of "stopped" events in pkg/sabliercmd/start.go.                 *)
(*                                                                         *)
(* A step is what happens between two points where another goroutine can   *)
(* get in: a critical section of pendingMu, one call of the store, or one  *)
(* call of the provider.  The store is the one SessionStore.tla promises,  *)
(* with time left out: a session may expire at any moment.  The start      *)
(* goroutine calls provider.InstanceStart directly (no dependencies) and   *)
(* no instance has anti-affinity or running-hours labels.                  *)
(***************************************************************************)
EXTENDS Naturals

CONSTANTS
    Instance,         \* instance names
    Request,          \* goroutines that run instanceRequest, one call at a time
    Start,            \* pool of pendingStart objects, more than instances
    NoStart,          \* no entry in pendingStarts
    NoSession,        \* the store has no session for the instance
    External,         \* what others do to instances: subset of {"start", "stop"}
    Faults,           \* calls that may fail: subset of
                      \* {"get", "start", "lateStart", "inspect", "put", "stop"}
    RejectUnlabeled,  \* instanceRequest's rejectUnlabeled
    MaxStops,         \* bound on the stop goroutines per instance
    MaxEvents         \* bound on the undelivered stopped events per instance

ASSUME InstanceRequestAssumption ==
    /\ NoStart \notin Start
    /\ NoSession \notin {"starting", "stopped", "ready"}
    /\ External \subseteq {"start", "stop"}
    /\ Faults \subseteq {"get", "start", "lateStart", "inspect", "put", "stop"}
    /\ RejectUnlabeled \in BOOLEAN
    /\ MaxStops \in Nat
    /\ MaxEvents \in Nat

VARIABLES
    sessions,       \* the store: status of the session of each instance
    pendingStarts,  \* s.pendingStarts: a pendingStart object or NoStart
    starts,         \* the pendingStart objects and their goroutines
    pc,             \* where each request is in instanceRequest
    name,           \* the instance a request is about
    state,          \* instanceRequest's local variable, reduced to its status
    result,         \* what the last call of each request returned
    up,             \* the provider's view of each instance
    stops,          \* goroutines of onInstanceExpired that have not stopped yet
    events          \* stopped events the provider has not delivered yet

vars == <<sessions, pendingStarts, starts, pc, name, state, result, up, stops,
          events>>

reqVars == <<pc, name, state, result>>

(* InstanceStatus, as far as requests tell statuses apart: "ready" or not. *)
Status == {"starting", "stopped", "ready"}

(* A pendingStart: free (not allocated, or garbage), running               *)
(* (InstanceStart has not returned), returned (it succeeded, the entry is  *)
(* not cleaned up yet), failed (err set and done closed; the entry         *)
(* lingers).                                                               *)
StartState == {"free", "running", "returned", "failed"}

(* What a call returns: a state, "instance start failed" with the error of *)
(* a start, or another error.  "none" while the call is under way.         *)
Result == {"none", "state", "startFailed", "error"}

TypeOK ==
    /\ sessions \in [Instance -> Status \cup {NoSession}]
    /\ pendingStarts \in [Instance -> Start \cup {NoStart}]
    /\ starts \in [Start -> [inst : Instance, state : StartState]]
    /\ pc \in [Request -> {"idle", "start", "inspect", "register", "consume",
                           "check", "put"}]
    /\ name \in [Request -> Instance]
    /\ state \in [Request -> Status]
    /\ result \in [Request -> Result]
    /\ up \in [Instance -> {"down", "booting", "ready"}]
    /\ stops \in [Instance -> Nat]
    /\ events \in [Instance -> Nat]

Init ==
    /\ sessions = [i \in Instance |-> NoSession]
    /\ pendingStarts = [i \in Instance |-> NoStart]
    /\ \E i \in Instance :
        /\ starts = [s \in Start |-> [inst |-> i, state |-> "free"]]
        /\ name = [r \in Request |-> i]
    /\ pc = [r \in Request |-> "idle"]
    /\ state = [r \in Request |-> "stopped"]
    /\ result = [r \in Request |-> "none"]
    /\ up = [i \in Instance |-> "down"]
    /\ stops = [i \in Instance |-> 0]
    /\ events = [i \in Instance |-> 0]

-----------------------------------------------------------------------------
(* pendingStarts. *)

(* The channel done of the entry is still open. *)
InProgress(i) ==
    /\ pendingStarts[i] # NoStart
    /\ starts[pendingStarts[i]].state \in {"running", "returned"}

(* The entry is done and holds an error. *)
Failed(i) ==
    /\ pendingStarts[i] # NoStart
    /\ starts[pendingStarts[i]].state = "failed"

(* The objects once the entry of i, which is done, is garbage. *)
Collected(i) ==
    [s \in Start |-> IF s = pendingStarts[i]
                     THEN [starts[s] EXCEPT !.state = "free"]
                     ELSE starts[s]]

(* delete(s.pendingStarts, name) of an entry that is done, if there is one. *)
Forget(i) ==
    /\ pendingStarts' = [pendingStarts EXCEPT ![i] = NoStart]
    /\ starts' = Collected(i)

Goto(r, label) == pc' = [pc EXCEPT ![r] = label]

(* The request goes on. *)
GoOn(r, label) == Goto(r, label) /\ UNCHANGED <<name, state, result>>

(* The request returns. *)
Return(r, what) ==
    /\ Goto(r, "idle")
    /\ result' = [result EXCEPT ![r] = what]
    /\ UNCHANGED <<name, state>>

(* Continue to the Put with the given status. *)
GotoPut(r, status) ==
    /\ Goto(r, "put")
    /\ state' = [state EXCEPT ![r] = status]
    /\ UNCHANGED <<name, result>>

-----------------------------------------------------------------------------
(* instanceRequest. *)

(* sessions.Get decides which way the request goes; it may fail. *)
Get(r, i) ==
    /\ pc[r] = "idle"
    /\ name' = [name EXCEPT ![r] = i]
    /\ \/ /\ sessions[i] = NoSession
          /\ Goto(r, "start")
          /\ result' = [result EXCEPT ![r] = "none"]
          /\ UNCHANGED state
       \/ /\ sessions[i] # NoSession
          /\ state' = [state EXCEPT ![r] = sessions[i]]
          /\ Goto(r, IF sessions[i] = "ready" THEN "put" ELSE "consume")
          /\ result' = [result EXCEPT ![r] = "none"]
       \/ /\ "get" \in Faults
          /\ result' = [result EXCEPT ![r] = "error"]
          /\ UNCHANGED <<pc, state>>
    /\ UNCHANGED <<sessions, pendingStarts, starts, up, stops, events>>

(* requestStart's first critical section. *)
CheckPending(r) ==
    LET i == name[r] IN
    /\ pc[r] = "start"
    /\ \/ /\ InProgress(i)
          /\ GotoPut(r, "starting")
          /\ UNCHANGED <<pendingStarts, starts>>
       \/ Failed(i) /\ Forget(i) /\ Return(r, "startFailed")
       \/ /\ ~InProgress(i) /\ ~Failed(i)
          /\ Forget(i)
          /\ GoOn(r, "inspect")
    /\ UNCHANGED <<sessions, up, stops, events>>

(* requestStart's inspect, made without the lock: with RejectUnlabeled its *)
(* failure, or an instance without the label, ends the request; otherwise  *)
(* a failure only costs the details.                                       *)
InspectBeforeStart(r) ==
    /\ pc[r] = "inspect"
    /\ \/ GoOn(r, "register")
       \/ RejectUnlabeled /\ Return(r, "error")
    /\ UNCHANGED <<sessions, pendingStarts, starts, up, stops, events>>

(* Mutant of Register: no second look at pendingStarts after the inspect. *)
RegisterUnchecked(r) ==
    LET i == name[r] IN
    /\ pc[r] = "register"
    /\ \E s \in Start :
          /\ starts[s].state = "free"
          /\ pendingStarts' = [pendingStarts EXCEPT ![i] = s]
          /\ starts' = [starts EXCEPT
                  ![s] = [inst |-> i, state |-> "running"]]
    /\ GotoPut(r, "starting")
    /\ UNCHANGED <<sessions, up, stops, events>>

(* requestStart's second critical section: join a start that won the race, *)
(* or replace what is left of a finished one and start the goroutine.      *)
Register(r) ==
    LET i == name[r] IN
    /\ pc[r] = "register"
    /\ \/ InProgress(i) /\ UNCHANGED <<pendingStarts, starts>>
       \/ /\ ~InProgress(i)
          /\ \E s \in Start :
                /\ starts[s].state = "free"
                /\ pendingStarts' = [pendingStarts EXCEPT ![i] = s]
                /\ starts' = [Collected(i) EXCEPT
                        ![s] = [inst |-> i, state |-> "running"]]
    /\ GotoPut(r, "starting")
    /\ UNCHANGED <<sessions, up, stops, events>>

(* Mutant of ConsumePendingError: the entry of a finished start is removed *)
(* and the request goes on, whether the start failed or not.               *)
ConsumeSwallowsError(r) ==
    LET i == name[r] IN
    /\ pc[r] = "consume"
    /\ \/ InProgress(i) /\ GoOn(r, "put") /\ UNCHANGED <<pendingStarts, starts>>
       \/ ~InProgress(i) /\ Forget(i) /\ GoOn(r, "check")
    /\ UNCHANGED <<sessions, up, stops, events>>

(* consumePendingError: a finished start's error is returned once. *)
ConsumePendingError(r) ==
    LET i == name[r] IN
    /\ pc[r] = "consume"
    /\ \/ /\ InProgress(i)
          /\ GoOn(r, "put")
          /\ UNCHANGED <<pendingStarts, starts>>
       \/ Failed(i) /\ Forget(i) /\ Return(r, "startFailed")
       \/ /\ ~InProgress(i) /\ ~Failed(i)
          /\ Forget(i)
          /\ GoOn(r, "check")
    /\ UNCHANGED <<sessions, up, stops, events>>

(* provider.InstanceInspect: what the provider reports for an instance. *)
Inspected(i) ==
    CASE up[i] = "ready"   -> "ready"
      [] up[i] = "booting" -> "starting"
      [] up[i] = "down"    -> "stopped"

(* Mutant of InspectStatus: wait until the instance is ready. *)
InspectUntilReady(r) ==
    /\ pc[r] = "check"
    /\ IF Inspected(name[r]) = "ready"
       THEN GotoPut(r, "ready")
       ELSE UNCHANGED reqVars
    /\ UNCHANGED <<sessions, pendingStarts, starts, up, stops, events>>

(* The inspect of a session that is not ready yet; it may fail. *)
InspectStatus(r) ==
    /\ pc[r] = "check"
    /\ \/ GotoPut(r, Inspected(name[r]))
       \/ "inspect" \in Faults /\ Return(r, "error")
    /\ UNCHANGED <<sessions, pendingStarts, starts, up, stops, events>>

(* sessions.Put, which also renews the deadline; then the request returns. *)
Put(r) ==
    /\ pc[r] = "put"
    /\ \/ /\ sessions' = [sessions EXCEPT ![name[r]] = state[r]]
          /\ Return(r, "state")
       \/ "put" \in Faults /\ Return(r, "error") /\ UNCHANGED sessions
    /\ UNCHANGED <<pendingStarts, starts, up, stops, events>>

RequestStep(r) ==
    \/ CheckPending(r)
    \/ InspectBeforeStart(r)
    \/ Register(r)
    \/ ConsumePendingError(r)
    \/ InspectStatus(r)
    \/ Put(r)

-----------------------------------------------------------------------------
(* The start goroutine. *)

(* InstanceStart makes a stopped instance boot. *)
Boot(i) == up' = [up EXCEPT ![i] = IF @ = "down" THEN "booting" ELSE @]

SetStart(s, to) == starts' = [starts EXCEPT ![s].state = to]

StartSucceeds(s) ==
    /\ starts[s].state = "running"
    /\ Boot(starts[s].inst)
    /\ SetStart(s, "returned")
    /\ UNCHANGED <<sessions, pendingStarts, reqVars, stops, events>>

(* Mutant of StartFails: the entry is deleted as after a success. *)
StartFailsUnnoticed(s) ==
    /\ starts[s].state = "running"
    /\ "start" \in Faults
    /\ pendingStarts' = [pendingStarts EXCEPT ![starts[s].inst] = NoStart]
    /\ SetStart(s, "free")
    /\ UNCHANGED <<sessions, reqVars, up, stops, events>>

(* The error may come before the instance was touched, or after: the call  *)
(* timed out (InstanceStartTimeout) although the provider carried it out.  *)
StartFails(s) ==
    /\ starts[s].state = "running"
    /\ \/ "start" \in Faults /\ UNCHANGED up
       \/ "lateStart" \in Faults /\ Boot(starts[s].inst)
    /\ SetStart(s, "failed")
    /\ UNCHANGED <<sessions, pendingStarts, reqVars, stops, events>>

(* The critical section after a success, which deletes the entry if it is  *)
(* still this start's.  The deferred close(ps.done) comes after it; nobody *)
(* who looks pendingStarts up can tell when, so it is part of the step.    *)
CleanUp(s) ==
    LET i == starts[s].inst IN
    /\ starts[s].state = "returned"
    /\ pendingStarts' = [pendingStarts EXCEPT
            ![i] = IF @ = s THEN NoStart ELSE @]
    /\ SetStart(s, "free")
    /\ UNCHANGED <<sessions, reqVars, up, stops, events>>

StartStep(s) == StartSucceeds(s) \/ StartFails(s) \/ CleanUp(s)

-----------------------------------------------------------------------------
(* Expiration and events. *)

(* The store drops the session and runs OnInstanceExpired's callback,      *)
(* which starts a goroutine.                                               *)
Expire(i) ==
    /\ sessions[i] # NoSession
    /\ stops[i] < MaxStops
    /\ sessions' = [sessions EXCEPT ![i] = NoSession]
    /\ stops' = [stops EXCEPT ![i] = @ + 1]
    /\ UNCHANGED <<pendingStarts, starts, reqVars, up, events>>

(* The instance stops, and the provider tells if it was running. *)
BringDown(i) ==
    /\ up' = [up EXCEPT ![i] = "down"]
    /\ events' = [events EXCEPT ![i] = IF up[i] = "down" THEN @ ELSE @ + 1]

(* That goroutine calls InstanceStop.  The call may fail, or be left out   *)
(* because verifyEnabled is set and the instance cannot be inspected or    *)
(* has lost its label; it is never tried again.                            *)
StopExpired(i) ==
    /\ stops[i] > 0
    /\ events[i] < MaxEvents
    /\ \/ BringDown(i)
       \/ "stop" \in Faults /\ UNCHANGED <<up, events>>
    /\ stops' = [stops EXCEPT ![i] = @ - 1]
    /\ UNCHANGED <<sessions, pendingStarts, starts, reqVars>>

(* The stopped event reaches the handler, which deletes the session. *)
RemoveInstance(i) ==
    /\ events[i] > 0
    /\ events' = [events EXCEPT ![i] = @ - 1]
    /\ sessions' = [sessions EXCEPT ![i] = NoSession]
    /\ UNCHANGED <<pendingStarts, starts, reqVars, up, stops>>

-----------------------------------------------------------------------------
(* The provider's side. *)

BecomeReady(i) ==
    /\ up[i] = "booting"
    /\ up' = [up EXCEPT ![i] = "ready"]
    /\ UNCHANGED <<sessions, pendingStarts, starts, reqVars, stops, events>>

ExternalStart(i) ==
    /\ "start" \in External
    /\ up[i] = "down"
    /\ Boot(i)
    /\ UNCHANGED <<sessions, pendingStarts, starts, reqVars, stops, events>>

ExternalStop(i) ==
    /\ "stop" \in External
    /\ up[i] # "down"
    /\ events[i] < MaxEvents
    /\ BringDown(i)
    /\ UNCHANGED <<sessions, pendingStarts, starts, reqVars, stops>>

-----------------------------------------------------------------------------
Next ==
    \/ \E r \in Request, i \in Instance : Get(r, i)
    \/ \E r \in Request : RequestStep(r)
    \/ \E s \in Start : StartStep(s)
    \/ \E i \in Instance :
        \/ Expire(i)
        \/ StopExpired(i)
        \/ RemoveInstance(i)
        \/ BecomeReady(i)
        \/ ExternalStart(i)
        \/ ExternalStop(i)

SafetySpec == Init /\ [][Next]_vars

(* Goroutines that were started run, calls of the provider return (the     *)
(* start's context has a timeout), events are delivered, instances boot.   *)
(* Nobody has to send a request, no session has to expire, nobody has to   *)
(* touch an instance from outside.                                         *)
Fairness ==
    /\ \A r \in Request : WF_vars(RequestStep(r))
    /\ \A s \in Start : WF_vars(StartStep(s))
    /\ \A i \in Instance : /\ WF_vars(StopExpired(i))
                           /\ WF_vars(RemoveInstance(i))
                           /\ WF_vars(BecomeReady(i))

Spec == SafetySpec /\ Fairness

(* Every client polls every instance it waits for: the waiting page        *)
(* reloads itself, and the blocking strategy asks again and again.  The    *)
(* store does not fail every time.                                         *)
Polling ==
    \A r \in Request, i \in Instance : SF_vars(Get(r, i) /\ pc'[r] # "idle")

PollingSpec == Spec /\ Polling

-----------------------------------------------------------------------------
(* Properties. *)

(* The calls of provider.InstanceStart that have not returned. *)
InFlight(i) == {s \in Start : starts[s].inst = i /\ starts[s].state = "running"}

(* However requests interleave around the unlocked inspect, at most one    *)
(* start of an instance is in flight, and it is the one other requests     *)
(* find in pendingStarts and join.                                         *)
OneStartInFlight ==
    \A i \in Instance : \A s \in InFlight(i) : pendingStarts[i] = s

(* A start that succeeded leaves no entry behind, whatever happened to the *)
(* map while it ran: an entry that is done holds an error.  The branches   *)
(* of requestStart and consumePendingError for a finished start without    *)
(* error are never needed.                                                 *)
DoneEntryFailed ==
    \A i \in Instance : pendingStarts[i] # NoStart =>
        /\ starts[pendingStarts[i]].inst = i
        /\ starts[pendingStarts[i]].state \in {"running", "returned", "failed"}

(* The starts of an instance do what SingleFlight promises: no request     *)
(* drops, replaces or overlaps a start that is under way, every start      *)
(* ends, and a failure stays until one request has returned it or a new    *)
(* start replaces it.                                                      *)
Phase(i) ==
    CASE InFlight(i) # {} -> "starting"
      [] InFlight(i) = {} /\ InProgress(i) -> "started"
      [] InFlight(i) = {} /\ Failed(i) -> "failed"
      [] OTHER -> "idle"

Flight == INSTANCE SingleFlight WITH phase <- [i \in Instance |-> Phase(i)]

KeepsSingleFlight == Flight!Spec

(* The part of KeepsSingleFlight that has no fairness in it. *)
KeepsSingleFlightSafety == Flight!SafetySpec

(* Every request returns, although other requests share its start and its  *)
(* session may be removed under it.                                        *)
RequestsReturn == \A r \in Request : pc[r] # "idle" ~> pc[r] = "idle"

(* The request returns the error of a failed start of i in this step. *)
Reports(r, i) ==
    /\ name[r] = i
    /\ pc[r] # "idle" /\ pc'[r] = "idle"
    /\ result'[r] = "startFailed"

(* A failed start leaves pendingStarts in two ways only: a request for its *)
(* instance returns its error to the client, or a request that inspected   *)
(* the instance while the start was failing replaces it by a new start     *)
(* (the one case in which nobody hears of it).  And an error is returned   *)
(* once: the request that reports it takes it out of the map.              *)
HandOver(i) ==
    /\ Failed(i) /\ ~Failed(i)' =>
        \/ \E r \in Request : Reports(r, i)
        \/ pendingStarts'[i] # pendingStarts[i] /\ InProgress(i)'
    /\ \A r \in Request : Reports(r, i) => Failed(i) /\ ~Failed(i)'

(* The part of FailureIsReported that has no fairness in it. *)
FailureIsHandedOver == [][\A i \in Instance : HandOver(i)]_vars

(* Clients that keep polling hear of a failed start: its error stays in    *)
(* the map until it is handed over, and that happens, whether the session  *)
(* is still there or not, unless they are told that the instance is ready. *)
FailureIsReported ==
    /\ [][\A i \in Instance : HandOver(i)]_vars
    /\ Polling => \A i \in Instance :
                      Failed(i) ~> (~Failed(i) \/ sessions[i] = "ready")

(* What the comment on consumePendingError ("entry cleared for retry") and *)
(* the documentation of start failures promise: after a failed start whose *)
(* error was returned, clients that keep polling get another start, or at  *)
(* least their session ends so that the next request starts anew.          *)
FailedStartIsRetried ==
    \A i \in Instance :
        (sessions[i] # NoSession /\ up[i] = "down" /\ pendingStarts[i] = NoStart)
            ~> (InProgress(i) \/ up[i] # "down" \/ sessions[i] = NoSession)
=============================================================================
