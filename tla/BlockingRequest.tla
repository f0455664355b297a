-------------------------- MODULE BlockingRequest ---------------------------
(***************************************************************************)
(* pkg/sablier/session_request.go and session.go: requestReadySession      *)
(* requests a session of several instances and blocks until all that gate  *)
(* it are ready, one of them fails, a timeout passes or the client leaves. *)
(* A goroutine polls on its behalf, after growing delays and when the      *)
(* starts in progress have ended, and answers over channels.               *)
(*                                                                         *)
(* An instance is reduced to what instanceRequest (InstanceRequest.tla)    *)
(* reports about it.  One blocking request is modelled; other requests     *)
(* appear as changes of the instances' states.                             *)
(***************************************************************************)
EXTENDS Integers

CONSTANTS
    Instance,
    FirstRecheck,  \* blockingFirstRecheck
    Frequencies,   \* values of BlockingRefreshFrequency, zero and less included
    Unasked,
    Faults         \* subset of {"request", "hold", "start", "expire"}

ASSUME BlockingRequestAssumption ==
    /\ FirstRecheck \in Nat \ {0}
    /\ Frequencies \subseteq Int
    /\ Unasked \notin {"ready", "not-ready", "error"}

VARIABLES
    inst,       \* state of every instance
    held,       \* instances with an active antagonist (anti-affinity)
    names,      \* what the client asks for
    optional,   \* those it asks for as "optional:<name>"
    frequency,  \* BlockingRefreshFrequency
    handler,    \* requestReadySession
    poller,     \* its goroutine, with timer, delay, started
    asking,     \* the requestSession in progress: goroutines left, and the map
    last,       \* the most recent session that was not ready
    readiness,  \* buffered channels
    errch

request == <<names, optional, frequency>>

vars == <<inst, held, request, handler, poller, asking, last, readiness, errch>>

polling == <<poller, last, readiness, errch>>

(* "starting": a start is in flight; "failed": its error was not reported  *)
(* yet; "stuck": it was, and the session stays.                            *)
State == {"down", "starting", "booting", "ready", "failed", "stuck"}

(* A session: the outcome of instanceRequest for each instance in it. *)
Session == [Instance -> {"ready", "not-ready", "error", Unasked}]

EmptySession == [i \in Instance |-> Unasked]

Answer == {"none", "rejected", "ready", "error", "timeout", "cancelled"}

TypeOK ==
    /\ inst \in [Instance -> State]
    /\ held \subseteq Instance
    /\ names \in SUBSET Instance
    /\ optional \in SUBSET names
    /\ frequency \in Frequencies
    /\ handler \in [pc : {"begin", "ask", "wait", "done"}, answer : Answer,
                    session : Session]
    /\ poller \in [pc : {"none", "wait", "ask", "done"}, timer : BOOLEAN,
                   delay : Int, started : BOOLEAN, awaited : SUBSET Instance]
    /\ asking \in [todo : SUBSET Instance, got : Session]
    /\ last \in Session
    /\ readiness \in SUBSET Session
    /\ errch \in SUBSET Session

NotAsking == [todo |-> {}, got |-> EmptySession]

(* The other instances play no part and are left down. *)
Init ==
    /\ inst \in [Instance -> {"down", "starting", "ready", "stuck"}]
    /\ held = {}
    /\ names \in SUBSET Instance
    /\ optional \in SUBSET names
    /\ \A i \in Instance \ names : inst[i] = "down"
    /\ frequency \in Frequencies
    /\ handler = [pc |-> "begin", answer |-> "none", session |-> EmptySession]
    /\ poller = [pc |-> "none", timer |-> FALSE, delay |-> 0, started |-> FALSE,
                 awaited |-> {}]
    /\ asking = NotAsking
    /\ last = EmptySession
    /\ readiness = {}
    /\ errch = {}

-----------------------------------------------------------------------------
(* SessionState *)

(* The instances that gate the session. *)
Gating(session) == {i \in Instance \ optional : session[i] # Unasked}

NotReadyInstances(session) == {i \in Gating(session) : session[i] # "ready"}

IsReady(session) == NotReadyInstances(session) = {}

(* Mutant of InstanceErrors: optional instances count. *)
AllErrors(session) == {i \in Instance : session[i] = "error"}

InstanceErrors(session) == {i \in Gating(session) : session[i] = "error"}

-----------------------------------------------------------------------------
(* requestSession *)

AskAll == asking' = [todo |-> names, got |-> EmptySession]

Asked == asking.todo = {}

(* Outcome r of instanceRequest for i, after which i is in state s. *)
Reply(i, r, s) ==
    /\ asking' = [todo |-> asking.todo \ {i}, got |-> [asking.got EXCEPT ![i] = r]]
    /\ inst' = [inst EXCEPT ![i] = s]

(* What instanceRequest does for i: an instance that is held is reported   *)
(* as not ready; one that is down is started; a failed start is reported;  *)
(* else the state is looked at.  The store or the provider may fail before *)
(* or after a start is dispatched.                                         *)
instanceRequest(i) ==
    \/ i \in held /\ Reply(i, "not-ready", inst[i])
    \/ /\ i \notin held
       /\ \/ inst[i] = "down" /\ Reply(i, "not-ready", "starting")
          \/ /\ inst[i] \in {"starting", "booting", "stuck"}
             /\ Reply(i, "not-ready", inst[i])
          \/ inst[i] = "ready" /\ Reply(i, "ready", "ready")
          \/ inst[i] = "failed" /\ Reply(i, "error", "stuck")
          \/ "request" \in Faults /\ Reply(i, "error", inst[i])
          \/ "request" \in Faults /\ inst[i] = "down" /\ Reply(i, "error", "starting")

(* The goroutine of i. *)
Ask(i) ==
    /\ i \in asking.todo
    /\ instanceRequest(i)
    /\ UNCHANGED <<held, request, handler, polling>>

-----------------------------------------------------------------------------
(* requestReadySession *)

Return(answer, session) ==
    handler' = [pc |-> "done", answer |-> answer, session |-> session]

(* A request without names, or for a group without members or that is not  *)
(* there, is rejected.                                                     *)
Begin ==
    /\ handler.pc = "begin"
    /\ \/ names = {} /\ Return("rejected", EmptySession) /\ UNCHANGED asking
       \/ names # {} /\ AskAll /\ handler' = [handler EXCEPT !.pc = "ask"]
    /\ UNCHANGED <<inst, held, request, polling>>

(* Mutant of MaxDelay: the frequency as it is configured. *)
ConfiguredDelay == frequency

MaxDelay == IF frequency <= 0 THEN FirstRecheck ELSE frequency

AtMost(d, m) == IF d < m THEN d ELSE m

(* startsDone: the starts in progress, looked up by the names as they were *)
(* given, so not those of optional instances.  A start that failed before  *)
(* and is still in the table would only wake the poller at once.           *)
StartsInProgress == {i \in names \ optional : inst[i] = "starting"}

(* The first session is there: answer, or launch the goroutine. *)
FirstSession ==
    /\ handler.pc = "ask"
    /\ Asked
    /\ asking' = NotAsking
    /\ \/ IsReady(asking.got) /\ Return("ready", asking.got) /\ UNCHANGED polling
       \/ /\ ~IsReady(asking.got)
          /\ InstanceErrors(asking.got) # {}
          /\ Return("error", asking.got)
          /\ UNCHANGED polling
       \/ /\ ~IsReady(asking.got)
          /\ InstanceErrors(asking.got) = {}
          /\ handler' = [handler EXCEPT !.pc = "wait"]
          /\ last' = asking.got
          /\ poller' = [pc |-> "wait", timer |-> TRUE,
                        delay |-> AtMost(FirstRecheck, MaxDelay),
                        started |-> StartsInProgress # {}, awaited |-> StartsInProgress]
          /\ UNCHANGED <<readiness, errch>>
    /\ UNCHANGED <<inst, held, request>>

(* The select at the end: the timeout passes or the client leaves, which   *)
(* may happen at any moment, or an answer has come.                        *)
GiveUp ==
    /\ handler.pc = "wait"
    /\ Return("timeout", last) \/ Return("cancelled", EmptySession)
    /\ UNCHANGED <<inst, held, request, polling, asking>>

(* The other cases of the select. *)
Answered ==
    /\ handler.pc = "wait"
    /\ \/ \E session \in readiness :
             /\ Return("ready", session)
             /\ readiness' = {}
             /\ UNCHANGED errch
       \/ \E session \in errch :
             /\ Return("error", session)
             /\ errch' = {}
             /\ UNCHANGED readiness
    /\ UNCHANGED <<inst, held, request, poller, asking, last>>

-----------------------------------------------------------------------------
(* The goroutine. *)

(* The select of its loop: the timer has fired, or the starts have ended,  *)
(* which counts once.                                                      *)
PollerWakes ==
    /\ poller.pc = "wait"
    /\ \/ /\ poller.timer
          /\ poller' = [poller EXCEPT !.pc = "ask", !.timer = FALSE,
                           !.delay = AtMost(2 * @, MaxDelay)]
       \/ /\ poller.started
          /\ poller.awaited = {}
          /\ poller' = [poller EXCEPT !.pc = "ask", !.started = FALSE]
    /\ AskAll
    /\ UNCHANGED <<inst, held, request, handler, last, readiness, errch>>

(* The session a poll ends with, on the channel for it. *)
Deliver(session) ==
    \/ IsReady(session) /\ readiness' = {session} /\ UNCHANGED errch
    \/ /\ ~IsReady(session)
       /\ InstanceErrors(session) # {}
       /\ errch' = {session}
       /\ UNCHANGED readiness

(* Mutants of SendAndReturn: the channels have no buffer; the session is   *)
(* published before it is looked at.                                       *)
SendUnbuffered ==
    /\ handler.pc = "wait"
    /\ Deliver(asking.got)
    /\ poller' = [poller EXCEPT !.pc = "done"]
    /\ UNCHANGED last

PublishAndSend ==
    /\ Deliver(asking.got)
    /\ last' = asking.got
    /\ poller' = [poller EXCEPT !.pc = "done"]

(* The send never blocks: it is the only one. *)
SendAndReturn ==
    /\ Deliver(asking.got)
    /\ poller' = [poller EXCEPT !.pc = "done"]
    /\ UNCHANGED last

Undecided(session) == ~IsReady(session) /\ InstanceErrors(session) = {}

(* Mutant of PublishAndWait: the timer is not reset. *)
PublishAndStall ==
    /\ Undecided(asking.got)
    /\ last' = asking.got
    /\ poller' = [poller EXCEPT !.pc = "wait"]
    /\ UNCHANGED <<readiness, errch>>

PublishAndWait ==
    /\ Undecided(asking.got)
    /\ last' = asking.got
    /\ poller' = [poller EXCEPT !.pc = "wait", !.timer = TRUE]
    /\ UNCHANGED <<readiness, errch>>

(* The session is there. *)
PollerDecides ==
    /\ poller.pc = "ask"
    /\ Asked
    /\ asking' = NotAsking
    /\ SendAndReturn \/ PublishAndWait
    /\ UNCHANGED <<inst, held, request, handler>>

(* The handler has returned, which closes quit. *)
PollerQuits ==
    /\ poller.pc = "wait"
    /\ handler.pc = "done"
    /\ poller' = [poller EXCEPT !.pc = "done"]
    /\ UNCHANGED <<inst, held, request, handler, asking, last, readiness, errch>>

-----------------------------------------------------------------------------
(* The environment. *)

(* The start of i ends, and the goroutine of startsDone hears of it. *)
StartEnds(i) ==
    /\ inst[i] = "starting"
    /\ \E s \in {"booting"} \cup (IF "start" \in Faults THEN {"failed"} ELSE {}) :
          inst' = [inst EXCEPT ![i] = s]
    /\ poller' = [poller EXCEPT !.awaited = @ \ {i}]
    /\ UNCHANGED <<held, request, handler, asking, last, readiness, errch>>

BecomeReady(i) ==
    /\ inst[i] = "booting"
    /\ inst' = [inst EXCEPT ![i] = "ready"]
    /\ UNCHANGED <<held, request, handler, polling, asking>>

(* A session ends and its instance is stopped. *)
Expire(i) ==
    /\ "expire" \in Faults
    /\ inst[i] \in {"booting", "ready", "stuck"}
    /\ inst' = [inst EXCEPT ![i] = "down"]
    /\ UNCHANGED <<held, request, handler, polling, asking>>

(* An antagonist becomes active, or stops to be. *)
Hold(i) ==
    /\ "hold" \in Faults
    /\ i \in names
    /\ held' = IF i \in held THEN held \ {i} ELSE held \cup {i}
    /\ UNCHANGED <<inst, request, handler, polling, asking>>

Environment ==
    \E i \in Instance : StartEnds(i) \/ BecomeReady(i) \/ Expire(i) \/ Hold(i)

Steps ==
    \/ \E i \in Instance : Ask(i)
    \/ Begin
    \/ FirstSession
    \/ PollerWakes
    \/ PollerDecides

(* Both goroutines have returned. *)
Returned ==
    /\ handler.pc = "done"
    /\ poller.pc \in {"none", "done"}
    /\ UNCHANGED vars

Next ==
    \/ Steps
    \/ GiveUp
    \/ Answered
    \/ PollerQuits
    \/ Environment
    \/ Returned

SafetySpec == Init /\ [][Next]_vars

(* Goroutines run, the calls of a poll return, timers fire; the select of  *)
(* the goroutine chooses at random and takes quit sooner or later.  The    *)
(* timeout of the request is as long as the client says.                   *)
Spec ==
    /\ SafetySpec
    /\ WF_vars(Steps)
    /\ WF_vars(Answered)
    /\ SF_vars(PollerQuits)

-----------------------------------------------------------------------------
(* Properties. *)

(* No answer is the fault of an optional instance: an error comes from an  *)
(* instance that gates the session, and a ready session has all of these   *)
(* ready (session.go).                                                     *)
OptionalNeverGates ==
    /\ handler.answer = "error" =>
         \E i \in names \ optional : handler.session[i] = "error"
    /\ handler.answer = "ready" =>
         \A i \in names \ optional : handler.session[i] = "ready"

(* A timeout names what the client was waiting for, even if the instances  *)
(* become ready, or fail, between the last poll and the timeout.           *)
TimeoutExplained ==
    handler.answer = "timeout" =>
        /\ NotReadyInstances(handler.session) # {}
        /\ InstanceErrors(handler.session) = {}

(* "A zero or negative frequency makes the timer fire at once, in a busy   *)
(* loop": the delay is positive and within the configured frequency.       *)
NoBusyLoop ==
    poller.pc # "none" =>
        /\ poller.delay > 0
        /\ frequency > 0 => poller.delay <= frequency

(* The goroutine does not outlive the request for long: whatever the       *)
(* handler returned on, the poll in progress ends and so does the          *)
(* goroutine, although nobody reads its channels any more.                 *)
PollerEnds == handler.pc = "done" ~> poller.pc \in {"none", "done"}

(* When all gating instances have become ready, the request is answered    *)
(* without the help of a timeout, however the optional ones do: the        *)
(* goroutine never stops looking.                                          *)
ReadyIsNoticed ==
    <>[](\A i \in names \ optional : inst[i] = "ready" /\ i \notin held)
        => <>(handler.pc = "done")
=============================================================================
