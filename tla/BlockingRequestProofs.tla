----------------------- MODULE BlockingRequestProofs ------------------------
(* What a blocking request answers, for any set of instances. *)
EXTENDS BlockingRequest, TLAPS

(* The handler asks before its goroutine exists, waits only with it, and   *)
(* answers when it returns.                                                *)
OneAsks ==
    /\ handler.pc \in {"begin", "ask"} => poller.pc = "none"
    /\ handler.pc = "wait" => poller.pc # "none"
    /\ handler.pc # "done" => handler.answer = "none"

(* The map of a requestSession has the names whose goroutines are over. *)
Collected ==
    /\ asking.todo \subseteq names
    /\ \A i \in Instance : asking.got[i] # Unasked => i \in names
    /\ handler.pc = "ask" \/ poller.pc = "ask" =>
         \A i \in names \ asking.todo : asking.got[i] # Unasked

RightlyReady(session) == \A i \in names \ optional : session[i] = "ready"

RightlyFailed(session) == \E i \in names \ optional : session[i] = "error"

(* What is on the channels is what they are for, and what is published is  *)
(* a session that was not decided.                                         *)
Sent ==
    /\ \A session \in readiness : RightlyReady(session)
    /\ \A session \in errch : RightlyFailed(session)
    /\ poller.pc # "none" => Undecided(last)

IInv ==
    /\ TypeOK
    /\ OneAsks
    /\ Collected
    /\ Sent
    /\ OptionalNeverGates
    /\ TimeoutExplained
    /\ NoBusyLoop

-----------------------------------------------------------------------------
(* A delay between two polls stays positive and within the frequency. *)
LEMMA DelayBounded ==
    ASSUME frequency \in Int, NEW d \in Int, d > 0
    PROVE  /\ AtMost(d, MaxDelay) \in Int
           /\ AtMost(d, MaxDelay) > 0
           /\ frequency > 0 => AtMost(d, MaxDelay) <= frequency
  BY BlockingRequestAssumption DEF AtMost, MaxDelay

(* Verdicts on a session with all names in it. *)
LEMMA Verdict ==
    ASSUME names \subseteq Instance,
           NEW session \in Session,
           \A i \in Instance : session[i] # Unasked <=> i \in names
    PROVE  /\ IsReady(session) => RightlyReady(session)
           /\ InstanceErrors(session) # {} => RightlyFailed(session)
  BY DEF IsReady, NotReadyInstances, InstanceErrors, Gating, RightlyReady,
         RightlyFailed

LEMMA InitialState == Init => IInv
<1> SUFFICES ASSUME Init PROVE IInv
  OBVIOUS
<1> USE DEF Init, NotAsking, EmptySession
<1>1. EmptySession \in Session
  BY DEF Session
<1>2. TypeOK
  BY <1>1 DEF TypeOK, State, Answer
<1>3. OneAsks /\ Collected /\ Sent /\ OptionalNeverGates /\ TimeoutExplained /\ NoBusyLoop
  BY DEF OneAsks, Collected, Sent, OptionalNeverGates, TimeoutExplained, NoBusyLoop
<1> QED
  BY <1>2, <1>3 DEF IInv

-----------------------------------------------------------------------------
(* The steps, one by one. *)

(* A goroutine of requestSession adds its instance to the map. *)
LEMMA AskStep ==
    ASSUME IInv, NEW i \in Instance, Ask(i)
    PROVE  IInv'
<1> USE DEF IInv
<1>1. PICK r \in {"ready", "not-ready", "error"}, s \in State : Reply(i, r, s)
  BY DEF Ask, instanceRequest, TypeOK, State
<1>2. /\ asking'.todo = asking.todo \ {i}
      /\ asking'.got = [asking.got EXCEPT ![i] = r]
      /\ inst' = [inst EXCEPT ![i] = s]
  BY <1>1 DEF Reply
<1>3. UNCHANGED <<held, request, handler, polling>>
  BY DEF Ask
<1>4. TypeOK'
  BY <1>1, <1>3 DEF Reply, TypeOK, Session, request, polling
<1>5. Collected'
  BY <1>2, <1>3, BlockingRequestAssumption
     DEF Ask, Collected, TypeOK, Session, request, polling
<1>6. (OneAsks /\ Sent /\ OptionalNeverGates /\ TimeoutExplained /\ NoBusyLoop)'
  BY <1>3 DEF OneAsks, Sent, OptionalNeverGates, TimeoutExplained, NoBusyLoop,
     RightlyReady, RightlyFailed, Undecided, IsReady, NotReadyInstances,
     InstanceErrors, Gating, request, polling
<1> QED
  BY <1>4, <1>5, <1>6

(* A request for no instance is rejected; else the handler asks for all. *)
LEMMA BeginStep ==
    ASSUME IInv, Begin
    PROVE  IInv'
<1> USE DEF IInv
<1>0. EmptySession \in Session
  BY DEF EmptySession, Session
<1>1. UNCHANGED <<inst, held, request, polling>>
  BY DEF Begin
<1>2. /\ handler' \in [pc : {"ask", "done"}, answer : {"none", "rejected"},
                       session : Session]
      /\ handler'.pc = "ask" => /\ handler'.answer = "none"
                                /\ asking' = [todo |-> names, got |-> EmptySession]
      /\ handler'.pc = "done" => asking' = asking
  <2>1. CASE names = {}
    BY <1>0, <2>1 DEF Begin, Return
  <2>2. CASE names # {}
    BY <2>2 DEF Begin, AskAll, TypeOK, OneAsks
  <2> QED
    BY <2>1, <2>2
<1>3. asking' \in [todo : SUBSET Instance, got : Session]
  BY <1>0, <1>2 DEF TypeOK
<1>4. TypeOK'
  BY <1>1, <1>2, <1>3 DEF TypeOK, request, polling, Answer
<1>5. OneAsks'
  BY <1>1, <1>2 DEF OneAsks, Begin, polling
<1>6. Collected'
  BY <1>1, <1>2 DEF Collected, OneAsks, Begin, EmptySession, request, polling
<1>7. Sent'
  BY <1>1 DEF Sent, request, polling, RightlyReady, RightlyFailed, Undecided, IsReady,
     NotReadyInstances, InstanceErrors, Gating
<1>8. (OptionalNeverGates /\ TimeoutExplained /\ NoBusyLoop)'
  BY <1>1, <1>2 DEF OptionalNeverGates, TimeoutExplained, NoBusyLoop, request, polling
<1> QED
  BY <1>4, <1>5, <1>6, <1>7, <1>8

(* What a requestSession has collected when all its goroutines are over. *)
LEMMA AskedAll ==
    ASSUME IInv, Asked, handler.pc = "ask" \/ poller.pc = "ask"
    PROVE  /\ asking.got \in Session
           /\ IsReady(asking.got) => RightlyReady(asking.got)
           /\ InstanceErrors(asking.got) # {} => RightlyFailed(asking.got)
<1>1. \A i \in Instance : asking.got[i] # Unasked <=> i \in names
  BY DEF IInv, Collected, Asked, TypeOK
<1> QED
  BY <1>1, Verdict DEF IInv, TypeOK

(* The handler answers with the first session, or waits with a goroutine. *)
LEMMA FirstSessionStep ==
    ASSUME IInv, FirstSession
    PROVE  IInv'
<1> USE DEF IInv
<1> DEFINE got == asking.got
<1>0. EmptySession \in Session
  BY DEF EmptySession, Session
<1>1. /\ UNCHANGED <<inst, held, request>>
      /\ asking' = [todo |-> {}, got |-> EmptySession]
      /\ poller.pc = "none"
      /\ got \in Session
  BY AskedAll DEF FirstSession, NotAsking, OneAsks
<1>2. Collected'
  <2>1. handler'.pc # "ask" /\ poller'.pc # "ask"
    BY <1>1 DEF FirstSession, Return, polling, TypeOK
  <2> QED
    BY <1>1, <2>1 DEF Collected, EmptySession
<1>3. CASE IsReady(got) \/ InstanceErrors(got) # {}
  <2>1. /\ handler' \in [pc : {"done"}, answer : {"ready", "error"}, session : {got}]
        /\ handler'.answer = "ready" => IsReady(got)
        /\ handler'.answer = "error" => InstanceErrors(got) # {}
        /\ UNCHANGED polling
    BY <1>3 DEF FirstSession, Return
  <2>2. TypeOK'
    BY <1>0, <1>1, <2>1 DEF TypeOK, Answer, request, polling
  <2>3. OneAsks' /\ TimeoutExplained' /\ NoBusyLoop'
    BY <1>1, <2>1 DEF OneAsks, TimeoutExplained, NoBusyLoop, request, polling
  <2>4. Sent'
    BY <1>1, <2>1 DEF Sent, request, polling, RightlyReady, RightlyFailed
  <2>5. OptionalNeverGates'
    BY <1>1, <2>1, AskedAll DEF FirstSession, OptionalNeverGates, RightlyReady,
       RightlyFailed, request
  <2> QED
    BY <1>2, <2>2, <2>3, <2>4, <2>5
<1>4. CASE Undecided(got)
  <2> DEFINE delay == AtMost(FirstRecheck, MaxDelay)
  <2>1. /\ handler' = [handler EXCEPT !.pc = "wait"]
        /\ handler.answer = "none"
        /\ last' = got
        /\ UNCHANGED <<readiness, errch>>
    BY <1>4 DEF FirstSession, OneAsks, Undecided
  <2>2. poller' = [pc |-> "wait", timer |-> TRUE, delay |-> delay,
                   started |-> StartsInProgress # {}, awaited |-> StartsInProgress]
    BY <1>4 DEF FirstSession, Undecided
  <2>3. delay \in Int /\ delay > 0 /\ (frequency > 0 => delay <= frequency)
    <3>1. frequency \in Int /\ FirstRecheck \in Int /\ FirstRecheck > 0
      BY BlockingRequestAssumption DEF TypeOK
    <3> QED
      BY <3>1, DelayBounded
  <2>4. StartsInProgress \subseteq Instance /\ (StartsInProgress # {}) \in BOOLEAN
    BY DEF StartsInProgress, TypeOK
  <2>5. TypeOK'
    BY <1>0, <1>1, <2>1, <2>2, <2>3, <2>4 DEF TypeOK, Answer, request
  <2>6. OneAsks' /\ TimeoutExplained' /\ OptionalNeverGates'
    BY <2>1, <2>2 DEF OneAsks, TimeoutExplained, OptionalNeverGates, TypeOK
  <2>7. NoBusyLoop'
    BY <1>1, <2>2, <2>3 DEF NoBusyLoop, request
  <2>8. Sent'
    BY <1>1, <1>4, <2>1 DEF Sent, request, RightlyReady, RightlyFailed, Undecided,
       IsReady, NotReadyInstances, InstanceErrors, Gating
  <2> QED
    BY <1>2, <2>5, <2>6, <2>7, <2>8
<1> QED
  BY <1>3, <1>4 DEF Undecided

(* The handler leaves with a timeout, or because the client does. *)
LEMMA GiveUpStep ==
    ASSUME IInv, GiveUp
    PROVE  IInv'
<1> USE DEF IInv
<1>0. EmptySession \in Session
  BY DEF EmptySession, Session
<1>1. UNCHANGED <<inst, held, request, polling, asking>>
  BY DEF GiveUp
<1>2. /\ handler'.pc = "done"
      /\ \/ handler'.answer = "timeout" /\ handler'.session = last
         \/ handler'.answer = "cancelled"
  BY DEF GiveUp, Return
<1>3. TypeOK'
  BY <1>0, <1>1 DEF GiveUp, Return, TypeOK, Answer, request, polling
<1>4. TimeoutExplained'
  BY <1>1, <1>2 DEF GiveUp, OneAsks, Sent, TimeoutExplained, Undecided, IsReady,
     NotReadyInstances, InstanceErrors, Gating, request, polling
<1>5. (OneAsks /\ Collected /\ OptionalNeverGates /\ NoBusyLoop)'
  BY <1>1, <1>2 DEF OneAsks, Collected, OptionalNeverGates, NoBusyLoop, request, polling
<1>6. Sent'
  BY <1>1 DEF Sent, request, polling, RightlyReady, RightlyFailed, Undecided, IsReady,
     NotReadyInstances, InstanceErrors, Gating
<1> QED
  BY <1>3, <1>4, <1>5, <1>6

(* The handler takes an answer from a channel. *)
LEMMA AnsweredStep ==
    ASSUME IInv, Answered
    PROVE  IInv'
<1> USE DEF IInv
<1>1. UNCHANGED <<inst, held, request, poller, asking, last>>
  BY DEF Answered
<1>2. /\ readiness' \subseteq readiness
      /\ errch' \subseteq errch
  BY DEF Answered
<1>3. PICK session \in readiness \cup errch :
         \/ session \in readiness /\ Return("ready", session)
         \/ session \in errch /\ Return("error", session)
  BY DEF Answered
<1>4. TypeOK'
  BY <1>1, <1>2, <1>3 DEF Return, TypeOK, Answer, request
<1>5. OptionalNeverGates'
  BY <1>1, <1>3 DEF Return, Sent, OptionalNeverGates, RightlyReady, RightlyFailed, request
<1>6. (OneAsks /\ Collected /\ TimeoutExplained /\ NoBusyLoop)'
  BY <1>1, <1>3 DEF Return, OneAsks, Collected, TimeoutExplained, NoBusyLoop, request
<1>7. Sent'
  BY <1>1, <1>2 DEF Sent, request, RightlyReady, RightlyFailed, Undecided, IsReady,
     NotReadyInstances, InstanceErrors, Gating
<1> QED
  BY <1>4, <1>5, <1>6, <1>7

(* The goroutine begins a poll. *)
LEMMA PollerWakesStep ==
    ASSUME IInv, PollerWakes
    PROVE  IInv'
<1> USE DEF IInv
<1>0. EmptySession \in Session
  BY DEF EmptySession, Session
<1>1. /\ UNCHANGED <<inst, held, request, handler, last, readiness, errch>>
      /\ asking' = [todo |-> names, got |-> EmptySession]
      /\ poller.pc = "wait"
  BY DEF PollerWakes, AskAll
<1>2. poller.delay \in Int /\ poller.delay > 0 /\ frequency \in Int
  BY <1>1, BlockingRequestAssumption DEF TypeOK, NoBusyLoop
<1>3. 2 * poller.delay \in Int /\ 2 * poller.delay > 0
  BY <1>2
<1> DEFINE delay == AtMost(2 * poller.delay, MaxDelay)
<1>4. delay \in Int /\ delay > 0 /\ (frequency > 0 => delay <= frequency)
  BY <1>2, <1>3, DelayBounded
<1>5. PICK d \in {poller.delay, delay}, timer \in BOOLEAN, started \in BOOLEAN :
         poller' = [pc |-> "ask", timer |-> timer, delay |-> d, started |-> started,
                    awaited |-> poller.awaited]
  BY DEF PollerWakes, TypeOK
<1>6. TypeOK'
  BY <1>0, <1>1, <1>2, <1>4, <1>5 DEF TypeOK, request
<1>7. NoBusyLoop'
  BY <1>1, <1>4, <1>5 DEF NoBusyLoop, request
<1>8. (OneAsks /\ OptionalNeverGates /\ TimeoutExplained)'
  BY <1>1, <1>5 DEF OneAsks, OptionalNeverGates, TimeoutExplained, NotReadyInstances,
     InstanceErrors, Gating, request
<1>9. Collected'
  BY <1>1 DEF Collected, EmptySession, request
<1>10. Sent'
  BY <1>1 DEF Sent, request, RightlyReady, RightlyFailed, Undecided, IsReady,
     NotReadyInstances, InstanceErrors, Gating
<1> QED
  BY <1>6, <1>7, <1>8, <1>9, <1>10

(* The goroutine delivers a session, or publishes it and waits. *)
LEMMA PollerDecidesStep ==
    ASSUME IInv, PollerDecides
    PROVE  IInv'
<1> USE DEF IInv
<1> DEFINE got == asking.got
<1>0. EmptySession \in Session
  BY DEF EmptySession, Session
<1>1. /\ UNCHANGED <<inst, held, request, handler>>
      /\ asking' = [todo |-> {}, got |-> EmptySession]
      /\ poller.pc = "ask"
      /\ handler.pc # "ask"
      /\ got \in Session
  BY AskedAll DEF PollerDecides, NotAsking, OneAsks
<1>2. PICK pc \in {"wait", "done"}, timer \in BOOLEAN :
         poller' = [poller EXCEPT !.pc = pc, !.timer = timer]
  BY DEF PollerDecides, SendAndReturn, PublishAndWait, TypeOK
<1>3. /\ readiness' \in {readiness, {got}}
      /\ errch' \in {errch, {got}}
      /\ last' \in {last, got}
  BY DEF PollerDecides, SendAndReturn, Deliver, PublishAndWait
<1>4. /\ readiness' # readiness => IsReady(got)
      /\ errch' # errch => InstanceErrors(got) # {}
      /\ last' # last => Undecided(got)
  BY DEF PollerDecides, SendAndReturn, Deliver, PublishAndWait, Undecided
<1>5. TypeOK'
  BY <1>0, <1>1, <1>2, <1>3 DEF TypeOK, request
<1>6. (OneAsks /\ OptionalNeverGates /\ TimeoutExplained /\ NoBusyLoop)'
  BY <1>1, <1>2 DEF OneAsks, OptionalNeverGates, TimeoutExplained, NoBusyLoop,
     NotReadyInstances, InstanceErrors, Gating, request, TypeOK
<1>7. Collected'
  BY <1>1, <1>2 DEF Collected, EmptySession, request, TypeOK
<1>8. Sent'
  <2>1. \A session \in readiness' : RightlyReady(session)
    BY <1>1, <1>3, <1>4, AskedAll DEF PollerDecides, Sent
  <2>2. \A session \in errch' : RightlyFailed(session)
    BY <1>1, <1>3, <1>4, AskedAll DEF PollerDecides, Sent
  <2>3. Undecided(last)'
    BY <1>1, <1>3, <1>4 DEF Sent, request, Undecided, IsReady, NotReadyInstances,
       InstanceErrors, Gating
  <2> QED
    BY <1>1, <2>1, <2>2, <2>3 DEF Sent, request, RightlyReady, RightlyFailed
<1> QED
  BY <1>5, <1>6, <1>7, <1>8

(* The goroutine ends, or starts, health checks, expirations and           *)
(* antagonists change what an instance is: no answer depends on it.        *)
LEMMA OtherStep ==
    ASSUME IInv, PollerQuits \/ Environment \/ UNCHANGED vars
    PROVE  IInv'
<1> USE DEF IInv
<1>1. UNCHANGED <<request, handler, asking, last, readiness, errch>>
  BY DEF PollerQuits, Environment, StartEnds, BecomeReady, Expire, Hold, vars, polling
<1>2. PICK pc \in {poller.pc, "done"}, awaited \in SUBSET poller.awaited :
         /\ poller' = [poller EXCEPT !.pc = pc, !.awaited = awaited]
         /\ pc = poller.pc \/ poller.pc = "wait"
  <2>1. CASE PollerQuits
    BY <2>1 DEF PollerQuits, TypeOK
  <2>2. CASE UNCHANGED poller
    BY <2>2 DEF TypeOK
  <2>3. CASE \E i \in Instance : StartEnds(i)
    <3>1. PICK i \in Instance : poller' = [poller EXCEPT !.awaited = poller.awaited \ {i}]
      BY <2>3 DEF StartEnds
    <3>2. poller.awaited \ {i} \in SUBSET poller.awaited
      OBVIOUS
    <3>3. poller' = [poller EXCEPT !.pc = poller.pc, !.awaited = poller.awaited \ {i}]
      BY <3>1 DEF TypeOK
    <3> QED
      BY <3>2, <3>3
  <2> QED
    BY <2>1, <2>2, <2>3 DEF Environment, BecomeReady, Expire, Hold, vars, polling
<1>3. inst' \in [Instance -> State] /\ held' \subseteq Instance
  BY DEF PollerQuits, Environment, StartEnds, BecomeReady, Expire, Hold, vars, TypeOK, State
<1>4. TypeOK'
  BY <1>1, <1>2, <1>3 DEF TypeOK, request
<1>5. (OneAsks /\ Collected /\ OptionalNeverGates /\ TimeoutExplained /\ NoBusyLoop)'
  BY <1>1, <1>2 DEF OneAsks, Collected, OptionalNeverGates, TimeoutExplained, NoBusyLoop,
     NotReadyInstances, InstanceErrors, Gating, request, TypeOK
<1>6. Sent'
  BY <1>1, <1>2 DEF Sent, request, RightlyReady, RightlyFailed, Undecided, IsReady,
     NotReadyInstances, InstanceErrors, Gating, TypeOK
<1> QED
  BY <1>4, <1>5, <1>6

LEMMA Invariance == SafetySpec => []IInv
<1>1. IInv /\ [Next]_vars => IInv'
  BY AskStep, BeginStep, FirstSessionStep, GiveUpStep, AnsweredStep, PollerWakesStep,
     PollerDecidesStep, OtherStep DEF Next, Steps, Returned
<1> QED
  BY <1>1, InitialState, PTL DEF SafetySpec

-----------------------------------------------------------------------------
(* Every value of the handler and its goroutine has its type. *)
THEOREM TypeCorrect == SafetySpec => []TypeOK
  BY Invariance, PTL DEF IInv

(* For any number of instances, required or optional, and whatever they do *)
(* during the polls: an error is that of a required instance, and a ready  *)
(* session has all required instances ready.                               *)
THEOREM OptionalIsBestEffort == SafetySpec => []OptionalNeverGates
  BY Invariance, PTL DEF IInv

(* A timeout always names a required instance that was not ready. *)
THEOREM TimeoutsAreExplained == SafetySpec => []TimeoutExplained
  BY Invariance, PTL DEF IInv

(* For every configured frequency, polls are separated by a delay that is  *)
(* positive and not longer than the frequency.                             *)
THEOREM NeverBusy == SafetySpec => []NoBusyLoop
  BY Invariance, PTL DEF IInv
=============================================================================
