------------------------- MODULE RunningHoursProofs -------------------------
(***************************************************************************)
(* Proofs about RunningHours.tla, for days and weeks of any length, any    *)
(* window and any choice of days: the window the code computes is the one  *)
(* the labels describe, and an instance is held warm to its end.           *)
(***************************************************************************)
EXTENDS RunningHours, TLAPS

(* A clock time within a day does not change the day. *)
LEMMA DivisionOfDay ==
    ASSUME NEW d \in Int, NEW m \in Minute
    PROVE  DayOf(d * DayMinutes + m) = d
  BY RunningHoursAssumption DEF DayOf, Minute

(* The midnight a time follows, and the ones before and after it. *)
LEMMA Midnights ==
    ASSUME NEW t \in Int
    PROVE  /\ DayOf(t) \in Int
           /\ DayOf(t) * DayMinutes \in Int
           /\ DayOf(t) * DayMinutes <= t
           /\ t < DayOf(t) * DayMinutes + DayMinutes
           /\ (DayOf(t) - 1) * DayMinutes = DayOf(t) * DayMinutes - DayMinutes
           /\ (DayOf(t) + 1) * DayMinutes = DayOf(t) * DayMinutes + DayMinutes
  BY RunningHoursAssumption DEF DayOf

Labels ==
    /\ hours \in [start : Minute, end : Minute]
    /\ days \in SUBSET Weekday

(* No window lasts longer than a day, so any that holds t began today or   *)
(* yesterday; today's has not begun if yesterday's is still open.          *)
LEMMA WindowsAreDisjoint ==
    ASSUME Labels, HasHours, NEW t \in Int, NEW d \in Int,
           Opens(d) <= t, t < Closes(d)
    PROVE  d = IF hours.start >= hours.end /\ t - DayOf(t) * DayMinutes < hours.start
               THEN DayOf(t) - 1 ELSE DayOf(t)
<1> DEFINE m == DayOf(t)
           D == DayMinutes
<1>1. /\ m \in Int /\ D \in Nat /\ D > 0
      /\ m * D \in Int /\ m * D <= t /\ t < m * D + D
      /\ (m - 1) * D = m * D - D /\ (m + 1) * D = m * D + D
  BY Midnights, RunningHoursAssumption
<1>2. /\ hours.start \in Int /\ 0 <= hours.start /\ hours.start < D
      /\ hours.end \in Int /\ 0 <= hours.end /\ hours.end < D
  BY RunningHoursAssumption DEF Labels, Minute
<1>3. /\ d * D \in Int /\ (d + 1) * D = d * D + D
  BY <1>1
<1>4. CASE d >= m + 1
  <2>1. d * D >= (m + 1) * D
    BY <1>1, <1>4
  <2>2. QED
    BY <2>1, <1>1, <1>2 DEF Opens
<1>5. CASE d <= m - 2
  <2>1. (d + 2) * D <= m * D /\ (d + 2) * D = d * D + D + D
    BY <1>1, <1>5
  <2>2. Closes(d) <= d * D + D + hours.end
    BY <1>1, <1>2, <1>3 DEF Closes
  <2>3. QED
    BY <2>1, <2>2, <1>1, <1>2, <1>3 DEF Closes
<1>6. CASE d = m - 1
  BY <1>1, <1>2, <1>6 DEF Closes, Opens
<1>7. CASE d = m
  BY <1>1, <1>2, <1>7 DEF Closes, Opens, HasHours
<1>8. QED
  BY <1>1, <1>4, <1>5, <1>6, <1>7

(* WindowAt finds that window. *)
LEMMA WindowAtIsRight ==
    ASSUME Labels, NEW t \in Int
    PROVE  LET d == IF hours.start >= hours.end /\ t - DayOf(t) * DayMinutes < hours.start
                    THEN DayOf(t) - 1 ELSE DayOf(t)
           IN  /\ WindowAt(t).start = Opens(d)
               /\ WindowAt(t).end = Closes(d)
               /\ WindowAt(t).in <=> Opens(d) <= t /\ t < Closes(d)
               /\ DayOf(WindowAt(t).start) = d
               /\ d \in DayOf(t) - 1 .. DayOf(t)
               /\ Closes(d) \in Int
<1> DEFINE m == DayOf(t)
           D == DayMinutes
           d == IF hours.start >= hours.end /\ t - m * D < hours.start
                THEN m - 1 ELSE m
<1>1. /\ m \in Int /\ D \in Nat /\ D > 0
      /\ m * D \in Int /\ m * D <= t /\ t < m * D + D
      /\ (m - 1) * D = m * D - D /\ (m + 1) * D = m * D + D
  BY Midnights, RunningHoursAssumption
<1>2. hours.start \in Minute /\ hours.end \in Minute
  BY DEF Labels
<1>3. hours.start \in Int /\ hours.end \in Int
  BY <1>2, RunningHoursAssumption DEF Minute
<1>4. d \in Int /\ d \in m - 1 .. m
  BY <1>1
<1>5. WindowAt(t).start = Opens(d) /\ WindowAt(t).end = Closes(d)
  <2>1. CASE hours.start < hours.end
    BY <2>1, <1>1, <1>3 DEF WindowAt, Opens, Closes
  <2>2. CASE hours.start >= hours.end /\ t - m * D < hours.start
    <3>1. d = m - 1
      BY <2>2
    <3>2. /\ WindowAt(t).start = m * D + hours.start - D
          /\ WindowAt(t).end = m * D + hours.end
      BY <2>2, <1>1, <1>3 DEF WindowAt
    <3>3. Opens(m - 1) = m * D - D + hours.start
      BY <1>1 DEF Opens
    <3>4. Closes(m - 1) = m * D + hours.end
      <4>1. (m - 1) + 1 = m /\ ~(hours.start < hours.end)
        BY <2>2, <1>1, <1>3
      <4>2. QED
        BY <4>1, Zenon DEF Closes
    <3>5. QED
      BY <3>1, <3>2, <3>3, <3>4, <1>1, <1>3
  <2>3. CASE hours.start >= hours.end /\ t - m * D >= hours.start
    BY <2>3, <1>1, <1>3 DEF WindowAt, Opens, Closes
  <2>4. QED
    BY <2>1, <2>2, <2>3, <1>1, <1>3
<1>6. WindowAt(t).in <=> Opens(d) <= t /\ t < Closes(d)
  BY <1>5 DEF WindowAt
<1>7. DayOf(Opens(d)) = d
  BY <1>2, <1>4, DivisionOfDay DEF Opens
<1>8. Closes(d) \in Int
  BY <1>1, <1>3 DEF Closes
<1>9. QED
  BY <1>4, <1>5, <1>6, <1>7, <1>8

(* Windows(t), which looks at two days, misses no window. *)
LEMMA WindowsAreAll ==
    ASSUME Labels, HasHours, NEW t \in Int, NEW d \in Int,
           Contains(d % WeekDays), Opens(d) <= t, t < Closes(d)
    PROVE  d \in Windows(t)
<1>1. d = DayOf(t) - 1 \/ d = DayOf(t)
  BY WindowsAreDisjoint
<1>2. DayOf(t) \in Int
  BY Midnights
<1>3. QED
  BY <1>1, <1>2 DEF Windows

(* runningHoursRemaining is the time to the end of the window. *)
LEMMA RemainingIsRight ==
    ASSUME Labels, NEW t \in Int
    PROVE  /\ runningHoursRemaining(t) \in Nat
           /\ Windows(t) = {} => runningHoursRemaining(t) = 0
           /\ \A d \in Windows(t) : /\ runningHoursRemaining(t) = Closes(d) - t
                                    /\ Closes(d) \in Int
                                    /\ Closes(d) > t
<1> DEFINE e == IF hours.start >= hours.end /\ t - DayOf(t) * DayMinutes < hours.start
                THEN DayOf(t) - 1 ELSE DayOf(t)
<1>1. /\ WindowAt(t).end = Closes(e)
      /\ WindowAt(t).in <=> Opens(e) <= t /\ t < Closes(e)
      /\ DayOf(WindowAt(t).start) = e
      /\ e \in DayOf(t) - 1 .. DayOf(t)
      /\ Closes(e) \in Int
  BY WindowAtIsRight
<1>2. ASSUME NEW d \in Windows(t)
      PROVE  d = e
  <2>1. d \in Int /\ HasHours /\ Opens(d) <= t /\ t < Closes(d)
    BY <1>2, Midnights DEF Windows
  <2>2. QED
    BY <2>1, WindowsAreDisjoint
<1>3. Windows(t) = IF HasHours /\ Contains(e % WeekDays) /\ Opens(e) <= t /\ t < Closes(e)
                   THEN {e} ELSE {}
  <2> HIDE DEF e
  <2>1. QED
    BY <1>1, <1>2 DEF Windows
<1> HIDE DEF e
<1>4. runningHoursRemaining(t) =
        IF HasHours /\ Contains(e % WeekDays) /\ Opens(e) <= t /\ t < Closes(e)
        THEN Closes(e) - t ELSE 0
  BY <1>1 DEF runningHoursRemaining, WeekdayOf
<1>5. QED
  BY <1>1, <1>3, <1>4

-----------------------------------------------------------------------------
(* The states. *)

Watcher == [pc : {"idle", "request"}, remaining : Nat, failed : BOOLEAN]

LEMMA IdleWatchType == IdleWatch(TRUE) \in Watcher /\ IdleWatch(FALSE) \in Watcher
  BY DEF IdleWatch, Watcher

(* The variables have their types: no session ends before time began, and  *)
(* the watcher's remaining time is never negative.                         *)
THEOREM TypeCorrect == SafetySpec => []TypeOK
<1>1. Init => TypeOK
  BY DEF Init, TypeOK, IdleWatch
<1>2. TypeOK /\ [Next]_vars => TypeOK'
  <2> SUFFICES ASSUME TypeOK, [Next]_vars
               PROVE  TypeOK'
    OBVIOUS
  <2>1. Labels /\ now \in Int
    BY DEF TypeOK, Labels
  <2>2. runningHoursRemaining(now) \in Nat
    BY <2>1, RemainingIsRight
  <2>3. ASSUME NEW duration \in Nat, InstanceRequest(duration)
        PROVE  session' \in Session
    <3>1. \A known \in BOOLEAN : now + EffectiveDuration(duration, known) \in Nat
      BY <2>2 DEF EffectiveDuration, TypeOK
    <3>2. QED
      <4>1. PICK known \in BOOLEAN :
              session' = [until |-> now + EffectiveDuration(duration, known),
                          at |-> now, known |-> known]
        BY <2>3 DEF InstanceRequest
      <4>2. now \in Nat /\ now + EffectiveDuration(duration, known) \in Nat
        BY <3>1 DEF TypeOK
      <4>3. QED
        BY <4>1, <4>2, SMT DEF Session
  <2>4. CASE Tick
    BY <2>4 DEF Tick, TypeOK
  <2>5. CASE Reconcile
    <3>1. [pc |-> "request", remaining |-> runningHoursRemaining(now), failed |-> FALSE]
            \in Watcher
      BY <2>2 DEF Watcher
    <3>2. watch' \in Watcher
      BY <2>5, <3>1, IdleWatchType, Zenon DEF Reconcile
    <3>3. QED
      BY <2>5, <3>2 DEF Reconcile, TypeOK, Watcher
  <2>6. CASE WatchRequest
    <3>1. watch.remaining \in Nat
      BY DEF TypeOK
    <3>2. session' \in Session \cup {NoSession}
      BY <2>3, <2>6, <3>1 DEF WatchRequest, TypeOK
    <3>3. QED
      BY <2>6, <3>2, IdleWatchType DEF WatchRequest, TypeOK, Watcher
  <2>7. CASE Expire
    BY <2>7 DEF Expire, TypeOK
  <2>8. ASSUME NEW duration \in Durations, Request(duration)
        PROVE  TypeOK'
    <3>1. session' \in Session
      BY <2>3, <2>8, RunningHoursAssumption DEF Request
    <3>2. QED
      BY <2>8, <3>1 DEF Request, TypeOK
  <2>9. CASE UNCHANGED vars
    BY <2>9 DEF vars, TypeOK
  <2>10. QED
    BY <2>4, <2>5, <2>6, <2>7, <2>8, <2>9 DEF Next
<1>3. QED
  BY <1>1, <1>2, PTL DEF SafetySpec

(* runningHoursRemaining agrees with the windows of the documentation at   *)
(* every moment, on both sides of midnight and of the end of the week      *)
(* (running_hours.go).                                                     *)
THEOREM WindowsAreRight == SafetySpec => []WindowIsRight
<1>1. TypeOK => WindowIsRight
  <2> SUFFICES ASSUME TypeOK
               PROVE  WindowIsRight
    OBVIOUS
  <2>1. Labels /\ now \in Int
    BY DEF TypeOK, Labels
  <2>2. QED
    BY <2>1, RemainingIsRight DEF WindowIsRight
<1>2. QED
  BY <1>1, TypeCorrect, PTL

(* What a request stores: it is not over yet, and lasts to the end of the  *)
(* window if the labels are known, or the request asked for as much.       *)
LEMMA RequestLasts ==
    ASSUME TypeOK, NEW duration \in Nat, InstanceRequest(duration)
    PROVE  /\ session' \in Session
           /\ session'.at = now
           /\ session'.until >= now + duration
           /\ session'.known \/ duration = runningHoursRemaining(now) =>
                \A d \in Windows(now) : session'.until >= Closes(d)
<1>1. Labels /\ now \in Nat
  BY DEF TypeOK, Labels
<1>2. runningHoursRemaining(now) \in Nat
  BY <1>1, RemainingIsRight
<1>3. PICK known \in BOOLEAN :
        session' = [until |-> now + EffectiveDuration(duration, known),
                    at |-> now, known |-> known]
  BY DEF InstanceRequest
<1>4. /\ EffectiveDuration(duration, known) \in Nat
      /\ EffectiveDuration(duration, known) >= duration
      /\ known => EffectiveDuration(duration, known) >= runningHoursRemaining(now)
  BY <1>2 DEF EffectiveDuration
<1>5. \A d \in Windows(now) : Closes(d) = now + runningHoursRemaining(now) /\ Closes(d) \in Int
  BY <1>1, <1>2, RemainingIsRight
<1>6. QED
  BY <1>1, <1>2, <1>3, <1>4, <1>5 DEF Session

(* The labels do not change, and neither do the windows. *)
LEMMA LabelsAreKept ==
    ASSUME TypeOK, [Next]_vars
    PROVE  hours' = hours /\ days' = days
  BY DEF Next, vars, Tick, Reconcile, WatchRequest, Expire, Request

(* A session requested within a window lasts to the window's end, whatever *)
(* the watcher and the clients ask for later (instance_request.go).        *)
THEOREM SessionsLast == SafetySpec => []LastsToWindowEnd
<1>1. Init => LastsToWindowEnd
  BY DEF Init, LastsToWindowEnd
<1>2. TypeOK /\ LastsToWindowEnd /\ [Next]_vars => LastsToWindowEnd'
  <2> SUFFICES ASSUME TypeOK, LastsToWindowEnd, [Next]_vars,
                      (session # NoSession /\ session.known)'
               PROVE  (\A d \in Windows(session.at) : session.until >= Closes(d))'
    BY DEF LastsToWindowEnd
  <2>1. hours' = hours /\ days' = days
    BY LabelsAreKept
  <2>2. SUFFICES \A d \in Windows(session'.at) : session'.until >= Closes(d)
    BY <2>1 DEF Windows, Closes, Opens, HasHours, Contains
  <2>3. CASE session' = session
    BY <2>3 DEF LastsToWindowEnd
  <2>4. ASSUME NEW duration \in Nat, InstanceRequest(duration)
        PROVE  \A d \in Windows(session'.at) : session'.until >= Closes(d)
    BY <2>4, RequestLasts
  <2>5. CASE session' # session
    <3>1. \E duration \in Nat : InstanceRequest(duration)
      BY <2>5, RunningHoursAssumption
      DEF Next, vars, Tick, Reconcile, WatchRequest, Expire, Request, TypeOK
    <3>2. QED
      BY <3>1, <2>4
  <2>6. QED
    BY <2>3, <2>5
<1>3. QED
  BY <1>1, <1>2, TypeCorrect, PTL DEF SafetySpec

(* HeldWarm is kept by two facts about the moments at which no tick is     *)
(* due: the request that is about to be made is for the window of this     *)
(* very minute; and once it was made, the session is not over, even if it  *)
(* was since replaced by a shorter one.                                    *)
WarmInv ==
    ~due =>
        /\ watch.pc = "request" => watch.remaining = runningHoursRemaining(now)
        /\ watch.pc = "request" => watch.remaining > 0
        /\ watch.pc = "idle" /\ ~watch.failed /\ Windows(now) # {} =>
            /\ session # NoSession
            /\ session.until > now
            /\ session.known => \A d \in Windows(now) : session.until >= Closes(d)

(* In the window, whenever the watcher has done its work, the instance has *)
(* a session, and one that lasts if its labels are known                   *)
(* (running_hours_watch.go).                                               *)
THEOREM InstanceIsHeldWarm == SafetySpec => []HeldWarm
<1>1. Init => WarmInv
  BY DEF Init, WarmInv
<1>2. TypeOK /\ WarmInv /\ [Next]_vars => WarmInv'
  <2> SUFFICES ASSUME TypeOK, WarmInv, [Next]_vars, ~due'
               PROVE  WarmInv'
    BY DEF WarmInv
  <2>1. hours' = hours /\ days' = days
    BY LabelsAreKept
  <2>2. Labels /\ now \in Int
    BY DEF TypeOK, Labels
  <2>3. now' = now
    BY DEF Next, vars, Tick, Reconcile, WatchRequest, Expire, Request
  <2>4. SUFFICES /\ watch'.pc = "request" => watch'.remaining = runningHoursRemaining(now)
                 /\ watch'.pc = "request" => watch'.remaining > 0
                 /\ watch'.pc = "idle" /\ ~watch'.failed /\ Windows(now) # {} =>
                     /\ session' # NoSession
                     /\ session'.until > now
                     /\ session'.known => \A d \in Windows(now) : session'.until >= Closes(d)
    <3>1. runningHoursRemaining(now)' = runningHoursRemaining(now)
      BY <2>1, <2>3 DEF runningHoursRemaining, WindowAt, HasHours, Contains, WeekdayOf
    <3>2. Windows(now)' = Windows(now)
      BY <2>1, <2>3 DEF Windows, Closes, Opens, HasHours, Contains
    <3>3. \A d : Closes(d)' = Closes(d)
      BY <2>1 DEF Closes
    <3>4. QED
      BY <2>3, <2>4, <3>1, <3>2, <3>3 DEF WarmInv
  <2>5. CASE Reconcile
    BY <2>2, <2>5, RemainingIsRight DEF Reconcile, IdleWatch
  <2>6. CASE WatchRequest
    <3>1. watch'.pc = "idle" /\ ~due
      BY <2>6 DEF WatchRequest, IdleWatch
    <3>2. watch.remaining = runningHoursRemaining(now) /\ watch.remaining > 0
      BY <2>6, <3>1 DEF WarmInv, WatchRequest
    <3>3. CASE watch'.failed
      BY <3>1, <3>3
    <3>4. CASE ~watch'.failed
      <4>1. InstanceRequest(watch.remaining)
        BY <2>6, <3>4 DEF WatchRequest, IdleWatch
      <4>2. watch.remaining \in Nat
        BY DEF TypeOK
      <4>3. /\ session' \in Session
            /\ session'.until >= now + watch.remaining
            /\ \A d \in Windows(now) : session'.until >= Closes(d)
        BY <3>2, <4>1, <4>2, RequestLasts
      <4>4. session'.until > now
        BY <2>2, <3>2, <4>2, <4>3 DEF Session
      <4>5. QED
        BY <3>1, <4>3, <4>4, NoSessionAssumption
    <3>5. QED
      BY <3>3, <3>4
  <2>7. CASE Expire
    <3>1. ~due /\ watch' = watch
      BY <2>7 DEF Expire
    <3>2. ~(watch.pc = "idle" /\ ~watch.failed /\ Windows(now) # {})
      <4>1. session \in Session /\ now > session.until
        BY <2>7 DEF Expire, TypeOK
      <4>2. QED
        BY <2>2, <3>1, <4>1 DEF WarmInv, Session
    <3>3. QED
      BY <3>1, <3>2 DEF WarmInv
  <2>8. ASSUME NEW duration \in Durations, Request(duration)
        PROVE  /\ watch' = watch /\ ~due
               /\ session' # NoSession
               /\ session'.until > now
               /\ session'.known => \A d \in Windows(now) : session'.until >= Closes(d)
    <3>1. duration \in Nat /\ duration > 0
      BY RunningHoursAssumption
    <3>2. /\ session' \in Session
          /\ session'.until >= now + duration
          /\ session'.known => \A d \in Windows(now) : session'.until >= Closes(d)
      BY <2>8, <3>1, RequestLasts DEF Request
    <3>3. session'.until > now
      BY <2>2, <3>1, <3>2 DEF Session
    <3>4. QED
      BY <2>8, <3>2, <3>3, NoSessionAssumption DEF Request
  <2>9. CASE \E duration \in Durations : Request(duration)
    BY <2>8, <2>9 DEF WarmInv
  <2>10. CASE UNCHANGED vars
    BY <2>10 DEF vars, WarmInv
  <2>11. QED
    BY <2>5, <2>6, <2>7, <2>9, <2>10 DEF Next, Tick
<1>3. TypeOK /\ WarmInv => HeldWarm
  BY DEF WarmInv, HeldWarm
<1>4. QED
  BY <1>1, <1>2, <1>3, TypeCorrect, PTL DEF SafetySpec
=============================================================================
