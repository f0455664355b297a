---------------------------- MODULE RunningHours ----------------------------
(***************************************************************************)
(* pkg/sablier/running_hours.go and running_hours_watch.go: an instance    *)
(* with a running-hours label is kept warm in a daily window, optionally   *)
(* on some weekdays.  A watcher looks at every instance twice a minute and *)
(* requests it until the end of the window; a request by a client within   *)
(* the window is extended to its end (instance_request.go).                *)
(*                                                                         *)
(* One instance is modelled: instances do not share state here.  Time is   *)
(* local and counted in minutes, and a day has DayMinutes of them: windows *)
(* on a day on which clocks change are not modelled.  A session is reduced *)
(* to its deadline and to whether the state stored in it has the labels,   *)
(* which it lacks if the inspect before the start failed.                  *)
(***************************************************************************)
EXTENDS Integers

CONSTANTS DayMinutes,  \* minutes in a day
          WeekDays,    \* days in a week
          Durations,   \* session durations clients ask for
          MaxTime,     \* bound on the clock
          NoSession,
          Faults       \* subset of {"list", "inspect"}

ASSUME RunningHoursAssumption ==
    /\ DayMinutes \in Nat \ {0}
    /\ WeekDays \in Nat \ {0}
    /\ Durations \subseteq Nat \ {0}
    /\ MaxTime \in Nat

Minute == 0 .. DayMinutes - 1

Weekday == 0 .. WeekDays - 1

Session == [until : Nat, at : Nat, known : BOOLEAN]

ASSUME NoSessionAssumption == NoSession \notin Session

VARIABLES now,      \* time.Now()
          hours,    \* the running-hours label
          days,     \* the running-days label
          session,  \* the session of the instance
          due,      \* the ticker has fired
          watch     \* reconcileRunningHours

vars == <<now, hours, days, session, due, watch>>

TypeOK ==
    /\ now \in Nat
    /\ hours \in [start : Minute, end : Minute]
    /\ days \in SUBSET Weekday
    /\ session \in Session \cup {NoSession}
    /\ due \in BOOLEAN
    /\ watch \in [pc : {"idle", "request"}, remaining : Nat, failed : BOOLEAN]

IdleWatch(failed) == [pc |-> "idle", remaining |-> 0, failed |-> failed]

(* WatchRunningHours reconciles before its first tick. *)
Init ==
    /\ now = 0
    /\ hours \in [start : Minute, end : Minute]
    /\ days \in SUBSET Weekday
    /\ session = NoSession
    /\ due = TRUE
    /\ watch = IdleWatch(FALSE)

-----------------------------------------------------------------------------
(* The window. *)

DayOf(t) == t \div DayMinutes

WeekdayOf(t) == DayOf(t) % WeekDays

(* ParseRunningHours rejects a window of no length, and the label is then  *)
(* ignored.                                                                *)
HasHours == hours.start # hours.end

(* The days of the window; {} stands for no label, and every day counts.   *)
(* Days that ParseRunningDays rejects are an error of                      *)
(* runningHoursRemaining, and the whole window is ignored: hours with no   *)
(* length stand for that.                                                  *)
Contains(day) == days = {} \/ day \in days

(* Mutant of WindowAt: after midnight, the window of the coming evening. *)
WindowOfToday(t) ==
    LET midnight == DayOf(t) * DayMinutes
        start == midnight + hours.start
        end == midnight + hours.end
               + (IF hours.start < hours.end THEN 0 ELSE DayMinutes)
    IN  [start |-> start, end |-> end, in |-> start <= t /\ t < end]

(* RunningHours.WindowAt: the window of today, or the overnight window     *)
(* that begins today or began yesterday.                                   *)
WindowAt(t) ==
    LET midnight == DayOf(t) * DayMinutes
        overnight == hours.start >= hours.end
        begun == t - midnight >= hours.start
        start == midnight + hours.start - (IF overnight /\ ~begun THEN DayMinutes ELSE 0)
        end == midnight + hours.end + (IF overnight /\ begun THEN DayMinutes ELSE 0)
    IN  [start |-> start, end |-> end, in |-> start <= t /\ t < end]

(* runningHoursRemaining: 0 stands for not in the window. *)
runningHoursRemaining(t) ==
    LET w == WindowAt(t)
    IN  IF HasHours /\ w.in /\ Contains(WeekdayOf(w.start)) THEN w.end - t ELSE 0

-----------------------------------------------------------------------------
(* Mutant of EffectiveDuration: the window is not looked at. *)
DurationAsAsked(duration, known) == duration

(* instanceRequest: the duration of the session it puts. *)
EffectiveDuration(duration, known) ==
    LET remaining == IF known THEN runningHoursRemaining(now) ELSE 0
    IN  IF remaining > duration THEN remaining ELSE duration

(* A session the store returns. *)
Live == session # NoSession /\ now <= session.until

(* instanceRequest, if it succeeds.  A new session, and one that is not    *)
(* ready yet, get the labels from an inspect, unless it fails or is        *)
(* skipped.                                                                *)
InstanceRequest(duration) ==
    \E known \in BOOLEAN :
        /\ Live /\ session.known => known
        /\ ~known => "inspect" \in Faults
        /\ session' = [until |-> now + EffectiveDuration(duration, known),
                       at |-> now, known |-> known]

(* A client asks for the instance. *)
Request(duration) ==
    /\ InstanceRequest(duration)
    /\ UNCHANGED <<now, hours, days, due, watch>>

(* reconcileRunningHours, up to the request: the list or the inspect fails, *)
(* or the instance is not in its window, or it will be requested.          *)
Reconcile ==
    /\ due
    /\ watch.pc = "idle"
    /\ due' = FALSE
    /\ \/ Faults # {} /\ watch' = IdleWatch(TRUE)
       \/ LET remaining == runningHoursRemaining(now)
          IN  watch' = IF remaining > 0
                       THEN [pc |-> "request", remaining |-> remaining, failed |-> FALSE]
                       ELSE IdleWatch(FALSE)
    /\ UNCHANGED <<now, hours, days, session>>

(* Mutant of WatchRequest: a session that is there is left alone. *)
WatchRequestsNew ==
    /\ watch.pc = "request"
    /\ IF session = NoSession THEN InstanceRequest(watch.remaining)
                              ELSE UNCHANGED session
    /\ watch' = IdleWatch(FALSE)
    /\ UNCHANGED <<now, hours, days, due>>

(* The request of reconcileRunningHours; its failure is only logged. *)
WatchRequest ==
    /\ watch.pc = "request"
    /\ \/ InstanceRequest(watch.remaining) /\ watch' = IdleWatch(FALSE)
       \/ Faults # {} /\ UNCHANGED session /\ watch' = IdleWatch(TRUE)
    /\ UNCHANGED <<now, hours, days, due>>

(* The store drops an overdue session, and the instance is stopped. *)
Expire ==
    /\ session # NoSession
    /\ now > session.until
    /\ session' = NoSession
    /\ UNCHANGED <<now, hours, days, due, watch>>

(* A minute passes.  The refresh frequency is half of that, so a           *)
(* reconciliation has begun in every minute.                               *)
Tick ==
    /\ now < MaxTime
    /\ ~due
    /\ now' = now + 1
    /\ due' = TRUE
    /\ UNCHANGED <<hours, days, session, watch>>

Next ==
    \/ Tick
    \/ Reconcile
    \/ WatchRequest
    \/ Expire
    \/ \E duration \in Durations : Request(duration)

SafetySpec == Init /\ [][Next]_vars

-----------------------------------------------------------------------------
(* Properties. *)

(* The windows as the documentation describes them: one begins on every    *)
(* chosen day, and ends on the same day or, if start is later than end, on *)
(* the next one.                                                           *)
Opens(d) == d * DayMinutes + hours.start

Closes(d) == (IF hours.start < hours.end THEN d ELSE d + 1) * DayMinutes + hours.end

(* The days whose window t falls into. *)
Windows(t) ==
    {d \in DayOf(t) - 1 .. DayOf(t) :
        HasHours /\ Contains(d % WeekDays) /\ Opens(d) <= t /\ t < Closes(d)}

(* runningHoursRemaining agrees with that, on both sides of midnight and   *)
(* of the end of the week, and for windows that touch midnight.            *)
WindowIsRight ==
    \/ Windows(now) = {} /\ runningHoursRemaining(now) = 0
    \/ \E d \in Windows(now) : runningHoursRemaining(now) = Closes(d) - now

(* A session that was requested within a window lasts to its end, however  *)
(* short the request and whatever the watcher does later: the instance is  *)
(* not stopped before the window closes.                                   *)
LastsToWindowEnd ==
    session # NoSession /\ session.known =>
        \A d \in Windows(session.at) : session.until >= Closes(d)

(* In the window, whenever the watcher has done its work, the instance has *)
(* a session, and one that lasts to the end of the window if the labels    *)
(* are known: requests of clients in between do not cut it short.  Stopped *)
(* events and the deletes of anti-affinity, which end a session in the     *)
(* window until the next tick, are not in this module.                     *)
HeldWarm ==
    ~due /\ watch.pc = "idle" /\ ~watch.failed /\ Windows(now) # {} =>
        /\ session # NoSession
        /\ session.known => \A d \in Windows(now) : session.until >= Closes(d)
=============================================================================
