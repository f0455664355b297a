---------------------------- MODULE SessionStore ----------------------------
(***************************************************************************)
(* What the session store promises the rest of Sablier (the Store          *)
(* interface, pkg/sablier/store.go): a map from instance names to the      *)
(* session written last, from which a session disappears when it is        *)
(* deleted, overwritten or past its deadline, and an expiration callback   *)
(* that runs once for every session that was removed by its deadline.      *)
(* How deadlines are found (heap, background loop) is not visible here:    *)
(* TinyKV.tla is the implementation.                                       *)
(***************************************************************************)
EXTENDS Naturals

CONSTANTS Key,        \* instance names
          Durations,  \* durations a session may be stored for
          MaxTime,    \* bound on the clock
          MaxPuts,    \* bound on the number of sessions ever written
          NoSession   \* no session is stored under the name

(* One stored session.  "id" stands for the value: every Put writes a      *)
(* value of its own.                                                       *)
Session == [key : Key, expiresAt : Nat, id : Nat]

VARIABLES now,        \* the clock
          sessions,   \* [Key -> Session or NoSession]
          puts,       \* number of sessions ever written
          onExpire,   \* TRUE once a callback is registered
          notifying,  \* removed by deadline, callback not run yet
          notified,   \* callback has run
          closed      \* TRUE once the store was stopped

vars == <<now, sessions, puts, onExpire, notifying, notified, closed>>

Expired(s) == now > s.expiresAt

Init ==
    /\ now = 0
    /\ sessions = [k \in Key |-> NoSession]
    /\ puts = 0
    /\ onExpire = FALSE
    /\ notifying = {}
    /\ notified = {}
    /\ closed = FALSE

Tick ==
    /\ now < MaxTime
    /\ now' = now + 1
    /\ UNCHANGED <<sessions, puts, onExpire, notifying, notified, closed>>

Put(k, d) ==
    /\ puts < MaxPuts
    /\ puts' = puts + 1
    /\ sessions' = [sessions EXCEPT
            ![k] = [key |-> k, expiresAt |-> now + d, id |-> puts]]
    /\ UNCHANGED <<now, onExpire, notifying, notified, closed>>

Delete(k) ==
    /\ sessions' = [sessions EXCEPT ![k] = NoSession]
    /\ UNCHANGED <<now, puts, onExpire, notifying, notified, closed>>

(* The sessions of the keys in S, all past their deadline, are removed     *)
(* together and handed to the callback registered at that moment, if any.  *)
Expire(S) ==
    /\ \A k \in S : sessions[k] # NoSession /\ Expired(sessions[k])
    /\ sessions' = [k \in Key |-> IF k \in S THEN NoSession ELSE sessions[k]]
    /\ notifying' = IF onExpire THEN notifying \cup {sessions[k] : k \in S}
                                ELSE notifying
    /\ UNCHANGED <<now, puts, onExpire, notified, closed>>

Notify(s) ==
    /\ s \in notifying
    /\ notifying' = notifying \ {s}
    /\ notified' = notified \cup {s}
    /\ UNCHANGED <<now, sessions, puts, onExpire, closed>>

SetOnExpire ==
    /\ onExpire' = TRUE
    /\ UNCHANGED <<now, sessions, puts, notifying, notified, closed>>

Stop ==
    /\ closed' = TRUE
    /\ UNCHANGED <<now, sessions, puts, onExpire, notifying, notified>>

Next ==
    \/ Tick
    \/ \E k \in Key : Delete(k) \/ \E d \in Durations : Put(k, d)
    \/ \E S \in (SUBSET Key) \ {{}} : Expire(S)
    \/ \E s \in notifying : Notify(s)
    \/ SetOnExpire
    \/ Stop

ExpireKey(k) == ~closed /\ \E S \in SUBSET Key : k \in S /\ Expire(S)

(* While the store is not stopped, an overdue session is removed sooner or *)
(* later, and a callback that was handed a session runs.                   *)
Fairness ==
    /\ \A k \in Key : WF_vars(ExpireKey(k))
    /\ WF_vars(\E s \in notifying : Notify(s))

SafetySpec == Init /\ [][Next]_vars

Spec == SafetySpec /\ Fairness
=============================================================================
