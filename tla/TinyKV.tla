------------------------------- MODULE TinyKV -------------------------------
(***************************************************************************)
(* pkg/tinykv/tinykv.go: the in-memory store with timeouts behind          *)
(* pkg/store/inmemory.                                                     *)
(*                                                                         *)
(* The map kv holds one entry per key; the heap holds a timeout for every  *)
(* Put ever made that was not popped yet, those of overwritten and deleted *)
(* entries included.  expireFunc runs under the mutex, reads the clock at  *)
(* every iteration and pops at most half of the heap: each iteration is a  *)
(* step of its own here, so that time passes inside it.  The other         *)
(* operations also take the mutex and are one step each.  Callbacks run in *)
(* goroutines that do not hold the mutex.  Get on a live or missing entry, *)
(* Keys, Values, Entries, Range and MarshalJSON change nothing.            *)
(***************************************************************************)
EXTENDS Naturals, FiniteSets

CONSTANTS Key,        \* keys
          Durations,  \* values of expiresAfter
          MaxTime,    \* bound on the clock
          MaxPuts,    \* bound on the number of calls of Put
          NoEntry     \* the key is not in the map

ASSUME TinyKVAssumption ==
    /\ Durations \subseteq Nat
    /\ MaxTime \in Nat
    /\ MaxPuts \in Nat

(* entry[T] with its *timeout.  "id" is the identity of the pointer, and   *)
(* stands for the value: every Put allocates a new entry.                  *)
Entry == [key : Key, expiresAt : Nat, id : Nat]

ASSUME NoEntryAssumption == NoEntry \notin Entry

VARIABLES now,        \* time.Now()
          kv,         \* store.kv
          heap,       \* store.heap, as the set of timeouts in it
          puts,       \* number of calls of Put, the source of fresh pointers
          onExpire,   \* store.onExpire # nil
          stop,       \* the channel store.stop is closed
          loop,       \* where expireLoop is; it holds mx in scan and validate
          c,          \* expireFunc's iteration counter
          expired,    \* expireFunc's candidates
          notifying,  \* entries handed to a notifyExpirations goroutine
          notified    \* entries whose callback returned

vars == <<now, kv, heap, puts, onExpire, stop, loop, c, expired, notifying,
          notified>>

loopVars == <<loop, c, expired>>

TypeOK ==
    /\ now \in Nat
    /\ kv \in [Key -> Entry \cup {NoEntry}]
    /\ heap \subseteq Entry
    /\ puts \in Nat
    /\ onExpire \in BOOLEAN
    /\ stop \in BOOLEAN
    /\ loop \in {"idle", "scan", "validate", "exited"}
    /\ c \in Nat
    /\ expired \subseteq Key
    /\ notifying \subseteq Entry
    /\ notified \subseteq Entry

(* timeout.expired: strictly after the deadline. *)
Expired(e) == now > e.expiresAt

(* The mutex is free. *)
Unlocked == loop \in {"idle", "exited"}

(* Timeouts that may be at the root of the heap (see TimeoutHeap.tla). *)
Roots == {t \in heap : \A u \in heap : t.expiresAt <= u.expiresAt}

Init ==
    /\ now = 0
    /\ kv = [k \in Key |-> NoEntry]
    /\ heap = {}
    /\ puts = 0
    /\ onExpire = FALSE
    /\ stop = FALSE
    /\ loop = "idle"
    /\ c = 0
    /\ expired = {}
    /\ notifying = {}
    /\ notified = {}

Tick ==
    /\ now < MaxTime
    /\ now' = now + 1
    /\ UNCHANGED <<kv, heap, puts, onExpire, stop, loopVars, notifying,
                   notified>>

SetOnExpire ==
    /\ ~onExpire
    /\ onExpire' = TRUE
    /\ UNCHANGED <<now, kv, heap, puts, stop, loopVars, notifying, notified>>

Stop ==
    /\ ~stop
    /\ stop' = TRUE
    /\ UNCHANGED <<now, kv, heap, puts, onExpire, loopVars, notifying,
                   notified>>

newTimeout(k, d) == [key |-> k, expiresAt |-> now + d, id |-> puts]

(* Mutant of Put: renewing a key keeps the timeout it already has. *)
PutKeepsOldTimeout(k, d) ==
    /\ Unlocked
    /\ puts < MaxPuts
    /\ puts' = puts + 1
    /\ heap' = IF kv[k] = NoEntry THEN heap \cup {newTimeout(k, d)} ELSE heap
    /\ kv' = [kv EXCEPT ![k] = newTimeout(k, d)]
    /\ UNCHANGED <<now, onExpire, stop, loopVars, notifying, notified>>

Put(k, d) ==
    /\ Unlocked
    /\ puts < MaxPuts
    /\ puts' = puts + 1
    /\ heap' = heap \cup {newTimeout(k, d)}
    /\ kv' = [kv EXCEPT ![k] = newTimeout(k, d)]
    /\ UNCHANGED <<now, onExpire, stop, loopVars, notifying, notified>>

(* The timeout stays in the heap. *)
Delete(k) ==
    /\ Unlocked
    /\ kv[k] # NoEntry
    /\ kv' = [kv EXCEPT ![k] = NoEntry]
    /\ UNCHANGED <<now, heap, puts, onExpire, stop, loopVars, notifying,
                   notified>>

(* What "go notifyExpirations(m, kv.onExpire)" hands over: the callback is *)
(* read when the goroutine is created, and nil drops the notification.     *)
HandOver(es) == IF onExpire THEN notifying \cup es ELSE notifying

(* Mutant of GetExpired: the entry is left for expireFunc to delete. *)
GetExpiredKeepsEntry(k) ==
    /\ Unlocked
    /\ kv[k] # NoEntry
    /\ Expired(kv[k])
    /\ notifying' = HandOver({kv[k]})
    /\ UNCHANGED <<now, kv, heap, puts, onExpire, stop, loopVars, notified>>

(* Get meets an entry past its deadline before expireFunc does. *)
GetExpired(k) ==
    /\ Unlocked
    /\ kv[k] # NoEntry
    /\ Expired(kv[k])
    /\ notifying' = HandOver({kv[k]})
    /\ kv' = [kv EXCEPT ![k] = NoEntry]
    /\ UNCHANGED <<now, heap, puts, onExpire, stop, loopVars, notified>>

-----------------------------------------------------------------------------
(* expireLoop and expireFunc. *)

(* The timer fires and there is something in the heap (with an empty heap  *)
(* expireFunc returns at once).                                            *)
ExpireBegin ==
    /\ loop = "idle"
    /\ heap # {}
    /\ loop' = "scan"
    /\ c' = 0
    /\ expired' = {}
    /\ UNCHANGED <<now, kv, heap, puts, onExpire, stop, notifying, notified>>

(* One iteration that pops the root: its key is gone, or it is overdue and *)
(* its key becomes a candidate.                                            *)
ExpirePop ==
    /\ loop = "scan"
    /\ c < Cardinality(heap)
    /\ \E last \in Roots :
        /\ \/ kv[last.key] = NoEntry /\ expired' = expired
           \/ /\ kv[last.key] # NoEntry
              /\ Expired(last)
              /\ expired' = expired \cup {last.key}
        /\ heap' = heap \ {last}
    /\ c' = c + 1
    /\ UNCHANGED <<now, kv, puts, onExpire, stop, loop, notifying, notified>>

(* Mutant of ExpireBreak: the timeout of a deleted key ends the scan. *)
ExpireBreakOnDeadKey ==
    /\ loop = "scan"
    /\ \/ c >= Cardinality(heap)
       \/ \E last \in Roots : kv[last.key] = NoEntry \/ ~Expired(last)
    /\ loop' = "validate"
    /\ UNCHANGED <<now, kv, heap, puts, onExpire, stop, c, expired,
                   notifying, notified>>

(* The iteration that leaves the loop: the heap is empty, c caught up with *)
(* its length, or the root belongs to a stored key and is not overdue.     *)
ExpireBreak ==
    /\ loop = "scan"
    /\ \/ c >= Cardinality(heap)
       \/ \E last \in Roots : kv[last.key] # NoEntry /\ ~Expired(last)
    /\ loop' = "validate"
    /\ UNCHANGED <<now, kv, heap, puts, onExpire, stop, c, expired,
                   notifying, notified>>

(* Mutant of Overdue: a candidate that was renewed is not told apart. *)
OverdueOrRenewed == {k \in expired : kv[k] # NoEntry}

(* Candidates whose current entry is overdue: a renewed key is not. *)
Overdue == {k \in expired : kv[k] # NoEntry /\ Expired(kv[k])}

(* All candidates are validated before any of them is deleted; unlock. *)
ExpireValidate ==
    /\ loop = "validate"
    /\ kv' = [k \in Key |-> IF k \in Overdue THEN NoEntry ELSE kv[k]]
    /\ notifying' = HandOver({kv[k] : k \in Overdue})
    /\ loop' = "idle"
    /\ c' = 0
    /\ expired' = {}
    /\ UNCHANGED <<now, heap, puts, onExpire, stop, notified>>

(* The select of expireLoop sees the closed channel. *)
ExpireExit ==
    /\ loop = "idle"
    /\ stop
    /\ loop' = "exited"
    /\ UNCHANGED <<now, kv, heap, puts, onExpire, stop, c, expired, notifying,
                   notified>>

(* notifyExpirations calls the callback for one entry. *)
Notify(e) ==
    /\ e \in notifying
    /\ notifying' = notifying \ {e}
    /\ notified' = notified \cup {e}
    /\ UNCHANGED <<now, kv, heap, puts, onExpire, stop, loopVars>>

ExpireLoop == ExpireBegin \/ ExpirePop \/ ExpireBreak \/ ExpireValidate

Next ==
    \/ Tick
    \/ SetOnExpire
    \/ Stop
    \/ \E k \in Key : Delete(k) \/ GetExpired(k)
    \/ \E k \in Key, d \in Durations : Put(k, d)
    \/ ExpireBegin
    \/ ExpirePop
    \/ ExpireBreak
    \/ ExpireValidate
    \/ ExpireExit
    \/ \E e \in notifying : Notify(e)

(* The Go scheduler runs the loop goroutine, whose timer is always reset,  *)
(* and the notification goroutines.  Callers owe nothing.                  *)
Fairness ==
    /\ WF_vars(ExpireLoop)
    /\ WF_vars(\E e \in notifying : Notify(e))

SafetySpec == Init /\ [][Next]_vars

Spec == SafetySpec /\ Fairness

-----------------------------------------------------------------------------
(* Properties. *)

(* Every stored entry still has its own timeout in the heap, unless the    *)
(* running expireFunc popped it and will remove the entry: an entry that   *)
(* lost its timeout would stay in the store, and its instance up, forever. *)
StoredEntryHasTimeout ==
    \A k \in Key : kv[k] # NoEntry =>
        \/ kv[k] \in heap
        \/ loop \in {"scan", "validate"} /\ k \in expired /\ Expired(kv[k])

(* The callback, which stops an instance, is only ever called for entries  *)
(* that are past their deadline.                                           *)
OnlyOverdueNotified == \A e \in notifying \cup notified : Expired(e)

(* An entry is handed to the callback by the step that removes it from the *)
(* map, so an entry that was renewed or deleted is never notified and no   *)
(* entry is notified twice (issue 1110 was a breach of it: a renewed key   *)
(* looked like a deleted one).                                             *)
NotifiedByItsRemoval ==
    [][\A e \in notifying' \ notifying :
            kv[e.key] = e /\ kv'[e.key] # e /\ e \notin notified]_vars

(* The store does what SessionStore promises, liveness included: without a *)
(* Stop every overdue entry is eventually removed, although a run of       *)
(* expireFunc pops only half of the heap and the heap holds the timeouts   *)
(* of dead entries.                                                        *)
Promise == INSTANCE SessionStore
    WITH sessions <- kv, closed <- stop, NoSession <- NoEntry

KeepsPromise == Promise!Spec

(* The part of KeepsPromise that has no fairness in it. *)
KeepsPromiseSafety == Promise!SafetySpec
=============================================================================
