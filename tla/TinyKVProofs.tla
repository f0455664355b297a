---------------------------- MODULE TinyKVProofs ----------------------------
(***************************************************************************)
(* Theorems about TinyKV, for every set of keys, every set of durations    *)
(* and every bound, and about TimeoutHeap, the array behind its heap, for  *)
(* every set of deadlines and every length.                                *)
(***************************************************************************)
EXTENDS TinyKV, TimeoutHeap, FiniteSetTheorems, TLAPS

(* Entries are stored under their own key, and every entry the store knows *)
(* was made by an earlier Put.                                             *)
Provenance ==
    /\ \A k \in Key : kv[k] # NoEntry => kv[k].key = k /\ kv[k].id < puts
    /\ \A e \in notifying \cup notified : e.id < puts

(* A stored entry was not handed to the callback. *)
StoredNotNotified == \A k \in Key : kv[k] \notin notifying \cup notified

(* The inductive invariant: what a pop may drop depends on entries being   *)
(* stored under their own key, and what may be handed over once depends on *)
(* entries never being allocated twice.                                    *)
IInv ==
    /\ TypeOK
    /\ Provenance
    /\ StoredNotNotified
    /\ StoredEntryHasTimeout
    /\ OnlyOverdueNotified

(* Type correctness is preserved by every step. *)
LEMMA TypeStep == TypeOK /\ [Next]_vars => TypeOK'
<1> SUFFICES ASSUME TypeOK, [Next]_vars PROVE TypeOK'
  OBVIOUS
<1> USE TinyKVAssumption DEF TypeOK, Entry, loopVars
<1>1. CASE Tick
  BY <1>1 DEF Tick
<1>2. CASE SetOnExpire \/ Stop
  BY <1>2 DEF SetOnExpire, Stop
<1>3. ASSUME NEW k \in Key, Delete(k) \/ GetExpired(k) PROVE TypeOK'
  BY <1>3 DEF Delete, GetExpired, HandOver
<1>4. ASSUME NEW k \in Key, NEW d \in Durations, Put(k, d) PROVE TypeOK'
  <2>1. newTimeout(k, d) \in Entry
    BY DEF newTimeout
  <2>2. QED
    BY <1>4, <2>1 DEF Put
<1>5. CASE ExpireBegin
  BY <1>5 DEF ExpireBegin
<1>6. CASE ExpirePop
  BY <1>6 DEF ExpirePop, Roots
<1>7. CASE ExpireBreak
  BY <1>7 DEF ExpireBreak
<1>8. CASE ExpireValidate
  BY <1>8 DEF ExpireValidate, HandOver, Overdue
<1>9. CASE ExpireExit
  BY <1>9 DEF ExpireExit
<1>10. ASSUME NEW e \in notifying, Notify(e) PROVE TypeOK'
  BY <1>10 DEF Notify
<1>11. CASE UNCHANGED vars
  BY <1>11 DEF vars
<1> QED
  BY <1>1, <1>2, <1>3, <1>4, <1>5, <1>6, <1>7, <1>8, <1>9, <1>10, <1>11
  DEF Next

(* The remaining conjuncts of the invariant are preserved by every step. *)
LEMMA InvStep == IInv /\ [Next]_vars => IInv'
<1> SUFFICES ASSUME IInv, [Next]_vars PROVE IInv'
  OBVIOUS
<1>0. TypeOK /\ TypeOK'
  BY TypeStep DEF IInv
<1> USE <1>0, TinyKVAssumption, NoEntryAssumption
    DEF IInv, Provenance, StoredNotNotified, StoredEntryHasTimeout,
        OnlyOverdueNotified, Expired, loopVars
<1>1. CASE Tick
  BY <1>1 DEF Tick, TypeOK, Entry
<1>2. CASE SetOnExpire \/ Stop
  BY <1>2 DEF SetOnExpire, Stop
<1>3. ASSUME NEW k \in Key, Delete(k) PROVE IInv'
  BY <1>3 DEF Delete, TypeOK
<1>4. ASSUME NEW k \in Key, GetExpired(k) PROVE IInv'
  <2>1. kv' = [kv EXCEPT ![k] = NoEntry] /\ notified' = notified
    BY <1>4 DEF GetExpired
  <2>2. notifying' \subseteq notifying \cup {kv[k]}
    BY <1>4 DEF GetExpired, HandOver
  <2>3. NoEntry \notin notifying \cup notified \cup {kv[k]}
    BY <1>4 DEF GetExpired, TypeOK
  <2>4. \A q \in Key \ {k} : kv[q] # kv[k]
    BY <1>4 DEF GetExpired
  <2>5. Provenance' /\ OnlyOverdueNotified'
    BY <1>4, <2>1, <2>2 DEF GetExpired, TypeOK
  <2>6. StoredNotNotified'
    BY <2>1, <2>2, <2>3, <2>4 DEF TypeOK
  <2>7. StoredEntryHasTimeout'
    BY <1>4, <2>1 DEF GetExpired, TypeOK
  <2> QED
    BY <2>5, <2>6, <2>7
<1>5. ASSUME NEW k \in Key, NEW d \in Durations, Put(k, d) PROVE IInv'
  <2> DEFINE e == newTimeout(k, d)
  <2>1. e \in Entry /\ e.key = k /\ e.id = puts
    BY DEF newTimeout, TypeOK, Entry
  <2>2. /\ kv' = [kv EXCEPT ![k] = e] /\ puts' = puts + 1
        /\ heap' = heap \cup {e} /\ now' = now
        /\ UNCHANGED <<loop, c, expired, notifying, notified>>
        /\ loop \in {"idle", "exited"}
    BY <1>5 DEF Put, Unlocked
  <2> HIDE DEF e
  <2>3. e \notin notifying \cup notified
    BY <2>1 DEF TypeOK, Entry
  <2>4. Provenance'
    BY <2>1, <2>2 DEF TypeOK, Entry
  <2>5. StoredNotNotified'
    BY <2>2, <2>3 DEF TypeOK
  <2>6. StoredEntryHasTimeout' /\ OnlyOverdueNotified'
    BY <2>2 DEF TypeOK
  <2> QED
    BY <2>4, <2>5, <2>6
<1>6. CASE ExpireBegin
  BY <1>6 DEF ExpireBegin
<1>7. CASE ExpirePop
  <2>1. PICK last \in Roots :
          /\ \/ kv[last.key] = NoEntry /\ expired' = expired
             \/ /\ kv[last.key] # NoEntry
                /\ Expired(last)
                /\ expired' = expired \cup {last.key}
          /\ heap' = heap \ {last}
    BY <1>7 DEF ExpirePop
  <2>2. loop = "scan"
        /\ UNCHANGED <<now, kv, puts, onExpire, stop, loop, notifying, notified>>
    BY <1>7 DEF ExpirePop
  <2>3. StoredEntryHasTimeout'
    <3> SUFFICES ASSUME NEW k \in Key, kv[k] # NoEntry
                 PROVE  \/ kv[k] \in heap'
                        \/ k \in expired' /\ now > kv[k].expiresAt
      BY <2>2
    <3>1. CASE kv[k] = last
      BY <2>1, <3>1
    <3>2. CASE kv[k] # last
      BY <2>1, <2>2, <3>2
    <3> QED
      BY <3>1, <3>2
  <2> QED
    BY <2>2, <2>3
<1>8. CASE ExpireBreak
  BY <1>8 DEF ExpireBreak
<1>9. CASE ExpireValidate
  <2>1. /\ kv' = [k \in Key |-> IF k \in Overdue THEN NoEntry ELSE kv[k]]
        /\ notifying' \subseteq notifying \cup {kv[k] : k \in Overdue}
        /\ loop' = "idle"
        /\ UNCHANGED <<now, heap, puts, notified>>
    BY <1>9 DEF ExpireValidate, HandOver
  <2>2. \A k \in Overdue : /\ k \in Key /\ kv[k] # NoEntry /\ kv[k] \in Entry
                           /\ now > kv[k].expiresAt /\ kv[k].key = k
    BY DEF Overdue, TypeOK
  <2>3. Provenance' /\ OnlyOverdueNotified'
    BY <2>1, <2>2 DEF TypeOK
  <2>4. StoredNotNotified'
    BY <2>1, <2>2 DEF TypeOK
  <2>5. StoredEntryHasTimeout'
    BY <2>1 DEF Overdue
  <2> QED
    BY <2>3, <2>4, <2>5
<1>10. CASE ExpireExit
  BY <1>10 DEF ExpireExit
<1>11. ASSUME NEW e \in notifying, Notify(e) PROVE IInv'
  BY <1>11 DEF Notify
<1>12. CASE UNCHANGED vars
  BY <1>12 DEF vars
<1> QED
  BY <1>1, <1>2, <1>3, <1>4, <1>5, <1>6, <1>7, <1>8, <1>9, <1>10, <1>11, <1>12
  DEF Next

(* The invariant holds initially. *)
LEMMA InvInit == Init => IInv
<1> SUFFICES ASSUME Init PROVE IInv
  OBVIOUS
<1>1. TypeOK
  BY DEF Init, TypeOK
<1>2. \A k \in Key : kv[k] = NoEntry
  BY DEF Init
<1>3. Provenance /\ StoredNotNotified /\ StoredEntryHasTimeout
  BY <1>2 DEF Init, Provenance, StoredNotNotified, StoredEntryHasTimeout
<1>4. OnlyOverdueNotified
  BY DEF Init, OnlyOverdueNotified
<1> QED
  BY <1>1, <1>3, <1>4 DEF IInv

(* The invariant holds in every reachable state. *)
THEOREM Invariance == SafetySpec => []IInv
  BY InvInit, InvStep, PTL DEF SafetySpec

(* Every variable of the store has its type. *)
THEOREM TypeCorrect == SafetySpec => []TypeOK
<1>1. IInv => TypeOK
  BY DEF IInv
<1> QED
  BY <1>1, Invariance, PTL

(* No stored entry ever loses its timeout: the background loop can always  *)
(* find it, whatever was renewed, deleted or popped before.                *)
THEOREM TimeoutNeverLost == SafetySpec => []StoredEntryHasTimeout
<1>1. IInv => StoredEntryHasTimeout
  BY DEF IInv
<1> QED
  BY <1>1, Invariance, PTL

(* No instance is stopped for a session that is not past its deadline. *)
THEOREM NeverNotifiedEarly == SafetySpec => []OnlyOverdueNotified
<1>1. IInv => OnlyOverdueNotified
  BY DEF IInv
<1> QED
  BY <1>1, Invariance, PTL

-----------------------------------------------------------------------------
(* A step hands an entry to the callback only if it removes that entry,    *)
(* and an entry that is in the map was never handed over before.           *)
LEMMA HandOverStep ==
    ASSUME IInv, [Next]_vars
    PROVE  \A e \in notifying' \ notifying :
                kv[e.key] = e /\ kv'[e.key] # e /\ e \notin notified
<1> SUFFICES ASSUME NEW e \in notifying' \ notifying
             PROVE  kv[e.key] = e /\ kv'[e.key] # e /\ e \notin notified
  OBVIOUS
<1> USE NoEntryAssumption DEF IInv, TypeOK, Provenance, StoredNotNotified
<1>1. ASSUME NEW k \in Key, GetExpired(k)
      PROVE  kv[e.key] = e /\ kv'[e.key] # e /\ e \notin notified
  <2>1. e = kv[k] /\ kv[k] # NoEntry /\ kv' = [kv EXCEPT ![k] = NoEntry]
    BY <1>1 DEF GetExpired, HandOver
  <2> QED
    BY <2>1
<1>2. CASE ExpireValidate
  <2>1. PICK k \in Overdue : e = kv[k]
    BY <1>2 DEF ExpireValidate, HandOver
  <2>2. k \in Key /\ kv[k] # NoEntry
    BY DEF Overdue
  <2>3. kv'[k] = NoEntry
    BY <1>2, <2>2 DEF ExpireValidate
  <2> QED
    BY <2>1, <2>2, <2>3
<1>3. ASSUME notifying' \subseteq notifying
      PROVE  FALSE
  BY <1>3
<1>4. ASSUME NEW k \in Key, Delete(k) PROVE FALSE
  BY <1>4 DEF Delete
<1>5. ASSUME NEW k \in Key, NEW d \in Durations, Put(k, d) PROVE FALSE
  BY <1>5 DEF Put
<1>6. ASSUME NEW x \in notifying, Notify(x) PROVE FALSE
  BY <1>6 DEF Notify
<1>7. CASE Tick \/ SetOnExpire \/ Stop \/ ExpireBegin \/ ExpirePop
           \/ ExpireBreak \/ ExpireExit \/ UNCHANGED vars
  BY <1>7, <1>3 DEF Tick, SetOnExpire, Stop, ExpireBegin, ExpirePop,
                    ExpireBreak, ExpireExit, vars
<1> QED
  BY <1>1, <1>2, <1>4, <1>5, <1>6, <1>7 DEF Next

(* The callback runs at most once per session and never for a session that *)
(* was renewed or deleted before its deadline was acted upon.              *)
THEOREM NotifiedOnce == SafetySpec => NotifiedByItsRemoval
<1>1. IInv /\ [Next]_vars =>
        [\A e \in notifying' \ notifying :
            kv[e.key] = e /\ kv'[e.key] # e /\ e \notin notified]_vars
  BY HandOverStep
<1> QED
  BY <1>1, Invariance, PTL DEF SafetySpec, NotifiedByItsRemoval

-----------------------------------------------------------------------------
(* Refinement: every step of the implementation is a step of the promise   *)
(* or leaves what the promise talks about unchanged.                       *)
LEMMA RefineStep == IInv /\ [Next]_vars => [Promise!Next]_(Promise!vars)
<1> SUFFICES ASSUME IInv, [Next]_vars, ~UNCHANGED Promise!vars
             PROVE  Promise!Next
  OBVIOUS
<1> USE DEF Promise!vars, loopVars
<1>1. CASE Tick
  BY <1>1 DEF Tick, Promise!Tick, Promise!Next
<1>2. CASE SetOnExpire
  BY <1>2 DEF SetOnExpire, Promise!SetOnExpire, Promise!Next
<1>3. CASE Stop
  BY <1>3 DEF Stop, Promise!Stop, Promise!Next
<1>4. ASSUME NEW k \in Key, Delete(k) PROVE Promise!Next
  <2>1. Promise!Delete(k)
    BY <1>4 DEF Delete, Promise!Delete
  <2> QED
    BY <2>1 DEF Promise!Next
<1>5. ASSUME NEW k \in Key, GetExpired(k) PROVE Promise!Next
  <2>1. {k} \in (SUBSET Key) \ {{}}
    OBVIOUS
  <2>2. kv' = [q \in Key |-> IF q \in {k} THEN NoEntry ELSE kv[q]]
    BY <1>5 DEF GetExpired, IInv, TypeOK
  <2>3. {kv[q] : q \in {k}} = {kv[k]}
    OBVIOUS
  <2>4. Promise!Expire({k})
    BY <1>5, <2>2, <2>3
    DEF GetExpired, HandOver, Expired, Promise!Expire, Promise!Expired
  <2> QED
    BY <2>1, <2>4 DEF Promise!Next
<1>6. ASSUME NEW k \in Key, NEW d \in Durations, Put(k, d) PROVE Promise!Next
  <2>1. Promise!Put(k, d)
    BY <1>6 DEF Put, newTimeout, Promise!Put
  <2> QED
    BY <2>1 DEF Promise!Next
<1>7. CASE ExpireValidate
  <2>1. Overdue # {}
    <3>1. ASSUME Overdue = {} PROVE FALSE
      <4>1. kv' = kv
        BY <1>7, <3>1 DEF ExpireValidate, IInv, TypeOK
      <4>2. notifying' = notifying
        BY <1>7, <3>1 DEF ExpireValidate, HandOver
      <4> QED
        BY <1>7, <4>1, <4>2 DEF ExpireValidate
    <3> QED
      BY <3>1
  <2>2. Overdue \in (SUBSET Key) \ {{}}
    BY <2>1 DEF Overdue, IInv, TypeOK
  <2>3. \A k \in Overdue : kv[k] # NoEntry /\ Promise!Expired(kv[k])
    BY DEF Overdue, Expired, Promise!Expired
  <2>4. Promise!Expire(Overdue)
    BY <1>7, <2>3 DEF ExpireValidate, HandOver, Promise!Expire
  <2> QED
    BY <2>2, <2>4 DEF Promise!Next
<1>8. ASSUME NEW e \in notifying, Notify(e) PROVE Promise!Next
  <2>1. Promise!Notify(e)
    BY <1>8 DEF Notify, Promise!Notify
  <2> QED
    BY <2>1 DEF Promise!Next
<1>9. CASE ExpireBegin \/ ExpirePop \/ ExpireBreak \/ ExpireExit
           \/ UNCHANGED vars
  BY <1>9 DEF ExpireBegin, ExpirePop, ExpireBreak, ExpireExit, vars
<1> QED
  BY <1>1, <1>2, <1>3, <1>4, <1>5, <1>6, <1>7, <1>8, <1>9 DEF Next

(* The safety part of the promise: as seen through Get, Put, Delete and    *)
(* the callback, the heap and its half-way scan do not exist.              *)
THEOREM Refinement == SafetySpec => KeepsPromiseSafety
<1>1. Init => Promise!Init
  BY DEF Init, Promise!Init
<1> QED
  BY <1>1, RefineStep, Invariance, PTL
  DEF SafetySpec, KeepsPromiseSafety, Promise!SafetySpec

-----------------------------------------------------------------------------
(* The heap of timeouts: TimeoutHeap. *)

HeapType ==
    /\ array \in Seq(Deadlines)
    /\ sift \in [loop : {"none", "up", "down"}, at : Nat]
    /\ sift.loop # "none" => sift.at < Len(array)

(* While timeheapup is at j, only j may be less than its parent, and the   *)
(* children of j are not less than that parent.                            *)
UpOrdered ==
    sift.loop = "up" =>
        \A k \in 1 .. Len(array) - 1 :
            /\ k # sift.at => ~Less(array, k, Parent(k))
            /\ Parent(k) = sift.at /\ sift.at # 0 => ~Less(array, k, Parent(sift.at))

(* While timeheapdown is at i, only the children of i may be less than     *)
(* their parent, but not less than the parent of i.  What is popped waits  *)
(* at the end and is less than nothing.                                    *)
DownOrdered ==
    sift.loop = "down" =>
        /\ \A k \in 1 .. Len(array) - 2 :
            /\ Parent(k) # sift.at => ~Less(array, k, Parent(k))
            /\ Parent(k) = sift.at /\ sift.at # 0 => ~Less(array, k, Parent(sift.at))
        /\ \A k \in 0 .. Len(array) - 2 : ~Less(array, k, Len(array) - 1)

(* The inductive invariant of the heap. *)
HeapInv == HeapType /\ HeapOrdered /\ UpOrdered /\ DownOrdered

LEMMA ParentFacts ==
    ASSUME NEW j \in Nat, j # 0
    PROVE  /\ Parent(j) \in Nat /\ Parent(j) < j
           /\ j = 2 * Parent(j) + 1 \/ j = 2 * Parent(j) + 2
BY DEF Parent

LEMMA ParentOfRoot == Parent(0) = 0
BY DEF Parent

LEMMA ElementType ==
    ASSUME NEW a \in Seq(Deadlines)
    PROVE  \A k \in 0 .. Len(a) - 1 : a[k + 1] \in Nat
<1> TAKE k \in 0 .. Len(a) - 1
<1>1. k + 1 \in 1 .. Len(a)
  OBVIOUS
<1>2. a[k + 1] \in Deadlines
  BY <1>1
<1> QED  BY <1>2, DeadlinesAssumption

LEMMA SwapFacts ==
    ASSUME NEW a \in Seq(Deadlines),
           NEW i \in 0 .. Len(a) - 1, NEW j \in 0 .. Len(a) - 1
    PROVE  /\ Swap(a, i, j) \in Seq(Deadlines)
           /\ Len(Swap(a, i, j)) = Len(a)
           /\ DOMAIN Swap(a, i, j) = DOMAIN a
           /\ Swap(a, i, j)[i + 1] = a[j + 1]
           /\ Swap(a, i, j)[j + 1] = a[i + 1]
           /\ \A k \in 0 .. Len(a) - 1 : k # i /\ k # j => Swap(a, i, j)[k + 1] = a[k + 1]
<1>1. i + 1 \in 1 .. Len(a) /\ j + 1 \in 1 .. Len(a) /\ DOMAIN a = 1 .. Len(a) /\ Len(a) \in Nat
  OBVIOUS
<1>2. DOMAIN Swap(a, i, j) = DOMAIN a
  BY DEF Swap
<1>3. \A k \in 1 .. Len(a) : Swap(a, i, j)[k] \in Deadlines
  BY <1>1 DEF Swap
<1>4. Swap(a, i, j) \in [1 .. Len(a) -> Deadlines]
  BY <1>1, <1>3 DEF Swap
<1>5. Swap(a, i, j) \in Seq(Deadlines) /\ Len(Swap(a, i, j)) = Len(a)
  BY <1>1, <1>4
<1>6. \A k \in 0 .. Len(a) - 1 : k # i /\ k # j => Swap(a, i, j)[k + 1] = a[k + 1]
  BY <1>1 DEF Swap
<1>7. Swap(a, i, j)[i + 1] = a[j + 1] /\ Swap(a, i, j)[j + 1] = a[i + 1]
  BY <1>1 DEF Swap
<1> QED  BY <1>2, <1>5, <1>6, <1>7

(* The root of an ordered heap is a minimum: the least index of an element *)
(* less than the root would have such an element for a parent.             *)
LEMMA RootIsMinimum ==
    ASSUME NEW a \in Seq(Deadlines),
           \A j \in 1 .. Len(a) - 1 : ~Less(a, j, Parent(j))
    PROVE  \A k \in 0 .. Len(a) - 1 : ~Less(a, k, 0)
<1> DEFINE T == {k \in 0 .. Len(a) - 1 : Less(a, k, 0)}
<1>1. SUFFICES ASSUME T # {} PROVE FALSE
  OBVIOUS
<1>2. T \subseteq Nat
  OBVIOUS
<1>3. PICK k \in T : \A m \in T : ~ (m < k)
  <2> DEFINE R == OpToRel(<, Nat)
  <2>1. IsWellFoundedOn(R, Nat)
    BY NatLessThanWellFounded, Zenon
  <2>2. R = {ss \in Nat \X Nat : ss[1] < ss[2]}
    BY Zenon DEF OpToRel
  <2>3. \A m, l \in Nat : m < l => <<m, l>> \in R
    <3> HIDE DEF R
    <3> QED  BY <2>2
  <2> HIDE DEF T, R
  <2>4. \E l \in T : \A m \in T : ~ (<<m, l>> \in R)
    BY <1>1, <1>2, <2>1, WFMin, Zenon
  <2> QED  BY <1>2, <2>3, <2>4
<1>4. k \in 0 .. Len(a) - 1 /\ Less(a, k, 0) /\ k \in Nat
  BY <1>2
<1>5. \A m \in T : ~ (m < k)
  BY <1>3
<1>6. \A m \in 0 .. Len(a) - 1 : a[m + 1] \in Nat
  BY ElementType
<1>7. k # 0
  BY <1>4, <1>6 DEF Less
<1>8. Parent(k) \in 0 .. Len(a) - 1 /\ Parent(k) < k
  BY <1>4, <1>7, ParentFacts
<1>9. ~Less(a, k, Parent(k))
  BY <1>4, <1>7
<1>10. a[k + 1] \in Nat /\ a[Parent(k) + 1] \in Nat /\ a[0 + 1] \in Nat
  BY <1>4, <1>6, <1>8
<1>11. Less(a, Parent(k), 0)
  BY <1>4, <1>9, <1>10 DEF Less
<1> QED  BY <1>5, <1>8, <1>11

LEMMA HeapInit == InitHeap => HeapInv
BY DEF InitHeap, HeapInv, HeapType, HeapOrdered, UpOrdered, DownOrdered, Idle

LEMMA PushStep ==
    ASSUME HeapInv, NEW x \in Deadlines, timeheapPush(x)
    PROVE  HeapInv'
<1> DEFINE n == Len(array)
<1>1. /\ array \in Seq(Deadlines) /\ n \in Nat /\ sift.loop = "none"
      /\ array' = Append(array, x) /\ sift' = [loop |-> "up", at |-> n]
  BY DEF HeapInv, HeapType, timeheapPush
<1>2. /\ array' \in Seq(Deadlines) /\ Len(array') = n + 1
      /\ \A k \in 0 .. n - 1 : array'[k + 1] = array[k + 1]
  BY <1>1
<1>3. HeapType'
  BY <1>1, <1>2 DEF HeapType
<1>4. ASSUME NEW k \in 1 .. Len(array') - 1
      PROVE  /\ k # n => ~Less(array', k, Parent(k))
             /\ Parent(k) # n
  <2>1. k \in 1 .. n /\ Parent(k) \in Nat /\ Parent(k) < k
    BY <1>1, <1>2, ParentFacts
  <2>2. ASSUME k # n PROVE ~Less(array', k, Parent(k))
    <3>1. k \in 0 .. n - 1 /\ Parent(k) \in 0 .. n - 1 /\ k \in 1 .. n - 1
      BY <1>1, <2>1, <2>2
    <3>2. ~Less(array, k, Parent(k))
      BY <1>1, <3>1 DEF HeapInv, HeapOrdered
    <3> QED  BY <1>2, <3>1, <3>2 DEF Less
  <2> QED  BY <1>1, <2>1, <2>2
<1>5. UpOrdered'
  BY <1>1, <1>4 DEF UpOrdered
<1> QED  BY <1>1, <1>3, <1>5 DEF HeapInv, HeapOrdered, DownOrdered

LEMMA PopStep ==
    ASSUME HeapInv, timeheapPop
    PROVE  HeapInv'
<1> DEFINE n == Len(array) - 1
<1>1. /\ array \in Seq(Deadlines) /\ n \in Nat /\ sift.loop = "none"
      /\ array' = Swap(array, 0, n) /\ sift' = [loop |-> "down", at |-> 0]
  BY DEF HeapInv, HeapType, timeheapPop
<1>2. 0 \in 0 .. Len(array) - 1 /\ n \in 0 .. Len(array) - 1 /\ Len(array) = n + 1
  BY <1>1
<1>3. /\ array' \in Seq(Deadlines) /\ Len(array') = n + 1
      /\ array'[0 + 1] = array[n + 1] /\ array'[n + 1] = array[0 + 1]
      /\ \A k \in 0 .. n : k # 0 /\ k # n => array'[k + 1] = array[k + 1]
  BY ONLY <1>1, <1>2, SwapFacts
<1>4. HeapType'
  <2>1. sift' \in [loop : {"none", "up", "down"}, at : Nat] /\ sift'.at = 0
    BY <1>1
  <2>2. sift'.at < Len(array')
    BY <1>1, <1>3, <2>1
  <2> QED  BY <1>3, <2>1, <2>2 DEF HeapType
<1>5. \A k \in 1 .. n : ~Less(array, k, Parent(k))
  BY <1>1 DEF HeapInv, HeapOrdered
<1>6. ASSUME NEW k \in 1 .. n - 1, Parent(k) # 0
      PROVE  ~Less(array', k, Parent(k))
  <2>1. Parent(k) \in 1 .. n - 1
    BY <1>1, <1>6, ParentFacts
  <2> QED  BY <1>1, <1>3, <1>5, <1>6, <2>1 DEF Less
<1>7. ASSUME NEW k \in 0 .. n - 1
      PROVE  ~Less(array', k, n)
  <2>1. \A l \in 0 .. n : ~Less(array, l, 0)
    BY <1>1, <1>2, <1>5, RootIsMinimum
  <2>2. \E l \in 0 .. n : array'[k + 1] = array[l + 1]
    <3>1. CASE k = 0
      BY <1>2, <1>3, <3>1
    <3>2. CASE k # 0
      <4>1. k \in 0 .. n /\ k # n
        BY <1>1, <1>7
      <4> QED  BY <1>3, <3>2, <4>1
    <3> QED  BY <3>1, <3>2
  <2> QED  BY <1>3, <2>1, <2>2 DEF Less
<1>8. DownOrdered'
  BY <1>1, <1>3, <1>6, <1>7 DEF DownOrdered
<1> QED  BY <1>1, <1>4, <1>8 DEF HeapInv, HeapOrdered, UpOrdered

LEMMA UpStep ==
    ASSUME HeapInv, timeheapup
    PROVE  HeapInv'
<1> DEFINE n == Len(array) - 1
           j == sift.at
           i == Parent(j)
<1>1. /\ array \in Seq(Deadlines) /\ n \in Nat /\ Len(array) = n + 1
      /\ sift.loop = "up" /\ j \in 0 .. n
      /\ sift \in [loop : {"none", "up", "down"}, at : Nat]
  BY DEF HeapInv, HeapType, timeheapup
<1>2. i \in 0 .. n
  BY <1>1, ParentFacts, ParentOfRoot
<1>3. \A k \in 1 .. n :
          /\ k # j => ~Less(array, k, Parent(k))
          /\ Parent(k) = j /\ j # 0 => ~Less(array, k, i)
  BY <1>1 DEF HeapInv, UpOrdered
<1>4. CASE i = j \/ ~Less(array, j, i)
  <2>1. sift' = Idle /\ array' = array
    BY <1>4 DEF timeheapup
  <2>2. \A k \in 1 .. n : ~Less(array, k, Parent(k))
    BY <1>1, <1>3, <1>4, ParentFacts
  <2> QED  BY <1>1, <2>1, <2>2 DEF HeapInv, HeapType, HeapOrdered, UpOrdered, DownOrdered, Idle
<1>5. CASE ~ (i = j \/ ~Less(array, j, i))
  <2>1. array' = Swap(array, i, j) /\ sift' = [sift EXCEPT !.at = i]
    BY <1>5 DEF timeheapup
  <2>2. sift'.loop = "up" /\ sift'.at = i /\ sift' \in [loop : {"none", "up", "down"}, at : Nat]
    BY <1>1, <1>2, <2>1
  <2> HIDE DEF i, j, n
  <2>3. /\ array' \in Seq(Deadlines) /\ Len(array') = n + 1
        /\ array'[i + 1] = array[j + 1] /\ array'[j + 1] = array[i + 1]
        /\ \A k \in 0 .. n : k # i /\ k # j => array'[k + 1] = array[k + 1]
    BY ONLY <1>1, <1>2, <2>1, SwapFacts
  <2>4. \A k \in 0 .. n : array[k + 1] \in Nat
    BY ONLY <1>1, ElementType
  <2>5. j # 0 /\ i < j /\ i = Parent(j) /\ array[j + 1] < array[i + 1]
    BY <1>1, <1>5, ParentFacts, ParentOfRoot DEF Less, i
  <2>6. ASSUME NEW k \in 1 .. n, k # i
        PROVE  ~Less(array', k, Parent(k))
    <3>1. Parent(k) \in 0 .. n /\ k \in 0 .. n
      BY <1>1, ParentFacts
    <3>2. CASE k = j
      BY <1>1, <1>2, <2>3, <2>4, <2>5, <3>2 DEF Less
    <3>3. CASE k # j /\ Parent(k) = j
      BY <1>1, <1>2, <1>3, <2>3, <2>4, <2>5, <2>6, <3>1, <3>3 DEF Less
    <3>4. CASE k # j /\ Parent(k) = i
      BY <1>1, <1>2, <1>3, <2>3, <2>4, <2>5, <2>6, <3>1, <3>4 DEF Less
    <3>5. CASE k # j /\ Parent(k) # i /\ Parent(k) # j
      BY <1>1, <1>2, <1>3, <2>3, <2>4, <2>5, <2>6, <3>1, <3>5 DEF Less
    <3> QED  BY <3>2, <3>3, <3>4, <3>5
  <2>7. ASSUME NEW k \in 1 .. n, Parent(k) = i, i # 0
        PROVE  ~Less(array', k, Parent(i))
    <3>1. Parent(i) \in 0 .. n /\ k \in 0 .. n /\ Parent(i) < i /\ i \in 1 .. n /\ k # i
      BY <1>1, <1>2, <2>7, ParentFacts
    <3>2. array[Parent(i) + 1] <= array[i + 1] /\ array'[Parent(i) + 1] = array[Parent(i) + 1]
      <4>1. ~Less(array, i, Parent(i))
        BY <1>3, <2>5, <3>1
      <4>2. Parent(i) # i /\ Parent(i) # j
        BY <1>1, <2>5, <3>1
      <4> QED  BY <1>2, <2>3, <2>4, <3>1, <4>1, <4>2 DEF Less
    <3>3. array[i + 1] <= array'[k + 1]
      <4>1. CASE k = j
        BY <1>2, <2>3, <2>4, <4>1
      <4>2. CASE k # j
        BY <1>2, <1>3, <2>3, <2>4, <2>7, <3>1, <4>2 DEF Less
      <4> QED  BY <4>1, <4>2
    <3>4. array[Parent(i) + 1] \in Nat /\ array[i + 1] \in Nat /\ array'[k + 1] \in Nat
      BY <1>2, <2>3, <2>4, <3>1
    <3> QED  BY <3>2, <3>3, <3>4 DEF Less
  <2>8. HeapType'
    BY <1>1, <1>2, <2>2, <2>3 DEF HeapType
  <2>9. UpOrdered'
    BY <1>1, <2>2, <2>3, <2>6, <2>7 DEF UpOrdered
  <2> QED  BY <2>2, <2>8, <2>9 DEF HeapInv, HeapOrdered, DownOrdered
<1> QED  BY <1>4, <1>5

LEMMA DownStep ==
    ASSUME HeapInv, timeheapdown
    PROVE  HeapInv'
<1> DEFINE n == Len(array) - 1
           i == sift.at
           j == SmallerChild(array, i, n)
<1>1. /\ array \in Seq(Deadlines) /\ n \in Nat /\ Len(array) = n + 1
      /\ sift.loop = "down" /\ i \in 0 .. n
      /\ sift \in [loop : {"none", "up", "down"}, at : Nat]
  BY DEF HeapInv, HeapType, timeheapdown
<1>2. \A k \in 1 .. n - 1 :
          /\ Parent(k) # i => ~Less(array, k, Parent(k))
          /\ Parent(k) = i /\ i # 0 => ~Less(array, k, Parent(i))
  BY <1>1 DEF HeapInv, DownOrdered
<1>3. \A k \in 0 .. n - 1 : ~Less(array, k, n)
  BY <1>1 DEF HeapInv, DownOrdered
<1>4. \A k \in 0 .. n : array[k + 1] \in Nat
  BY <1>1, ElementType
<1>5. ASSUME 2 * i + 1 < n
      PROVE  /\ j \in 1 .. n - 1 /\ i < j /\ Parent(j) = i
             /\ \A k \in 1 .. n - 1 : Parent(k) = i => array[j + 1] <= array[k + 1]
  <2> HIDE DEF i, n
  <2>1. j = 2 * i + 1 \/ (j = 2 * i + 2 /\ j < n)
    BY <1>1, <1>5 DEF SmallerChild
  <2>2. j \in 1 .. n - 1 /\ i < j /\ j \in Nat /\ j # 0
    BY <1>1, <1>5, <2>1
  <2>3. Parent(j) = i
    <3> HIDE DEF j
    <3>1. Parent(j) \in Nat /\ (j = 2 * Parent(j) + 1 \/ j = 2 * Parent(j) + 2)
      BY <2>2, ParentFacts
    <3>2. i \in Nat
      BY <1>1
    <3> QED  BY <2>1, <3>1, <3>2
  <2>4. ASSUME NEW k \in 1 .. n - 1, Parent(k) = i
        PROVE  array[j + 1] <= array[k + 1]
    <3>1. k = 2 * i + 1 \/ k = 2 * i + 2
      BY <1>1, <2>4, ParentFacts
    <3>2. array[(2 * i + 1) + 1] \in Nat
      BY <1>1, <1>4, <1>5
    <3>3. CASE 2 * i + 1 + 1 < n /\ Less(array, 2 * i + 1 + 1, 2 * i + 1)
      <4>1. j = 2 * i + 1 + 1
        BY <3>3 DEF SmallerChild
      <4>2. array[2 * i + 1 + 1 + 1] \in Nat
        BY <1>1, <1>4, <3>3
      <4> QED  BY <1>1, <3>1, <3>2, <3>3, <4>1, <4>2 DEF Less
    <3>4. CASE ~ (2 * i + 1 + 1 < n /\ Less(array, 2 * i + 1 + 1, 2 * i + 1))
      <4>1. j = 2 * i + 1
        BY <3>4 DEF SmallerChild
      <4>2. array[k + 1] \in Nat
        BY <1>1, <1>4
      <4> QED  BY <1>1, <3>1, <3>2, <3>4, <4>1, <4>2 DEF Less
    <3> QED  BY <3>3, <3>4
  <2> QED  BY <2>2, <2>3, <2>4
<1>6. CASE 2 * i + 1 >= n \/ ~Less(array, j, i)
  <2>1. array' = SubSeq(array, 1, n) /\ sift' = Idle
    BY <1>6 DEF timeheapdown
  <2> HIDE DEF i, n, j
  <2>2. /\ array' \in Seq(Deadlines) /\ Len(array') = n
        /\ \A k \in 0 .. n - 1 : array'[k + 1] = array[k + 1]
    BY <1>1, <2>1
  <2>3. ASSUME NEW k \in 1 .. n - 1
        PROVE  ~Less(array, k, Parent(k))
    <3>1. CASE Parent(k) # i
      BY <1>2, <3>1
    <3>2. CASE Parent(k) = i
      <4>1. 2 * i + 1 < n
        BY <1>1, <3>2, ParentFacts
      <4>2. ~Less(array, j, i) /\ array[j + 1] <= array[k + 1] /\ j \in 0 .. n /\ k \in 0 .. n
        BY <1>1, <1>5, <1>6, <3>2, <4>1
      <4>3. array[i + 1] \in Nat /\ array[j + 1] \in Nat /\ array[k + 1] \in Nat
        BY <1>1, <1>4, <4>2
      <4> QED  BY <3>2, <4>2, <4>3 DEF Less
    <3> QED  BY <3>1, <3>2
  <2>4. \A k \in 1 .. Len(array') - 1 : ~Less(array', k, Parent(k))
    <3> TAKE k \in 1 .. Len(array') - 1
    <3>1. k \in 1 .. n - 1 /\ k \in 0 .. n - 1
      BY <1>1, <2>2
    <3>2. Parent(k) \in 0 .. n - 1
      BY <1>1, <3>1, ParentFacts
    <3> QED  BY <2>2, <2>3, <3>1, <3>2 DEF Less
  <2> QED  BY <1>1, <2>1, <2>2, <2>4 DEF HeapInv, HeapType, HeapOrdered, UpOrdered, DownOrdered, Idle
<1>7. CASE ~ (2 * i + 1 >= n \/ ~Less(array, j, i))
  <2>1. array' = Swap(array, i, j) /\ sift' = [sift EXCEPT !.at = j]
    BY <1>7 DEF timeheapdown
  <2>2. 2 * i + 1 < n
    BY <1>1, <1>7
  <2>3. /\ j \in 1 .. n - 1 /\ j \in 0 .. n /\ i < j /\ Parent(j) = i
        /\ \A k \in 1 .. n - 1 : Parent(k) = i => array[j + 1] <= array[k + 1]
    <3> HIDE DEF i, n, j
    <3> QED  BY <1>1, <1>5, <2>2
  <2>4. sift'.loop = "down" /\ sift'.at = j /\ sift' \in [loop : {"none", "up", "down"}, at : Nat]
    <3> HIDE DEF j, n
    <3> QED  BY <1>1, <2>1, <2>3
  <2> HIDE DEF i, j, n
  <2>5. /\ array' \in Seq(Deadlines) /\ Len(array') = n + 1
        /\ array'[i + 1] = array[j + 1] /\ array'[j + 1] = array[i + 1]
        /\ \A k \in 0 .. n : k # i /\ k # j => array'[k + 1] = array[k + 1]
    <3>1. i \in 0 .. Len(array) - 1 /\ j \in 0 .. Len(array) - 1
      BY <1>1, <2>3
    <3>2. 0 .. n = 0 .. Len(array) - 1 /\ array \in Seq(Deadlines) /\ Len(array) = n + 1
      BY <1>1
    <3>3. /\ Swap(array, i, j) \in Seq(Deadlines) /\ Len(Swap(array, i, j)) = Len(array)
          /\ Swap(array, i, j)[i + 1] = array[j + 1] /\ Swap(array, i, j)[j + 1] = array[i + 1]
          /\ \A k \in 0 .. Len(array) - 1 :
                k # i /\ k # j => Swap(array, i, j)[k + 1] = array[k + 1]
      BY <3>1, <3>2, SwapFacts, Zenon
    <3> QED  BY <2>1, <3>2, <3>3, Zenon
  <2>6. array[j + 1] < array[i + 1]
    BY <1>7 DEF Less
  <2>7. ASSUME NEW k \in 1 .. n - 1, Parent(k) # j
        PROVE  ~Less(array', k, Parent(k))
    <3>1. Parent(k) \in 0 .. n /\ k \in 0 .. n /\ Parent(k) < k
      BY <1>1, ParentFacts
    <3>2. CASE k = j
      BY <1>1, <1>4, <2>3, <2>5, <2>6, <3>2 DEF Less
    <3>3. CASE k # j /\ Parent(k) = i
      <4>1. k # i
        BY <3>1, <3>3
      <4>2. array'[k + 1] = array[k + 1] /\ array[j + 1] <= array[k + 1]
        BY <2>3, <2>5, <3>1, <3>3, <4>1
      <4> QED  BY <1>4, <2>3, <2>5, <3>1, <3>3, <4>2 DEF Less
    <3>4. CASE k # j /\ Parent(k) # i /\ k = i
      <4>1. i # 0 /\ ~Less(array, j, Parent(i))
        BY <1>2, <2>3, <3>4
      <4>2. array'[Parent(i) + 1] = array[Parent(i) + 1]
        BY <2>5, <2>7, <3>1, <3>4
      <4> QED  BY <1>1, <2>5, <3>4, <4>1, <4>2 DEF Less
    <3>5. CASE k # j /\ Parent(k) # i /\ k # i
      BY <1>2, <2>5, <2>7, <3>1, <3>5 DEF Less
    <3> QED  BY <3>2, <3>3, <3>4, <3>5
  <2>8. ASSUME NEW k \in 1 .. n - 1, Parent(k) = j
        PROVE  ~Less(array', k, Parent(j))
    <3>1. k \in 0 .. n /\ j < k /\ k # i /\ k # j /\ Parent(k) # i
      BY <1>1, <2>3, <2>8, ParentFacts
    <3>2. ~Less(array, k, j)
      BY <1>2, <2>8, <3>1
    <3> QED  BY <2>3, <2>5, <3>1, <3>2 DEF Less
  <2>9. ASSUME NEW k \in 0 .. n - 1
        PROVE  ~Less(array', k, n)
    <3>1. n # i /\ n # j /\ n \in 0 .. n /\ array'[n + 1] = array[n + 1]
      BY <1>1, <2>2, <2>3, <2>5
    <3>2. \E l \in 0 .. n - 1 : array'[k + 1] = array[l + 1]
      <4>1. i \in 0 .. n - 1 /\ j \in 0 .. n - 1 /\ k \in 0 .. n
        BY <1>1, <2>2, <2>3
      <4> QED  BY <2>5, <4>1
    <3> QED  BY <1>3, <3>1, <3>2 DEF Less
  <2>10. HeapType'
    BY <1>1, <2>3, <2>4, <2>5 DEF HeapType
  <2>11. DownOrdered'
    <3>1. Len(array') - 1 = n /\ Len(array') - 2 = n - 1
      BY <1>1, <2>5
    <3> QED  BY <2>4, <2>7, <2>8, <2>9, <3>1 DEF DownOrdered
  <2> QED  BY <2>4, <2>10, <2>11 DEF HeapInv, HeapOrdered, UpOrdered
<1> QED  BY <1>6, <1>7

LEMMA HeapStep == HeapInv /\ [NextHeap]_heapVars => HeapInv'
<1> SUFFICES ASSUME HeapInv, [NextHeap]_heapVars PROVE HeapInv'
  OBVIOUS
<1>1. CASE UNCHANGED heapVars
  BY <1>1 DEF heapVars, HeapInv, HeapType, HeapOrdered, UpOrdered, DownOrdered
<1> QED  BY <1>1, PushStep, PopStep, UpStep, DownStep DEF NextHeap

(* The comment of timeheapInterface is true of every heap the operations   *)
(* build, whatever deadlines are pushed and in whatever order they are     *)
(* popped: when no loop runs, no element is less than its parent.          *)
THEOREM HeapIsOrdered == HeapSpec => []HeapOrdered
<1>1. InitHeap => HeapInv
  BY HeapInit
<1>2. HeapInv /\ [NextHeap]_heapVars => HeapInv'
  BY HeapStep
<1>3. HeapInv => HeapOrdered
  BY DEF HeapInv
<1> QED  BY <1>1, <1>2, <1>3, PTL DEF HeapSpec

-----------------------------------------------------------------------------
(* How many times an element occurs in an array. *)

LEMMA OccurrencesFinite ==
    ASSUME NEW a \in Seq(Deadlines), NEW y
    PROVE  IsFiniteSet({k \in DOMAIN a : a[k] = y}) /\ Count(a, y) \in Nat
<1>1. DOMAIN a = 1 .. Len(a) /\ Len(a) \in Int /\ 1 \in Int
  OBVIOUS
<1>2. IsFiniteSet(1 .. Len(a))
  BY <1>1, FS_Interval
<1>3. {k \in DOMAIN a : a[k] = y} \in SUBSET (1 .. Len(a))
  BY <1>1
<1>4. IsFiniteSet({k \in DOMAIN a : a[k] = y})
  BY <1>2, <1>3, FS_Subset
<1> QED  BY <1>4, FS_CardinalityType DEF Count

(* An array that is longer by one element. *)
LEMMA CountLonger ==
    ASSUME NEW a \in Seq(Deadlines), NEW b \in Seq(Deadlines),
           Len(b) = Len(a) + 1, \A k \in 1 .. Len(a) : b[k] = a[k]
    PROVE  OneMore(b, a, b[Len(b)])
<1> SUFFICES ASSUME NEW y \in Deadlines
             PROVE  Count(b, y) = Count(a, y) + (IF y = b[Len(b)] THEN 1 ELSE 0)
  BY DEF OneMore
<1> DEFINE A == {k \in DOMAIN a : a[k] = y}
           B == {k \in DOMAIN b : b[k] = y}
           m == Len(b)
<1>1. /\ DOMAIN a = 1 .. Len(a) /\ DOMAIN b = 1 .. Len(b) /\ Len(a) \in Nat
      /\ m = Len(a) + 1
  OBVIOUS
<1>2. IsFiniteSet(A) /\ Count(a, y) = Cardinality(A) /\ Cardinality(A) \in Nat
  BY OccurrencesFinite DEF Count
<1>3. m \notin A /\ Count(b, y) = Cardinality(B)
  BY <1>1 DEF Count
<1>4. CASE y = b[m]
  <2>1. B = A \cup {m}
    BY <1>1, <1>4
  <2> HIDE DEF A, B, m
  <2>2. Cardinality(A \cup {m}) = Cardinality(A) + 1
    BY <1>2, <1>3, FS_AddElement
  <2> QED  BY <1>2, <1>3, <1>4, <2>1, <2>2 DEF m
<1>5. CASE y # b[m]
  <2>1. B = A
    BY <1>1, <1>5
  <2> HIDE DEF A, B, m
  <2> QED  BY <1>2, <1>3, <1>5, <2>1 DEF m
<1> QED  BY <1>4, <1>5

(* A swap exchanges the indices of the occurrences. *)
LEMMA CountSwap ==
    ASSUME NEW a \in Seq(Deadlines),
           NEW i \in 0 .. Len(a) - 1, NEW j \in 0 .. Len(a) - 1,
           NEW y
    PROVE  Count(Swap(a, i, j), y) = Count(a, y)
<1> DEFINE b == Swap(a, i, j)
           A == {k \in DOMAIN a : a[k] = y}
           B == {k \in DOMAIN b : b[k] = y}
           other(k) == IF k = i + 1 THEN j + 1 ELSE IF k = j + 1 THEN i + 1 ELSE k
           f == [k \in A |-> other(k)]
<1>1. /\ i + 1 \in DOMAIN a /\ j + 1 \in DOMAIN a /\ DOMAIN b = DOMAIN a
      /\ \A k \in DOMAIN a : /\ other(k) \in DOMAIN a
                             /\ other(other(k)) = k
                             /\ b[other(k)] = a[k] /\ b[k] = a[other(k)]
  BY DEF Swap
<1> HIDE DEF b, other
<1>2. f \in [A -> B]
  BY <1>1
<1>3. \A k, l \in A : f[k] = f[l] => k = l
  BY <1>1
<1>4. ASSUME NEW l \in B PROVE \E k \in A : f[k] = l
  <2>1. other(l) \in A /\ f[other(l)] = l
    BY <1>1
  <2> QED  BY <2>1
<1>5. ExistsBijection(A, B)
  <2> HIDE DEF f, A, B
  <2> QED  BY <1>2, <1>3, <1>4, Zenon DEF ExistsBijection, Bijection, Injection, Surjection,
              IsInjective
<1>6. IsFiniteSet(A)
  BY OccurrencesFinite
<1>7. Cardinality(B) = Cardinality(A)
  <2> HIDE DEF A, B
  <2> QED  BY <1>5, <1>6, FS_Bijection
<1> QED  BY <1>7 DEF Count, b

LEMMA SwapKeepsElements ==
    ASSUME HeapType, NEW i \in 0 .. Len(array) - 1, NEW j \in 0 .. Len(array) - 1,
           array' = Swap(array, i, j)
    PROVE  KeepsElements
<1>1. Len(array') = Len(array) /\ Len(array) \in Nat
  BY SwapFacts DEF HeapType
<1>2. \A y \in Deadlines : Count(array', y) = Count(array, y)
  BY CountSwap DEF HeapType
<1> QED  BY <1>1, <1>2 DEF KeepsElements

LEMMA HeapKeepsStep == HeapInv /\ NextHeap => KeepsElements
<1> SUFFICES ASSUME HeapInv, NextHeap PROVE KeepsElements
  OBVIOUS
<1>1. /\ array \in Seq(Deadlines) /\ Len(array) \in Nat /\ HeapType
      /\ DOMAIN array = 1 .. Len(array)
  BY DEF HeapInv, HeapType
<1>2. ASSUME array' = array PROVE KeepsElements
  BY <1>1, <1>2 DEF KeepsElements
<1>3. ASSUME NEW x \in Deadlines, timeheapPush(x) PROVE KeepsElements
  <2>1. array' = Append(array, x)
    BY <1>3 DEF timeheapPush
  <2>2. /\ array' \in Seq(Deadlines) /\ Len(array') = Len(array) + 1
        /\ array'[Len(array')] = x
        /\ \A k \in 1 .. Len(array) : array'[k] = array[k]
    BY <1>1, <2>1
  <2>3. OneMore(array', array, x)
    BY <1>1, <2>2, CountLonger
  <2>4. Len(array') > Len(array) /\ Len(array') # Len(array) /\ ~ (Len(array') < Len(array))
    <3>1. Len(array') = Len(array) + 1 /\ Len(array) \in Nat
      BY <1>1, <2>2, Zenon
    <3> QED  BY ONLY <3>1
  <2> QED  BY <2>3, <2>4, Zenon DEF KeepsElements
<1>4. CASE timeheapPop
  <2>1. /\ 0 \in 0 .. Len(array) - 1 /\ Len(array) - 1 \in 0 .. Len(array) - 1
        /\ array' = Swap(array, 0, Len(array) - 1)
    BY <1>1, <1>4 DEF timeheapPop
  <2> QED  BY <1>1, <2>1, SwapKeepsElements
<1>5. CASE timeheapup
  <2> DEFINE j == sift.at
             i == Parent(j)
  <2>1. \/ array' = array
        \/ array' = Swap(array, i, j)
    BY <1>5 DEF timeheapup
  <2>2. j \in 0 .. Len(array) - 1
    BY <1>1, <1>5 DEF HeapType, timeheapup
  <2>3. i \in 0 .. Len(array) - 1
    BY <1>1, <2>2, ParentFacts, ParentOfRoot
  <2> HIDE DEF i, j
  <2> QED  BY <1>1, <1>2, <2>1, <2>2, <2>3, SwapKeepsElements
<1>6. CASE timeheapdown
  <2> DEFINE n == Len(array) - 1
             i == sift.at
             j == SmallerChild(array, i, n)
  <2>1. sift.loop = "down" /\ i \in 0 .. n /\ n \in Nat /\ Len(array) = n + 1
    BY <1>1, <1>6 DEF HeapType, timeheapdown
  <2>2. CASE 2 * i + 1 >= n \/ ~Less(array, j, i)
    <3>1. array' = SubSeq(array, 1, n)
      BY <1>6, <2>2 DEF timeheapdown
    <3>2. \A k \in 0 .. n - 1 : ~Less(array, k, n)
      BY <2>1 DEF HeapInv, DownOrdered
    <3>3. \A k \in 0 .. n : array[k + 1] \in Nat
      BY <1>1, ElementType
    <3> HIDE DEF i, j, n
    <3>4. /\ array' \in Seq(Deadlines) /\ Len(array') = n
          /\ \A k \in 1 .. n : array[k] = array'[k]
      BY <1>1, <2>1, <3>1
    <3>5. array[n + 1] \in Deadlines
      BY <1>1, <2>1
    <3>6. OneMore(array, array', array[n + 1])
      BY <1>1, <2>1, <3>4, CountLonger
    <3>7. \A k \in DOMAIN array : array[n + 1] <= array[k]
      <4> TAKE k \in DOMAIN array
      <4>1. PICK l \in 0 .. n : k = l + 1
        <5>1. k - 1 \in 0 .. n /\ k = (k - 1) + 1
          BY <1>1, <2>1
        <5> QED  BY <5>1
      <4>2. array[l + 1] \in Nat /\ array[n + 1] \in Nat
        BY <2>1, <3>3
      <4>3. l = n \/ ~Less(array, l, n)
        BY <2>1, <3>2
      <4> QED  BY <4>1, <4>2, <4>3 DEF Less
    <3> QED  BY <2>1, <3>4, <3>5, <3>6, <3>7 DEF KeepsElements
  <2>3. CASE ~ (2 * i + 1 >= n \/ ~Less(array, j, i))
    <3>1. array' = Swap(array, i, j)
      BY <1>6, <2>3 DEF timeheapdown
    <3>2. j \in 0 .. Len(array) - 1
      BY <2>1, <2>3 DEF SmallerChild
    <3> HIDE DEF j
    <3> QED  BY <1>1, <2>1, <3>1, <3>2, SwapKeepsElements
  <2> QED  BY <2>2, <2>3
<1> QED  BY <1>3, <1>4, <1>5, <1>6 DEF NextHeap

(* No timeout is lost or invented by the loops over the array, and the one *)
(* timeheapPop removes is a minimum of all: an overdue timeout cannot hide *)
(* behind a root that is not overdue.                                      *)
THEOREM HeapIsAPriorityQueue == HeapSpec => HeapKeepsElements
<1>1. InitHeap => HeapInv
  BY HeapInit
<1>2. HeapInv /\ [NextHeap]_heapVars => HeapInv'
  BY HeapStep
<1>3. HeapInv /\ [NextHeap]_heapVars => [KeepsElements]_heapVars
  BY HeapKeepsStep
<1> QED  BY <1>1, <1>2, <1>3, PTL DEF HeapSpec, HeapKeepsElements
=============================================================================
