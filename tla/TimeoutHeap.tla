---------------------------- MODULE TimeoutHeap -----------------------------
(***************************************************************************)
(* pkg/tinykv/timeout_heap.go: the binary heap of timeouts, as the         *)
(* algorithm on the array.  An element is its deadline.  TinyKV.tla takes  *)
(* the heap for a set whose root is a minimum; this module shows that the  *)
(* sift-up and sift-down loops provide that.  A step is an iteration of a  *)
(* loop.                                                                   *)
(***************************************************************************)
EXTENDS Integers, Sequences, FiniteSets

CONSTANTS Deadlines,  \* values of expiresAt
          MaxLen      \* bound on the length of the heap

ASSUME DeadlinesAssumption == Deadlines \subseteq Nat

VARIABLES array,  \* the elements: array[i + 1] is Go's h[i]
          sift    \* the loop that runs, "up", "down" or "none", and its index

heapVars == <<array, sift>>

Idle == [loop |-> "none", at |-> 0]

InitHeap == array = << >> /\ sift = Idle

-----------------------------------------------------------------------------
Less(a, i, j) == a[i + 1] < a[j + 1]

Swap(a, i, j) == [a EXCEPT ![i + 1] = a[j + 1], ![j + 1] = a[i + 1]]

(* Go's (j - 1) / 2 truncates towards zero, so the root is its own parent. *)
Parent(j) == IF j = 0 THEN 0 ELSE (j - 1) \div 2

timeheapPush(x) ==
    /\ sift.loop = "none"
    /\ Len(array) < MaxLen
    /\ array' = Append(array, x)
    /\ sift' = [loop |-> "up", at |-> Len(array)]

timeheapup ==
    LET j == sift.at
        i == Parent(j)
    IN  /\ sift.loop = "up"
        /\ IF i = j \/ ~Less(array, j, i)
           THEN sift' = Idle /\ UNCHANGED array
           ELSE array' = Swap(array, i, j) /\ sift' = [sift EXCEPT !.at = i]

(* Mutant of timeheapPop: the last element is removed without the swap. *)
PopLast ==
    /\ sift.loop = "none"
    /\ array # << >>
    /\ array' = SubSeq(array, 1, Len(array) - 1)
    /\ UNCHANGED sift

(* The minimum goes to the end; timeheapdown leaves it there. *)
timeheapPop ==
    /\ sift.loop = "none"
    /\ array # << >>
    /\ array' = Swap(array, 0, Len(array) - 1)
    /\ sift' = [loop |-> "down", at |-> 0]

(* Mutant of SmallerChild: the right child is not looked at. *)
LeftChild(a, i, n) == 2 * i + 1

(* The smaller child of i among the first n elements. *)
SmallerChild(a, i, n) ==
    LET j1 == 2 * i + 1
    IN  IF j1 + 1 < n /\ Less(a, j1 + 1, j1) THEN j1 + 1 ELSE j1

(* When the loop is over, timeheapPop removes the last element. *)
timeheapdown ==
    LET i == sift.at
        n == Len(array) - 1
        j == SmallerChild(array, i, n)
    IN  /\ sift.loop = "down"
        /\ IF 2 * i + 1 >= n \/ ~Less(array, j, i)
           THEN array' = SubSeq(array, 1, n) /\ sift' = Idle
           ELSE array' = Swap(array, i, j) /\ sift' = [sift EXCEPT !.at = j]

NextHeap ==
    \/ timeheapPop \/ timeheapup \/ timeheapdown
    \/ \E x \in Deadlines : timeheapPush(x)

HeapSpec == InitHeap /\ [][NextHeap]_heapVars

-----------------------------------------------------------------------------
(* The invariant the comment of timeheapInterface states: no element of    *)
(* the heap is less than its parent, whenever no loop runs.                *)
HeapOrdered ==
    sift.loop = "none" =>
        \A j \in 1 .. Len(array) - 1 : ~Less(array, j, Parent(j))

Count(a, x) == Cardinality({i \in DOMAIN a : a[i] = x})

(* a is b with one more x. *)
OneMore(a, b, x) ==
    \A y \in Deadlines : Count(a, y) = Count(b, y) + (IF y = x THEN 1 ELSE 0)

(* What a step does to the elements. *)
KeepsElements ==
    /\ Len(array') > Len(array) => \E x \in Deadlines : OneMore(array', array, x)
    /\ Len(array') = Len(array) => \A y \in Deadlines : Count(array', y) = Count(array, y)
    /\ Len(array') < Len(array) =>
           \E x \in Deadlines : /\ OneMore(array, array', x)
                                /\ \A i \in DOMAIN array : x <= array[i]

(* Push adds its element, the loops lose none, and Pop removes one that is *)
(* a minimum of the whole heap: expireFunc stops at the first root that is *)
(* not overdue, so an overdue timeout behind it would be missed.           *)
HeapKeepsElements == [][KeepsElements]_heapVars
=============================================================================
