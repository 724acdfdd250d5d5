------------------------ MODULE CallOutTableProofs ------------------------
(***************************************************************************)
(* What the operators of CallOutTable return, for every size of the table  *)
(* and of the cyclic buffer.  First the heap of long-term callouts: what   *)
(* sifting an entry upward or downward does to its order and its entries.  *)
(* Then the table: each operation returns one again, whose counters nshort *)
(* and nzero still count what is in its lists.                             *)
(***************************************************************************)
EXTENDS CallOutTable, FiniteSetTheorems, WellFoundedInduction, TLAPS

(* Ordered by whole seconds, as SecondsHeap of CallOut states it.          *)
Heap(q) == \A k \in DOMAIN q \ {1} : q[k].t >= q[k \div 2].t

---------------------------------------------------------------------------
(* Induction over the natural numbers, with sets instead of predicates.    *)

(* A set of integers with a lower bound has a least member.                *)
LEMMA LeastExists ==
    ASSUME NEW S \in SUBSET Int, S # {}, NEW a \in Int, \A x \in S : x >= a
    PROVE  \E x \in S : \A y \in S : x <= y
<1> DEFINE T == {n \in Nat : n + a \in S}
<1>1. T \subseteq Nat /\ T # {}
    <2>1. PICK x \in S : TRUE
        OBVIOUS
    <2>2. x - a \in Nat /\ (x - a) + a = x
        OBVIOUS
    <2> QED  BY <2>2
<1>2. PICK u \in T : \A v \in T : << v, u >> \notin OpToRel(<, Nat)
    <2> HIDE DEF T
    <2> QED  BY <1>1, NatLessThanWellFounded, WFMin
<1>3. \A v \in T : u <= v
    <2>1. TAKE v \in T
    <2>2. << v, u >> \in Nat \X Nat /\ << v, u >> \notin OpToRel(<, Nat)
        BY <1>1, <1>2
    <2>3. ~(v < u)
        BY <2>2 DEF OpToRel
    <2> QED  BY <1>1, <2>3
<1>4. ASSUME NEW y \in S
      PROVE  u + a <= y
    <2>1. y - a \in T
        <3>1. y - a \in Nat /\ (y - a) + a = y
            OBVIOUS
        <3> QED  BY <3>1
    <2> QED  BY <1>1, <1>3, <2>1
<1> QED  BY <1>4

LEMMA CompleteInduction ==
    ASSUME NEW S, \A n \in Nat : (\A m \in 0 .. n - 1 : m \in S) => n \in S
    PROVE  \A n \in Nat : n \in S
<1> DEFINE T == {n \in Nat : n \notin S}
<1>1. SUFFICES ASSUME T # {}  PROVE FALSE
    OBVIOUS
<1>2. T \in SUBSET Int /\ \A x \in T : x >= 0
    OBVIOUS
<1>3. PICK n \in T : \A m \in T : n <= m
    <2> HIDE DEF T
    <2> QED  BY <1>1, <1>2, LeastExists
<1>4. \A m \in 0 .. n - 1 : m \in S
    BY <1>3
<1> QED  BY <1>3, <1>4

---------------------------------------------------------------------------
(* The nodes above a node.                                                 *)

(* The recursion that defines Ancestors has a solution: the nodes that are *)
(* in every set with k in it that halving does not leave.                  *)
LEMMA AncestorsDef ==
    \A k \in Nat :
        Ancestors[k] = IF k <= 1 THEN {} ELSE {k \div 2} \cup Ancestors[k \div 2]
<1> DEFINE Closed(S, k) == k \in S /\ \A x \in S : x > 1 => x \div 2 \in S
           W == [k \in Nat |-> {a \in 1 .. k - 1 :
                                   \A S \in SUBSET Nat : Closed(S, k) => a \in S}]
           F(f) == [k \in Nat |-> IF k <= 1 THEN {} ELSE {k \div 2} \cup f[k \div 2]]
<1>1. ASSUME NEW k \in Nat, k > 1
      PROVE  W[k] = {k \div 2} \cup W[k \div 2]
    <2> DEFINE h == k \div 2
    <2>1. h \in Nat /\ h >= 1 /\ h < k
        BY <1>1
    <2>2. ASSUME NEW a \in W[k], a # h
          PROVE  a \in W[h]
        <3>1. a \in 1 .. k - 1 /\ \A S \in SUBSET Nat : Closed(S, k) => a \in S
            OBVIOUS
        <3>2. a \in 1 .. h - 1
            <4> DEFINE T == (1 .. h) \cup {k}
            <4>1. T \in SUBSET Nat
                BY <2>1
            <4>2. Closed(T, k)
                <5>1. ASSUME NEW x \in T, x > 1
                      PROVE  x \div 2 \in T
                    <6>1. CASE x = k
                        BY <2>1, <6>1
                    <6>2. CASE x \in 1 .. h
                        BY <2>1, <5>1, <6>2
                    <6> QED  BY <6>1, <6>2
                <5> QED  BY <5>1
            <4>3. a \in T
                BY <3>1, <4>1, <4>2
            <4> QED  BY <2>1, <2>2, <3>1, <4>3
        <3>3. ASSUME NEW S \in SUBSET Nat, Closed(S, h)
              PROVE  a \in S
            <4> DEFINE T == S \cup {k}
            <4>1. T \in SUBSET Nat /\ Closed(T, k)
                BY <3>3
            <4>2. a \in T
                BY <3>1, <4>1
            <4> QED  BY <3>1, <4>2
        <3> QED  BY <2>1, <3>2, <3>3
    <2>3. h \in W[k]
        <3>1. h \in 1 .. k - 1
            BY <2>1
        <3>2. \A S \in SUBSET Nat : Closed(S, k) => h \in S
            BY <1>1
        <3> QED  BY <3>1, <3>2
    <2>4. ASSUME NEW a \in W[h]
          PROVE  a \in W[k]
        <3>1. a \in 1 .. h - 1 /\ \A S \in SUBSET Nat : Closed(S, h) => a \in S
            BY <2>1
        <3>2. ASSUME NEW S \in SUBSET Nat, Closed(S, k)
              PROVE  a \in S
            <4>1. Closed(S, h)
                BY <1>1, <3>2
            <4> QED  BY <3>1, <4>1
        <3> QED  BY <2>1, <3>1, <3>2
    <2> HIDE DEF W, h
    <2>5. W[k] = {h} \cup W[h]
        BY <2>2, <2>3, <2>4
    <2> QED  BY <2>5 DEF h
<1>2. ASSUME NEW k \in Nat, k <= 1
      PROVE  W[k] = {}
    BY <1>2
<1>3. W = F(W)
    <2>1. \A k \in Nat : W[k] = IF k <= 1 THEN {} ELSE {k \div 2} \cup W[k \div 2]
        <3> HIDE DEF W
        <3> TAKE k \in Nat
        <3>1. k > 1 \/ k <= 1
            OBVIOUS
        <3>2. k > 1 => ~(k <= 1)
            OBVIOUS
        <3> QED  BY <1>1, <1>2, <3>1, <3>2
    <2>2. W = [k \in Nat |-> W[k]]
        OBVIOUS
    <2> HIDE DEF W
    <2> QED  BY <2>1, <2>2
<1>4. \E f : f = F(f)
    <2> HIDE DEF W
    <2> QED  BY <1>3
<1> HIDE DEF W
<1>5. Ancestors = CHOOSE f : f = F(f)
    BY DEF Ancestors
<1>6. Ancestors = F(Ancestors)
    BY <1>4, <1>5
<1> QED  BY <1>6

LEMMA AncestorsStep ==
    ASSUME NEW k \in Nat
    PROVE  /\ k <= 1 => Ancestors[k] = {}
           /\ k > 1 => /\ k \div 2 \in 1 .. k - 1
                       /\ \A a : a \in Ancestors[k] <=>
                                     a = k \div 2 \/ a \in Ancestors[k \div 2]
<1>1. k > 1 => ~(k <= 1) /\ k \div 2 \in 1 .. k - 1
    OBVIOUS
<1> QED  BY <1>1, AncestorsDef

LEMMA AncestorsBelow ==
    \A k \in Nat : Ancestors[k] \subseteq 1 .. k - 1
<1> DEFINE S == {k \in Nat : Ancestors[k] \subseteq 1 .. k - 1}
<1>1. ASSUME NEW k \in Nat, \A j \in 0 .. k - 1 : j \in S
      PROVE  Ancestors[k] \subseteq 1 .. k - 1
    <2>1. CASE k <= 1
        BY <2>1, AncestorsStep
    <2>2. CASE k > 1
        <3>1. k \div 2 \in 1 .. k - 1
            BY <2>2
        <3>2. Ancestors[k \div 2] \subseteq 1 .. (k \div 2) - 1
            BY <1>1, <3>1
        <3> QED  BY <2>2, <3>1, <3>2, AncestorsStep
    <2> QED  BY <2>1, <2>2
<1>2. \A k \in Nat : k \in S
    <2>1. \A k \in Nat : (\A j \in 0 .. k - 1 : j \in S) => k \in S
        BY <1>1
    <2> HIDE DEF S
    <2> QED  BY <2>1, CompleteInduction
<1> QED  BY <1>2

(* The nodes above k: a line from k to the root.                           *)
UpFrom(k) == {k} \cup Ancestors[k]

LEMMA UpFromClosed ==
    ASSUME NEW k \in Nat \ {0}, NEW a \in UpFrom(k)
    PROVE  /\ a \in 1 .. k
           /\ a > 1 => a \div 2 \in Ancestors[k]
           /\ a # k => \E b \in UpFrom(k) : b > 1 /\ b \div 2 = a
           /\ \A b \in UpFrom(k) : a < b => a \in Ancestors[b] /\ a <= b \div 2
<1> DEFINE P(n, x) ==
              /\ x > 1 => x \div 2 \in Ancestors[n]
              /\ x # n => \E b \in UpFrom(n) : b > 1 /\ b \div 2 = x
              /\ \A b \in UpFrom(n) : x < b => x \in Ancestors[b] /\ x <= b \div 2
           S == {n \in Nat : n > 0 => \A x \in UpFrom(n) : P(n, x)}
<1>1. \A n \in Nat : n > 0 => UpFrom(n) \subseteq 1 .. n
    BY AncestorsBelow DEF UpFrom
<1>2. ASSUME NEW n \in Nat, \A m \in 0 .. n - 1 : m \in S, n > 0, NEW x \in UpFrom(n)
      PROVE  P(n, x)
    <2>1. CASE n = 1
        <3>1. UpFrom(n) = {1}
            BY <2>1, AncestorsStep DEF UpFrom
        <3> QED  BY <2>1, <3>1
    <2>2. CASE n > 1
        <3> DEFINE h == n \div 2
        <3>1. h \in 1 .. n - 1 /\ h \in Nat
            BY <2>2
        <3>2. Ancestors[n] = UpFrom(h)
            BY <2>2, AncestorsStep DEF UpFrom
        <3>3. UpFrom(n) = {n} \cup UpFrom(h) /\ UpFrom(h) \subseteq 1 .. h
            BY <1>1, <3>1, <3>2 DEF UpFrom
        <3>4. \A y \in UpFrom(h) : P(h, y)
            BY <1>2, <3>1
        <3> HIDE DEF h
        <3>5. CASE x = n
            <4>1. \A b \in UpFrom(n) : ~(x < b)
                BY <1>1, <1>2, <3>5
            <4>2. x \div 2 \in Ancestors[n]
                BY <3>2, <3>5 DEF h, UpFrom
            <4> QED  BY <3>5, <4>1, <4>2
        <3>6. CASE x \in UpFrom(h)
            <4>1. x > 1 => x \div 2 \in Ancestors[n]
                BY <3>2, <3>4, <3>6 DEF UpFrom
            <4>2. \E b \in UpFrom(n) : b > 1 /\ b \div 2 = x
                <5>1. CASE x = h
                    BY <2>2, <3>3, <5>1 DEF h
                <5>2. CASE x # h
                    BY <3>3, <3>4, <3>6, <5>2
                <5> QED  BY <5>1, <5>2
            <4>3. ASSUME NEW b \in UpFrom(n), x < b
                  PROVE  x \in Ancestors[b] /\ x <= b \div 2
                <5>1. CASE b = n
                    BY <3>2, <3>3, <3>6, <5>1 DEF h
                <5>2. CASE b \in UpFrom(h)
                    BY <3>4, <3>6, <4>3, <5>2
                <5> QED  BY <3>3, <5>1, <5>2
            <4> QED  BY <4>1, <4>2, <4>3
        <3> QED  BY <3>3, <3>5, <3>6
    <2> QED  BY <1>2, <2>1, <2>2
<1>3. k \in S
    <2>1. \A n \in Nat : (\A m \in 0 .. n - 1 : m \in S) => n \in S
        <3> HIDE DEF P
        <3> QED  BY <1>2
    <2> HIDE DEF S
    <2> QED  BY <2>1, CompleteInduction
<1> QED  BY <1>1, <1>3

---------------------------------------------------------------------------
(* The heap: whatever the hole, sifting gives a queue of the given size.   *)

LEMMA SiftUpType ==
    ASSUME NEW q \in Seq(QueueEntry), NEW size \in Nat, NEW hole,
           NEW e \in QueueEntry,
           size <= Len(q) \/ (size = Len(q) + 1 /\ hole = size)
    PROVE  SiftUp(q, size, hole, e) \in Seq(QueueEntry)
<1> DEFINE above == {k \in 1 .. size : k = hole \/ k \in Ancestors[hole]}
           stops == {k \in above : k # hole /\ ~Later(q[k], e)}
           path == {k \in above : \A s \in stops : k > s}
           val(k) == IF k \notin path THEN q[k]
                     ELSE IF k \div 2 \in path THEN q[k \div 2] ELSE e
<1>1. ASSUME NEW k \in 1 .. size
      PROVE  val(k) \in QueueEntry
    <2>1. ASSUME NEW j \in 1 .. size, j <= Len(q)
          PROVE  q[j] \in QueueEntry
        BY <2>1
    <2>2. CASE k \notin path
        <3>1. size = Len(q) + 1 /\ hole = size => hole \in path
            <4> SUFFICES ASSUME size = Len(q) + 1, hole = size
                         PROVE  hole \in path
                OBVIOUS
            <4>1. hole \in above
                OBVIOUS
            <4>2. \A s \in stops : s \in 1 .. hole - 1
                BY AncestorsBelow
            <4> QED  BY <4>1, <4>2
        <3>2. k <= Len(q)
            BY <2>2, <3>1
        <3> QED  BY <2>1, <2>2, <3>2
    <2>3. CASE k \in path /\ k \div 2 \in path
        <3>1. k \div 2 \in 1 .. size /\ k \div 2 < k
            BY <2>3
        <3> QED  BY <2>1, <2>3, <3>1
    <2>4. CASE k \in path /\ k \div 2 \notin path
        BY <2>4
    <2> QED  BY <2>2, <2>3, <2>4
<1>2. SiftUp(q, size, hole, e) = [k \in 1 .. size |-> val(k)]
    BY DEF SiftUp
<1> HIDE DEF val
<1> QED  BY <1>1, <1>2

LEMMA SiftDownType ==
    ASSUME NEW q \in Seq(QueueEntry), NEW size \in Nat, NEW hole,
           NEW e \in QueueEntry, size <= Len(q)
    PROVE  SiftDown(q, size, hole, e) \in Seq(QueueEntry)
<1> DEFINE moves(k) == EarlierChild(q, k) /\ Later(e, q[k])
           path == {k \in 1 .. size :
                       \/ k = hole
                       \/ /\ hole \in Ancestors[k]
                          /\ moves(k)
                          /\ \A a \in Ancestors[k] : a > hole => moves(a)}
           below(k) == {j \in path : j \div 2 = k /\ j # hole}
           val(k) == IF k \notin path THEN q[k]
                     ELSE IF below(k) # {} THEN q[CHOOSE j \in below(k) : TRUE]
                     ELSE e
<1>1. ASSUME NEW k \in 1 .. size
      PROVE  val(k) \in QueueEntry
    <2>1. \A j \in 1 .. size : q[j] \in QueueEntry
        OBVIOUS
    <2>2. path \subseteq 1 .. size
        OBVIOUS
    <2>3. below(k) # {} => (CHOOSE j \in below(k) : TRUE) \in 1 .. size
        <3> HIDE DEF path
        <3> QED  BY <2>2
    <2> HIDE DEF path, below
    <2> QED  BY <2>1, <2>3
<1>2. SiftDown(q, size, hole, e) = [k \in 1 .. size |-> val(k)]
    BY DEF SiftDown
<1> HIDE DEF val
<1> QED  BY <1>1, <1>2

LEMMA EnqueueType ==
    ASSUME NEW q \in Seq(QueueEntry), NEW e \in QueueEntry
    PROVE  Enqueue(q, e) \in Seq(QueueEntry)
BY SiftUpType DEF Enqueue

(* Even for an index that is not in the queue.                             *)
LEMMA DequeueType ==
    ASSUME NEW q \in Seq(QueueEntry), NEW i
    PROVE  Dequeue(q, i) \in Seq(QueueEntry)
<1>1. CASE q = << >>
    <2>1. \A e : SiftUp(q, Len(q) - 1, i, e) = << >>
        BY <1>1 DEF SiftUp
    <2>2. \A e : SiftDown(q, Len(q) - 1, i, e) = << >>
        BY <1>1 DEF SiftDown
    <2>3. << >> \in Seq(QueueEntry)
        OBVIOUS
    <2> QED  BY <2>1, <2>2, <2>3, Zenon DEF Dequeue
<1>2. CASE q # << >>
    <2>1. q[Len(q)] \in QueueEntry /\ Len(q) - 1 \in Nat
        BY <1>2
    <2> QED  BY <2>1, SiftUpType, SiftDownType DEF Dequeue
<1> QED  BY <1>1, <1>2

---------------------------------------------------------------------------
(* The order of the heap.                                                  *)

LEMMA LaterTimes ==
    ASSUME NEW x \in QueueEntry, NEW y \in QueueEntry
    PROVE  /\ Later(x, y) => x.t >= y.t
           /\ ~Later(x, y) => x.t <= y.t
           /\ x.t \in Nat
BY DEF Later, QueueEntry, Msecs

LEMMA QueueEntries ==
    ASSUME NEW q \in Seq(QueueEntry)
    PROVE  /\ DOMAIN q = 1 .. Len(q) /\ Len(q) \in Nat
           /\ \A k \in 1 .. Len(q) : q[k] \in QueueEntry /\ q[k].t \in Nat
           /\ Heap(q) <=> \A k \in 2 .. Len(q) : q[k].t >= q[k \div 2].t
<1>1. DOMAIN q = 1 .. Len(q) /\ Len(q) \in Nat
    OBVIOUS
<1>2. \A k \in 1 .. Len(q) : q[k] \in QueueEntry
    OBVIOUS
<1>3. \A x \in QueueEntry : x.t \in Nat
    BY DEF QueueEntry
<1>4. \A k : k \in DOMAIN q \ {1} <=> k \in 2 .. Len(q)
    BY <1>1
<1> QED  BY <1>1, <1>2, <1>3, <1>4 DEF Heap

(* The first entry of a heap is due in the first second of all.            *)
LEMMA RootFirst ==
    ASSUME NEW q \in Seq(QueueEntry), Heap(q)
    PROVE  \A k \in DOMAIN q : q[1].t <= q[k].t
<1> DEFINE S == {k \in Nat : k \in DOMAIN q => q[1].t <= q[k].t}
<1>1. \A k \in DOMAIN q : q[k] \in QueueEntry /\ q[k].t \in Nat
    BY QueueEntries
<1>2. DOMAIN q = 1 .. Len(q) /\ Len(q) \in Nat
    OBVIOUS
<1>3. ASSUME NEW k \in Nat, \A j \in 0 .. k - 1 : j \in S, k \in DOMAIN q
      PROVE  q[1].t <= q[k].t
    <2>1. CASE k = 1
        BY <1>1, <1>3, <2>1
    <2>2. CASE k # 1
        <3>1. k \div 2 \in 1 .. k - 1
            BY <1>2, <1>3, <2>2
        <3>2. k \div 2 \in DOMAIN q /\ k \div 2 \in S
            BY <1>2, <1>3, <3>1
        <3>3. q[1].t <= q[k \div 2].t /\ q[k \div 2].t <= q[k].t
            BY <1>3, <2>2, <3>2 DEF Heap
        <3>4. 1 \in DOMAIN q
            BY <1>2, <1>3
        <3> HIDE DEF S
        <3> QED  BY <1>1, <1>3, <3>2, <3>3, <3>4
    <2> QED  BY <2>1, <2>2
<1>4. \A k \in Nat : k \in S
    <2>1. \A k \in Nat : (\A j \in 0 .. k - 1 : j \in S) => k \in S
        BY <1>3
    <2> HIDE DEF S
    <2> QED  BY <2>1, CompleteInduction
<1> QED  BY <1>2, <1>4

(* Sifting up fills the hole: with an entry not later than what was there, *)
(* or at the end.                                                          *)
LEMMA SiftUpHeap ==
    ASSUME NEW q \in Seq(QueueEntry), Heap(q), NEW size \in Nat,
           NEW hole \in 1 .. size, NEW e \in QueueEntry,
           \/ size <= Len(q) /\ e.t <= q[hole].t
           \/ size = Len(q) + 1 /\ hole = size
    PROVE  Heap(SiftUp(q, size, hole, e))
<1> DEFINE above == {k \in 1 .. size : k = hole \/ k \in Ancestors[hole]}
           stops == {k \in above : k # hole /\ ~Later(q[k], e)}
           path == {k \in above : \A s \in stops : k > s}
           val(k) == IF k \notin path THEN q[k]
                     ELSE IF k \div 2 \in path THEN q[k \div 2] ELSE e
<1>1. SiftUp(q, size, hole, e) = [k \in 1 .. size |-> val(k)]
    BY DEF SiftUp
<1>2. \A k \in 1 .. Len(q) : q[k] \in QueueEntry /\ q[k].t \in Nat
    BY QueueEntries
<1>3. \A k \in 2 .. Len(q) : q[k].t >= q[k \div 2].t
    BY QueueEntries
<1>4. above = UpFrom(hole) /\ hole \in Nat \ {0}
    BY AncestorsBelow DEF UpFrom
<1>5. \A k \in above : k <= hole /\ (k > 1 => k \div 2 \in above)
    BY <1>4, UpFromClosed DEF UpFrom
<1>6. \A a \in above, b \in above : a < b => a <= b \div 2
    BY <1>4, UpFromClosed
<1>7. \A k \in above : k # hole => k <= Len(q)
    BY <1>5
<1>8. \A k \in above : k # hole /\ k \notin stops => q[k].t >= e.t
    BY <1>2, <1>7, LaterTimes
<1>9. \A s \in stops : q[s].t <= e.t
    BY <1>2, <1>7, LaterTimes
<1>10. e.t \in Nat
    BY DEF QueueEntry
<1>11. path \subseteq above /\ \A k \in path : \A s \in stops : k > s
    OBVIOUS
<1>12. \A k \in above : k \notin path => \E s \in stops : k <= s
    <2>1. above \subseteq Nat /\ stops \subseteq Nat
        OBVIOUS
    <2> QED  BY <2>1
<1>13. stops \subseteq above /\ above \subseteq 1 .. size
    OBVIOUS
<1> HIDE DEF above, stops, path
<1>14. ASSUME NEW k \in 2 .. size
       PROVE  val(k).t >= val(k \div 2).t
    <2> DEFINE p == k \div 2
    <2>1. p \in 1 .. k - 1
        OBVIOUS
    <2>2. CASE p \notin path /\ k \in path
        <3>1. val(k) = e /\ val(p) = q[p]
            BY <2>2
        <3>2. p \in above
            BY <1>5, <1>11, <2>2
        <3>3. PICK s \in stops : p <= s
            BY <1>12, <2>2, <3>2
        <3>4. s < k /\ s \in above
            BY <1>11, <1>13, <2>2, <3>3
        <3>5. s <= p
            BY <1>6, <1>11, <2>2, <3>4
        <3>6. s = p
            BY <1>13, <2>1, <3>3, <3>4, <3>5
        <3>7. q[p].t <= e.t
            BY <1>9, <3>3, <3>6
        <3>8. p <= Len(q)
            BY <1>5, <1>7, <1>11, <2>1, <2>2, <3>2
        <3> QED  BY <1>2, <1>10, <2>1, <3>1, <3>7, <3>8
    <2>3. CASE p \notin path /\ k \notin path
        <3>1. k <= Len(q)
            <4>1. hole \in path \/ stops = {} \/ hole # size \/ size <= Len(q)
                <5>1. \A s \in stops : s < hole
                    BY <1>5, <1>13 DEF stops
                <5> QED  BY <1>4, <5>1 DEF UpFrom, path
            <4>2. hole \in above
                BY <1>4 DEF UpFrom
            <4>3. stops = {} => hole \in path
                BY <4>2 DEF path
            <4> QED  BY <2>3, <4>1, <4>3
        <3> QED  BY <1>3, <2>3, <3>1
    <2>4. CASE p \in path /\ k \in path
        <3>1. p # hole /\ val(k) = q[p]
            BY <1>5, <1>11, <2>1, <2>4
        <3>2. p \in above /\ p \notin stops /\ p <= Len(q)
            BY <1>7, <1>11, <1>13, <2>1, <2>4, <3>1
        <3>3. CASE p \div 2 \in path
            <4>1. val(p) = q[p \div 2] /\ p >= 2
                BY <1>11, <1>13, <2>1, <2>4, <3>3
            <4> QED  BY <1>3, <2>1, <3>1, <3>2, <4>1
        <3>4. CASE p \div 2 \notin path
            <4>1. val(p) = e
                BY <2>4, <3>4
            <4> QED  BY <1>8, <3>1, <3>2, <4>1
        <3> QED  BY <3>3, <3>4
    <2>5. CASE p \in path /\ k \notin path
        <3>1. val(k) = q[k]
            BY <2>5
        <3>2. p \in above /\ p \notin stops /\ p <= hole /\ hole <= size
            BY <1>5, <1>11, <1>13, <2>1, <2>5
        <3>3. k <= Len(q) /\ p <= Len(q)
            <4>1. hole \in path
                <5>1. \A s \in stops : s < hole
                    BY <1>5, <1>13 DEF stops
                <5> QED  BY <1>4, <5>1 DEF UpFrom, path
            <4> QED  BY <2>1, <2>5, <4>1
        <3>4. q[k].t >= q[p].t
            BY <1>3, <3>3
        <3>5. p # hole => q[p].t >= e.t
            BY <1>8, <3>2
        <3>6. p = hole => q[p].t >= e.t
            BY <1>10, <2>1, <3>3
        <3>7. CASE p \div 2 \in path
            <4>1. val(p) = q[p \div 2] /\ p >= 2
                BY <1>11, <1>13, <2>1, <2>5, <3>7
            <4>2. q[p].t >= q[p \div 2].t /\ p \div 2 \in 1 .. Len(q)
                BY <1>3, <2>1, <3>3, <4>1
            <4> QED  BY <1>2, <2>1, <3>1, <3>3, <3>4, <4>1, <4>2
        <3>8. CASE p \div 2 \notin path
            <4>1. val(p) = e
                BY <2>5, <3>8
            <4> QED  BY <1>2, <1>10, <2>1, <3>1, <3>3, <3>4, <3>5, <3>6, <4>1
        <3> QED  BY <3>7, <3>8
    <2> QED  BY <2>2, <2>3, <2>4, <2>5
<1> HIDE DEF val
<1>15. \A k \in 2 .. size : k \div 2 \in 1 .. size
    OBVIOUS
<1> QED  BY <1>1, <1>14, <1>15 DEF Heap

(* Of two children at most one is the earlier one.                         *)
LEMMA OneEarlierChild ==
    ASSUME NEW q, NEW j \in Nat, NEW k \in Nat, j # k, j \div 2 = k \div 2,
           EarlierChild(q, j), EarlierChild(q, k)
    PROVE  FALSE
<1>1. (j % 2 = 0 /\ k = j + 1 /\ k % 2 # 0) \/ (k % 2 = 0 /\ j = k + 1 /\ j % 2 # 0)
    OBVIOUS
<1>2. CASE j % 2 = 0 /\ k = j + 1 /\ k % 2 # 0
    <2>1. k - 1 = j
        BY <1>2
    <2> QED  BY <1>2, <2>1 DEF EarlierChild
<1>3. CASE k % 2 = 0 /\ j = k + 1 /\ j % 2 # 0
    <2>1. j - 1 = k
        BY <1>3
    <2> QED  BY <1>3, <2>1 DEF EarlierChild
<1> QED  BY <1>1, <1>2, <1>3

(* The way an entry takes downward.                                        *)
Moves(q, e, k) == EarlierChild(q, k) /\ Later(e, q[k])
DownPath(q, size, hole, e) ==
    {k \in 1 .. size :
        \/ k = hole
        \/ /\ hole \in Ancestors[k]
           /\ Moves(q, e, k)
           /\ \A a \in Ancestors[k] : a > hole => Moves(q, e, a)}

LEMMA DownPathFacts ==
    ASSUME NEW q, NEW size \in Nat, NEW hole \in Nat \ {0}, NEW e
    PROVE  LET path == DownPath(q, size, hole, e)
           IN  /\ path \subseteq 1 .. size
               /\ \A k \in path : k >= hole
               /\ hole \in path <=> hole <= size
               /\ \A k \in path : k # hole => k \div 2 \in path /\ Moves(q, e, k) /\ k > hole
               /\ \A k \in 1 .. size :
                     k > 1 /\ k \div 2 \in path /\ Moves(q, e, k) => k \in path
               /\ \A j \in path, k \in path :
                     j # hole /\ k # hole /\ j \div 2 = k \div 2 => j = k
<1> DEFINE path == DownPath(q, size, hole, e)
<1>1. path \subseteq 1 .. size
    BY DEF DownPath
<1>2. \A k \in path : k # hole => k > hole /\ Moves(q, e, k)
    BY AncestorsBelow DEF DownPath
<1>3. hole \in path <=> hole <= size
    BY DEF DownPath
<1>4. ASSUME NEW k \in path, k # hole
      PROVE  k \div 2 \in path
    <2>1. k \in Nat /\ k > 1 /\ hole \in Ancestors[k]
        BY <1>1, <1>2, <1>4 DEF DownPath
    <2>2. k \div 2 \in 1 .. size
        BY <1>1, <1>4, <2>1
    <2>3. k \div 2 \in Ancestors[k] /\ Ancestors[k \div 2] \subseteq Ancestors[k]
        BY <2>1, AncestorsStep
    <2>4. CASE k \div 2 = hole
        BY <1>3, <2>2, <2>4
    <2>5. CASE k \div 2 # hole
        <3>1. hole \in Ancestors[k \div 2]
            BY <2>1, <2>5, AncestorsStep
        <3>2. hole < k \div 2
            BY <2>2, <3>1, AncestorsBelow
        <3> QED  BY <1>4, <2>2, <2>3, <3>1, <3>2 DEF DownPath
    <2> QED  BY <2>4, <2>5
<1>5. ASSUME NEW k \in 1 .. size, k > 1, k \div 2 \in path, Moves(q, e, k)
      PROVE  k \in path
    <2>1. \A a : a \in Ancestors[k] <=> a = k \div 2 \/ a \in Ancestors[k \div 2]
        BY <1>5, AncestorsStep
    <2>2. CASE k \div 2 = hole
        <3>1. \A a \in Ancestors[k] : a > hole => FALSE
            BY <2>1, <2>2, AncestorsBelow
        <3> QED  BY <1>5, <2>1, <2>2, <3>1 DEF DownPath
    <2>3. CASE k \div 2 # hole
        BY <1>5, <2>1, <2>3 DEF DownPath
    <2> QED  BY <2>2, <2>3
<1>6. ASSUME NEW j \in path, NEW k \in path, j # hole, k # hole, j \div 2 = k \div 2
      PROVE  j = k
    <2>1. EarlierChild(q, j) /\ EarlierChild(q, k) /\ j \in Nat /\ k \in Nat
        BY <1>1, <1>2, <1>6 DEF Moves
    <2> QED  BY <1>6, <2>1, OneEarlierChild
<1> HIDE DEF path
<1>7. \A k \in path : k >= hole
    BY <1>1, <1>2
<1> QED  BY <1>1, <1>2, <1>3, <1>4, <1>5, <1>6, <1>7 DEF path

(* What sifting downward returns, in these terms.                          *)
LEMMA SiftDownIs ==
    ASSUME NEW q, NEW size \in Nat, NEW hole \in Nat \ {0}, NEW e
    PROVE  LET path == DownPath(q, size, hole, e)
               r == SiftDown(q, size, hole, e)
           IN  /\ DOMAIN r = 1 .. size
               /\ \A k \in 1 .. size : k \notin path => r[k] = q[k]
               /\ \A k \in path, j \in path : j # hole /\ j \div 2 = k => r[k] = q[j]
               /\ \A k \in path : (\A j \in path : j # hole => j \div 2 # k) => r[k] = e
<1> DEFINE path == DownPath(q, size, hole, e)
           below(k) == {j \in path : j \div 2 = k /\ j # hole}
           val(k) == IF k \notin path THEN q[k]
                     ELSE IF below(k) # {} THEN q[CHOOSE j \in below(k) : TRUE]
                     ELSE e
<1>1. SiftDown(q, size, hole, e) = [k \in 1 .. size |-> val(k)]
    BY DEF SiftDown, DownPath, Moves
<1> HIDE DEF path
<1>2. path \subseteq 1 .. size
    BY DownPathFacts DEF path
<1>3. ASSUME NEW k \in path, NEW j \in path, j # hole, j \div 2 = k
      PROVE  val(k) = q[j]
    <2>1. j \in below(k) /\ \A i \in below(k) : i = j
        BY <1>3, DownPathFacts DEF path
    <2>2. (CHOOSE i \in below(k) : TRUE) = j
        <3> HIDE DEF below
        <3> QED  BY <2>1
    <2> QED  BY <2>1, <2>2
<1>4. ASSUME NEW k \in path, \A j \in path : j # hole => j \div 2 # k
      PROVE  val(k) = e
    <2>1. below(k) = {}
        BY <1>4
    <2> QED  BY <2>1
<1>5. \A k \in 1 .. size : k \notin path => val(k) = q[k]
    OBVIOUS
<1> HIDE DEF val
<1> QED  BY <1>1, <1>2, <1>3, <1>4, <1>5 DEF path

(* Sifting the last entry down fills the hole, if it is not due before     *)
(* what was there.                                                         *)
LEMMA SiftDownHeap ==
    ASSUME NEW q \in Seq(QueueEntry), Heap(q), NEW hole \in 1 .. Len(q),
           q[Len(q)].t >= q[hole].t
    PROVE  Heap(SiftDown(q, Len(q) - 1, hole, q[Len(q)]))
<1> DEFINE n == Len(q)
           size == n - 1
           e == q[n]
           path == DownPath(q, size, hole, e)
           r == SiftDown(q, size, hole, e)
           has(k) == \E j \in path : j # hole /\ j \div 2 = k
<1>1. n \in Nat /\ size \in Nat /\ hole \in Nat \ {0} /\ n > 0
    OBVIOUS
<1>2. \A k \in 1 .. n : q[k] \in QueueEntry /\ q[k].t \in Nat
    BY QueueEntries
<1>3. \A k \in 2 .. n : q[k].t >= q[k \div 2].t
    BY QueueEntries
<1>4. e \in QueueEntry /\ e.t \in Nat /\ e.t >= q[hole].t /\ e = q[size + 1]
    BY <1>1, <1>2
<1>5. /\ path \subseteq 1 .. size
      /\ \A k \in path : k # hole =>
            k \div 2 \in path /\ EarlierChild(q, k) /\ Later(e, q[k]) /\ k > hole
      /\ \A k \in path : k >= hole
      /\ \A k \in 1 .. size :
            /\ k > 1 /\ k \div 2 \in path
            /\ EarlierChild(q, k) /\ Later(e, q[k])
            => k \in path
    BY <1>1, DownPathFacts DEF Moves
<1>6. /\ DOMAIN r = 1 .. size
      /\ \A k \in 1 .. size : k \notin path => r[k] = q[k]
      /\ \A k \in path, j \in path : j # hole /\ j \div 2 = k => r[k] = q[j]
      /\ \A k \in path : ~has(k) => r[k] = e
    BY <1>1, SiftDownIs
<1> HIDE DEF path, r, e, size, n
(* What comes to a node of the path is not due before what was there.      *)
<1>7. ASSUME NEW k \in path
      PROVE  r[k].t >= q[k].t /\ r[k].t \in Nat
    <2>1. k \in 1 .. n
        BY <1>1, <1>5 DEF size
    <2>2. CASE has(k)
        <3>1. PICK j \in path : j # hole /\ j \div 2 = k
            BY <2>2
        <3>2. j \in 2 .. n
            BY <1>1, <1>5, <2>1, <3>1 DEF size
        <3>3. r[k] = q[j]
            BY <1>6, <3>1
        <3> QED  BY <1>2, <1>3, <3>1, <3>2, <3>3
    <2>3. CASE ~has(k)
        <3>1. r[k] = e
            BY <1>6, <2>3
        <3>2. k # hole => Later(e, q[k])
            BY <1>5
        <3>3. k # hole => e.t >= q[k].t
            BY <1>2, <1>4, <2>1, <3>2, LaterTimes
        <3> QED  BY <1>2, <1>4, <2>1, <3>1, <3>3
    <2> QED  BY <2>2, <2>3
<1>8. ASSUME NEW k \in 2 .. size
      PROVE  r[k].t >= r[k \div 2].t
    <2> DEFINE p == k \div 2
    <2>1. p \in 1 .. k - 1 /\ p \in 1 .. size /\ p \in 1 .. n /\ k \in 2 .. n
        BY <1>1 DEF size
    <2>2. q[k].t >= q[p].t
        BY <1>3, <2>1
    <2> HIDE DEF p
    <2>3. CASE p \notin path
        <3>1. r[p] = q[p]
            BY <1>6, <2>1, <2>3
        <3>2. k \in path => r[k].t >= q[k].t /\ r[k].t \in Nat
            BY <1>7
        <3>3. k \notin path => r[k] = q[k]
            BY <1>6
        <3> QED  BY <1>2, <2>1, <2>2, <3>1, <3>2, <3>3 DEF p
    <2>4. CASE p \in path /\ k \in path
        <3>1. k # hole
            BY <1>5, <2>1, <2>4
        <3>2. r[p] = q[k]
            BY <1>6, <2>4, <3>1 DEF p
        <3> QED  BY <1>7, <2>4, <3>2 DEF p
    <2>5. CASE p \in path /\ k \notin path
        <3>1. r[k] = q[k]
            BY <1>6, <2>5
        <3>2. CASE has(p)
            <4>1. PICK j \in path : j # hole /\ j \div 2 = p
                BY <3>2
            <4>2. r[p] = q[j] /\ EarlierChild(q, j) /\ j \in 1 .. size /\ j # k
                BY <1>5, <1>6, <2>5, <4>1
            <4>3. \/ j % 2 = 0 /\ k = j + 1
                  \/ j % 2 # 0 /\ k = j - 1
                BY <2>1, <4>1, <4>2 DEF p
            <4>4. ~Later(q[j], q[k]) \/ Later(q[k], q[j])
                BY <4>2, <4>3 DEF EarlierChild
            <4>5. j \in 1 .. n
                BY <1>1, <4>2 DEF size
            <4>6. q[j].t <= q[k].t
                BY <1>2, <2>1, <4>4, <4>5, LaterTimes
            <4> QED  BY <1>2, <2>1, <3>1, <4>2, <4>5, <4>6 DEF p
        <3>3. CASE ~has(p)
            <4>1. r[p] = e
                BY <1>6, <2>5, <3>3
            <4>2. ~(EarlierChild(q, k) /\ Later(e, q[k]))
                BY <1>5, <2>1, <2>5 DEF p
            <4>3. CASE EarlierChild(q, k)
                <5>1. e.t <= q[k].t
                    BY <1>2, <1>4, <2>1, <4>2, <4>3, LaterTimes
                <5> QED  BY <3>1, <4>1, <5>1, <1>2, <1>4, <2>1 DEF p
            <4>4. CASE ~EarlierChild(q, k)
                (* The other child is the earlier one.                     *)
                <5>1. \E j \in 2 .. n :
                          j # k /\ j \div 2 = p /\ EarlierChild(q, j)
                          /\ (~Later(q[j], q[k]) \/ Later(q[k], q[j]))
                    <6>1. CASE k % 2 = 0
                        <7>1. k + 1 \in 2 .. n /\ (k + 1) \div 2 = p /\ (k + 1) % 2 # 0
                              /\ (k + 1) - 1 = k /\ k + 1 # k
                            BY <1>1, <2>1, <6>1 DEF size, p
                        <7>2. Later(q[k], q[k + 1])
                            BY <4>4, <6>1 DEF EarlierChild
                        <7>3. EarlierChild(q, k + 1)
                            BY <7>1, <7>2 DEF EarlierChild
                        <7> QED  BY <7>1, <7>2, <7>3
                    <6>2. CASE k % 2 # 0
                        <7>1. k - 1 \in 2 .. n /\ (k - 1) \div 2 = p /\ (k - 1) % 2 = 0
                              /\ (k - 1) + 1 = k /\ k - 1 # k
                            BY <1>1, <2>1, <6>2 DEF size, p
                        <7>2. ~Later(q[k - 1], q[k])
                            BY <4>4, <6>2 DEF EarlierChild
                        <7>3. EarlierChild(q, k - 1)
                            BY <7>1, <7>2 DEF EarlierChild
                        <7> QED  BY <7>1, <7>2, <7>3
                    <6> QED  BY <6>1, <6>2
                <5>2. PICK j \in 2 .. n :
                          j # k /\ j \div 2 = p /\ EarlierChild(q, j)
                          /\ (~Later(q[j], q[k]) \/ Later(q[k], q[j]))
                    BY <5>1
                <5>3. j \in 1 .. n /\ q[j].t <= q[k].t
                    BY <1>2, <2>1, <5>2, LaterTimes
                <5>4. e.t <= q[j].t
                    <6>1. CASE j = size + 1
                        BY <1>2, <1>4, <5>3, <6>1
                    <6>2. CASE j # size + 1
                        <7>1. j \in 1 .. size /\ j > 1
                            BY <1>1, <5>2, <6>2 DEF size
                        <7>2. j \in Int /\ j \div 2 = p /\ EarlierChild(q, j)
                            BY <1>1, <5>2
                        <7>3. j # hole
                            <8>1. p >= hole /\ p \in Int
                                BY <1>5, <2>1, <2>5
                            <8> QED  BY <1>1, <7>1, <7>2, <8>1
                        <7>4. j \notin path
                            BY <3>3, <7>2, <7>3
                        <7>5. ~Later(e, q[j])
                            BY <1>5, <2>5, <7>1, <7>2, <7>4
                        <7> QED  BY <1>2, <1>4, <5>3, <7>5, LaterTimes
                    <6> QED  BY <6>1, <6>2
                <5> QED  BY <1>2, <1>4, <2>1, <3>1, <4>1, <5>3, <5>4 DEF p
            <4> QED  BY <4>3, <4>4
        <3> QED  BY <3>2, <3>3
    <2> QED  BY <2>3, <2>4, <2>5 DEF p
<1>9. Heap(r)
    BY <1>6, <1>8 DEF Heap
<1> QED  BY <1>9 DEF r, e, size, n

(* A callout that is added, and one that is removed from anywhere in the   *)
(* queue, leave a heap.                                                    *)
LEMMA EnqueueHeap ==
    ASSUME NEW q \in Seq(QueueEntry), Heap(q), NEW e \in QueueEntry
    PROVE  Heap(Enqueue(q, e))
BY SiftUpHeap DEF Enqueue

LEMMA DequeueHeap ==
    ASSUME NEW q \in Seq(QueueEntry), Heap(q), NEW i \in 1 .. Len(q)
    PROVE  Heap(Dequeue(q, i))
<1> DEFINE n == Len(q)
           e == q[n]
<1>1. n \in Nat /\ n - 1 \in Nat /\ n - 1 <= n /\ e \in QueueEntry
    BY QueueEntries
<1>2. q[i].t \in Nat /\ e.t \in Nat
    BY QueueEntries
<1>3. CASE e.t < q[i].t
    <2>1. i \in 1 .. n - 1
        BY <1>1, <1>2, <1>3
    <2>2. Heap(SiftUp(q, n - 1, i, e))
        BY <1>1, <1>2, <1>3, <2>1, SiftUpHeap
    <2> QED  BY <1>3, <2>2 DEF Dequeue
<1>4. CASE ~(e.t < q[i].t)
    <2>1. Heap(SiftDown(q, n - 1, i, e))
        BY <1>2, <1>4, SiftDownHeap
    <2> QED  BY <1>4, <2>1 DEF Dequeue
<1> QED  BY <1>3, <1>4

---------------------------------------------------------------------------
(* The entries of the heap: none is lost and none is doubled.              *)

(* r is q with its first "size" entries, of which e replaces the one in    *)
(* the hole, in some order.                                                *)
Filled(r, q, size, hole, e) ==
    /\ DOMAIN r = 1 .. size
    /\ \A k \in 1 .. size : \/ r[k] = e /\ hole <= size
                            \/ \E j \in 1 .. size : j # hole /\ r[k] = q[j]
    /\ \A j \in 1 .. size : j # hole => \E k \in 1 .. size : r[k] = q[j]
    /\ hole <= size => \E k \in 1 .. size : r[k] = e

LEMMA SiftUpContent ==
    ASSUME NEW q \in Seq(QueueEntry), NEW size \in Nat, NEW hole \in 1 .. size,
           NEW e \in QueueEntry,
           size <= Len(q) \/ (size = Len(q) + 1 /\ hole = size)
    PROVE  Filled(SiftUp(q, size, hole, e), q, size, hole, e)
<1> DEFINE above == {k \in 1 .. size : k = hole \/ k \in Ancestors[hole]}
           stops == {k \in above : k # hole /\ ~Later(q[k], e)}
           path == {k \in above : \A s \in stops : k > s}
           val(k) == IF k \notin path THEN q[k]
                     ELSE IF k \div 2 \in path THEN q[k \div 2] ELSE e
           r == [k \in 1 .. size |-> val(k)]
<1>1. SiftUp(q, size, hole, e) = r
    BY DEF SiftUp
<1>2. above = UpFrom(hole) /\ hole \in Nat \ {0}
    BY AncestorsBelow DEF UpFrom
<1>3. /\ \A k \in above : k \in 1 .. hole
      /\ \A k \in above : k # hole => \E b \in above : b > 1 /\ b \div 2 = k
    BY <1>2, UpFromClosed
<1>4. hole \in path
    <2>1. \A s \in stops : s < hole
        BY <1>3
    <2> QED  BY <1>2, <2>1 DEF UpFrom
<1>5. path \subseteq above /\ above \subseteq 1 .. size /\ stops \subseteq above
      /\ \A k \in path, b \in above : b > k => b \in path
    <2>1. above \subseteq Int /\ stops \subseteq Int
        OBVIOUS
    <2> QED  BY <2>1
<1> HIDE DEF above, stops, path
<1>6. ASSUME NEW k \in 1 .. size
      PROVE  r[k] = e \/ \E j \in 1 .. size : j # hole /\ r[k] = q[j]
    <2>1. CASE k \notin path
        BY <1>4, <2>1
    <2>2. CASE k \in path /\ k \div 2 \in path
        <3>1. k \div 2 \in 1 .. size /\ k \div 2 < k /\ k <= hole
            BY <1>3, <1>5, <2>2
        <3> QED  BY <2>2, <3>1
    <2>3. CASE k \in path /\ k \div 2 \notin path
        BY <2>3
    <2> QED  BY <2>1, <2>2, <2>3
<1>7. ASSUME NEW j \in 1 .. size, j # hole
      PROVE  \E k \in 1 .. size : r[k] = q[j]
    <2>1. CASE j \notin path
        BY <2>1
    <2>2. CASE j \in path
        <3>1. PICK b \in above : b > 1 /\ b \div 2 = j
            BY <1>3, <1>5, <1>7, <2>2
        <3>2. b \in 1 .. size /\ b > j
            BY <1>5, <3>1
        <3>3. b \in path
            BY <1>5, <2>2, <3>2
        <3> QED  BY <2>2, <3>1, <3>2, <3>3
    <2> QED  BY <2>1, <2>2
<1>8. \E k \in 1 .. size : r[k] = e
    <2>1. PICK k \in path : \A j \in path : k <= j
        <3>1. path \in SUBSET Int /\ path # {} /\ 1 \in Int /\ \A x \in path : x >= 1
            BY <1>4, <1>5
        <3> QED  BY <3>1, LeastExists
    <2>2. k \in 1 .. size /\ k \div 2 < k
        BY <1>5
    <2>3. k \div 2 \notin path
        BY <1>5, <2>1, <2>2
    <2> QED  BY <2>1, <2>2, <2>3
<1>9. DOMAIN r = 1 .. size /\ hole <= size
    OBVIOUS
<1> HIDE DEF r
<1> QED  BY <1>1, <1>6, <1>7, <1>8, <1>9 DEF Filled

LEMMA SiftDownContent ==
    ASSUME NEW q \in Seq(QueueEntry), NEW size \in Nat, NEW hole \in 1 .. size + 1,
           NEW e \in QueueEntry
    PROVE  Filled(SiftDown(q, size, hole, e), q, size, hole, e)
<1> DEFINE path == DownPath(q, size, hole, e)
           r == SiftDown(q, size, hole, e)
           has(k) == \E j \in path : j # hole /\ j \div 2 = k
<1>1. hole \in Nat \ {0}
    OBVIOUS
<1>2. /\ path \subseteq 1 .. size
      /\ \A k \in path : k >= hole
      /\ hole \in path <=> hole <= size
      /\ \A k \in path : k # hole => k \div 2 \in path
    BY <1>1, DownPathFacts
<1>3. /\ DOMAIN r = 1 .. size
      /\ \A k \in 1 .. size : k \notin path => r[k] = q[k]
      /\ \A k \in path, j \in path : j # hole /\ j \div 2 = k => r[k] = q[j]
      /\ \A k \in path : ~has(k) => r[k] = e
    BY <1>1, SiftDownIs
<1> HIDE DEF path, r
<1>4. ASSUME NEW k \in 1 .. size
      PROVE  \/ r[k] = e /\ hole <= size
             \/ \E j \in 1 .. size : j # hole /\ r[k] = q[j]
    <2>1. CASE k \notin path
        <3>1. k # hole
            BY <1>2, <2>1
        <3> QED  BY <1>3, <2>1, <3>1
    <2>2. CASE k \in path /\ has(k)
        BY <1>2, <1>3, <2>2
    <2>3. CASE k \in path /\ ~has(k)
        BY <1>2, <1>3, <2>3
    <2> QED  BY <2>1, <2>2, <2>3
<1>5. ASSUME NEW j \in 1 .. size, j # hole
      PROVE  \E k \in 1 .. size : r[k] = q[j]
    <2>1. CASE j \notin path
        BY <1>3, <2>1
    <2>2. CASE j \in path
        BY <1>2, <1>3, <1>5, <2>2
    <2> QED  BY <2>1, <2>2
<1>6. ASSUME hole <= size
      PROVE  \E k \in 1 .. size : r[k] = e
    <2> DEFINE S == {size - k : k \in path}
    <2>1. S \in SUBSET Int /\ S # {} /\ 0 \in Int /\ \A x \in S : x >= 0
        BY <1>2, <1>6
    <2>2. PICK u \in S : \A v \in S : u <= v
        <3> HIDE DEF S
        <3> QED  BY <2>1, LeastExists
    <2>3. PICK k \in path : u = size - k
        BY <2>2
    <2>4. ASSUME NEW j \in path
          PROVE  j <= k /\ j \div 2 < j
        <3>1. j \in 1 .. size /\ k \in 1 .. size
            BY <1>2
        <3>2. u <= size - j
            BY <2>2
        <3> QED  BY <2>3, <3>1, <3>2
    <2>5. \A j \in path : j # hole => j \div 2 # k
        <3>1. \A j \in path : j \in 1 .. size
            BY <1>2
        <3> QED  BY <1>2, <2>4, <3>1
    <2> QED  BY <1>2, <1>3, <2>5
<1> QED  BY <1>3, <1>4, <1>5, <1>6 DEF r, Filled

(* What is in the queue after a callout has been added or removed.         *)
Enqueued(r, q, e) ==
    /\ r \in Seq(QueueEntry) /\ Len(r) = Len(q) + 1
    /\ \A k \in 1 .. Len(r) : r[k] = e \/ \E j \in 1 .. Len(q) : r[k] = q[j]
    /\ \A j \in 1 .. Len(q) : \E k \in 1 .. Len(r) : r[k] = q[j]
    /\ \E k \in 1 .. Len(r) : r[k] = e

Dequeued(r, q, i) ==
    /\ r \in Seq(QueueEntry) /\ Len(r) = Len(q) - 1
    /\ \A k \in 1 .. Len(r) : \E j \in 1 .. Len(q) : j # i /\ r[k] = q[j]
    /\ \A j \in 1 .. Len(q) : j # i => \E k \in 1 .. Len(r) : r[k] = q[j]

LEMMA EnqueueContent ==
    ASSUME NEW q \in Seq(QueueEntry), NEW e \in QueueEntry
    PROVE  Enqueued(Enqueue(q, e), q, e)
<1> DEFINE r == Enqueue(q, e)
           n == Len(q)
<1>1. n \in Nat /\ n + 1 \in Nat /\ n + 1 \in 1 .. n + 1 /\ n = Len(q)
    OBVIOUS
<1>2. r \in Seq(QueueEntry) /\ r = SiftUp(q, n + 1, n + 1, e)
    BY EnqueueType DEF Enqueue
<1> HIDE DEF r, n
<1>3. Filled(r, q, n + 1, n + 1, e)
    BY <1>1, <1>2, SiftUpContent
<1>4. Len(r) = n + 1
    BY <1>1, <1>2, <1>3 DEF Filled
<1>5. \A j : j \in 1 .. n + 1 /\ j # n + 1 <=> j \in 1 .. n
    BY <1>1
<1>6. \A k \in 1 .. n + 1 : r[k] = e \/ \E j \in 1 .. n : r[k] = q[j]
    BY <1>3, <1>5 DEF Filled
<1>7. \A j \in 1 .. n : \E k \in 1 .. n + 1 : r[k] = q[j]
    BY <1>3, <1>5 DEF Filled
<1>8. \E k \in 1 .. n + 1 : r[k] = e
    <2>1. n + 1 <= n + 1
        BY <1>1
    <2> QED  BY <1>3, <2>1 DEF Filled
<1>9. Enqueued(r, q, e)
    BY <1>1, <1>2, <1>4, <1>6, <1>7, <1>8, SMTT(30) DEF Enqueued
<1> QED  BY <1>9 DEF r

LEMMA DequeueContent ==
    ASSUME NEW q \in Seq(QueueEntry), NEW i \in 1 .. Len(q)
    PROVE  Dequeued(Dequeue(q, i), q, i)
<1> DEFINE n == Len(q)
           e == q[n]
           r == Dequeue(q, i)
<1>1. n \in Nat /\ n - 1 \in Nat /\ n \in 1 .. n /\ i \in 1 .. n /\ e \in QueueEntry
      /\ n = Len(q) /\ e = q[n]
    BY QueueEntries
<1>2. (r = SiftUp(q, n - 1, i, e) /\ e.t < q[i].t) \/ r = SiftDown(q, n - 1, i, e)
    BY DEF Dequeue
<1>3. r \in Seq(QueueEntry)
    BY DequeueType
<1>4. q[i].t \in Nat /\ e.t \in Nat
    BY QueueEntries
<1> HIDE DEF r, e, n
<1>5. Filled(r, q, n - 1, i, e)
    <2>1. CASE r = SiftUp(q, n - 1, i, e) /\ e.t < q[i].t
        <3>1. i # n
            BY <1>1, <1>4, <2>1
        <3>2. i \in 1 .. n - 1 /\ n - 1 <= Len(q)
            BY <1>1, <3>1
        <3> QED  BY <1>1, <2>1, <3>2, SiftUpContent
    <2>2. CASE r = SiftDown(q, n - 1, i, e)
        <3>1. i \in 1 .. (n - 1) + 1
            BY <1>1
        <3> QED  BY <1>1, <2>2, <3>1, SiftDownContent
    <2> QED  BY <1>2, <2>1, <2>2
<1>6. Len(r) = n - 1
    <2>1. DOMAIN r = 1 .. n - 1
        BY <1>5 DEF Filled
    <2> QED  BY <1>1, <1>3, <2>1
<1>7. \A j \in 1 .. n : j \in 1 .. n - 1 \/ j = n
    BY <1>1
<1>8. \A k \in 1 .. n - 1 : k \in 1 .. n /\ k # n
    BY <1>1
<1>9. i <= n - 1 <=> i # n
    BY <1>1
<1>10. \A k \in 1 .. Len(r) : \E j \in 1 .. n : j # i /\ r[k] = q[j]
    BY <1>1, <1>5, <1>6, <1>8, <1>9 DEF Filled
<1>11. \A j \in 1 .. n : j # i => \E k \in 1 .. Len(r) : r[k] = q[j]
    BY <1>1, <1>5, <1>6, <1>7, <1>9 DEF Filled
<1> QED  BY <1>1, <1>3, <1>6, <1>10, <1>11 DEF r, Dequeued

(* As many values as a one-to-one function has, taken by a sequence of     *)
(* that length, are taken once each.                                       *)
OneToOne(f, S) == \A x \in S, y \in S : f[x] = f[y] => x = y
SameValues(f, S, g, D) ==
    /\ \A k \in S : \E x \in D : f[k] = g[x]
    /\ \A x \in D : \E k \in S : f[k] = g[x]

LEMMA OntoIsOneToOne ==
    ASSUME NEW n \in Nat, NEW D, IsFiniteSet(D), Cardinality(D) = n,
           NEW f, NEW g, OneToOne(g, D), SameValues(f, 1 .. n, g, D)
    PROVE  OneToOne(f, 1 .. n)
<1> DEFINE T == {g[x] : x \in D}
           gg == [x \in D |-> g[x]]
           ff == [k \in 1 .. n |-> f[k]]
<1>1. gg \in Bijection(D, T)
    BY DEF Bijection, Injection, IsInjective, Surjection, OneToOne
<1>2. IsFiniteSet(T) /\ Cardinality(T) = n
    <2>1. ExistsBijection(D, T)
        BY <1>1 DEF ExistsBijection
    <2> HIDE DEF T
    <2> QED  BY <2>1, FS_Bijection
<1>3. ff \in Surjection(1 .. n, T)
    <2>1. \A k \in 1 .. n : ff[k] \in T
        BY DEF SameValues
    <2>2. \A y \in T : \E k \in 1 .. n : ff[k] = y
        BY DEF SameValues
    <2>3. ff \in [1 .. n -> T]
        <3> HIDE DEF T
        <3> QED  BY <2>1
    <2> HIDE DEF T, ff
    <2> QED  BY <2>2, <2>3 DEF Surjection
<1>4. IsFiniteSet(1 .. n) /\ Cardinality(1 .. n) = n
    <2>1. IsFiniteSet(1 .. n) /\ Cardinality(1 .. n) = IF 1 > n THEN 0 ELSE n - 1 + 1
        BY FS_Interval
    <2> QED  BY <2>1
<1>5. ff \in Injection(1 .. n, T)
    <2> HIDE DEF ff, T
    <2> QED  BY <1>2, <1>3, <1>4, FS_SurjSameCardinalityImpliesInj
<1>6. \A j \in 1 .. n, k \in 1 .. n : ff[j] = ff[k] => j = k
    <2> HIDE DEF ff, T
    <2> QED  BY <1>5 DEF Injection, IsInjective
<1> QED  BY <1>6 DEF OneToOne

(* Each callout is in the queue at most once.                              *)
Once(q) == \A j \in 1 .. Len(q), k \in 1 .. Len(q) : q[j].co = q[k].co => j = k

LEMMA EnqueueOnce ==
    ASSUME NEW q \in Seq(QueueEntry), Once(q), NEW e \in QueueEntry,
           \A j \in 1 .. Len(q) : q[j].co # e.co,
           NEW r, Enqueued(r, q, e)
    PROVE  Once(r)
<1> DEFINE n == Len(q)
           D == 1 .. n + 1
           g == [j \in D |-> IF j = n + 1 THEN e.co ELSE q[j].co]
           f == [k \in 1 .. n + 1 |-> r[k].co]
<1>1. n \in Nat /\ n + 1 \in Nat /\ n = Len(q) /\ Len(r) = n + 1
    BY DEF Enqueued
<1>2. \A j \in D : j \in 1 .. n \/ j = n + 1
    BY <1>1
<1>3. OneToOne(g, D)
    BY <1>2 DEF Once, OneToOne
<1>4. \A j \in 1 .. n : j \in D /\ g[j] = q[j].co
    BY <1>1
<1>5. n + 1 \in D /\ g[n + 1] = e.co
    BY <1>1
<1>6. \A k \in 1 .. n + 1 : f[k] = r[k].co
    OBVIOUS
<1>7. IsFiniteSet(D) /\ Cardinality(D) = n + 1
    <2>1. /\ IsFiniteSet(1 .. n + 1)
          /\ Cardinality(1 .. n + 1) = IF 1 > n + 1 THEN 0 ELSE (n + 1) - 1 + 1
        BY <1>1, FS_Interval
    <2> QED  BY <1>1, <2>1
<1>8. /\ \A k \in 1 .. n + 1 : r[k] = e \/ \E j \in 1 .. n : r[k] = q[j]
      /\ \A j \in 1 .. n : \E k \in 1 .. n + 1 : r[k] = q[j]
      /\ \E k \in 1 .. n + 1 : r[k] = e
    BY <1>1 DEF Enqueued
<1> HIDE DEF n, D, g, f
<1>9. ASSUME NEW k \in 1 .. n + 1
      PROVE  \E x \in D : f[k] = g[x]
    BY <1>4, <1>5, <1>6, <1>8
<1>10. ASSUME NEW x \in D
       PROVE  \E k \in 1 .. n + 1 : f[k] = g[x]
    <2>1. PICK k \in 1 .. n + 1 : IF x = n + 1 THEN r[k] = e ELSE r[k] = q[x]
        BY <1>2, <1>8
    <2>2. f[k] = g[x]
        BY <1>2, <1>4, <1>5, <1>6, <2>1
    <2> QED  BY <2>2
<1>11. SameValues(f, 1 .. n + 1, g, D)
    BY <1>9, <1>10 DEF SameValues
<1>12. OneToOne(f, 1 .. n + 1)
    BY <1>1, <1>3, <1>7, <1>11, OntoIsOneToOne
<1> QED  BY <1>1, <1>6, <1>12 DEF Once, OneToOne

LEMMA DequeueOnce ==
    ASSUME NEW q \in Seq(QueueEntry), Once(q), NEW i \in 1 .. Len(q),
           NEW r, Dequeued(r, q, i)
    PROVE  /\ Once(r)
           /\ \A k \in 1 .. Len(r) : r[k].co # q[i].co
<1> DEFINE n == Len(q)
           D == (1 .. n) \ {i}
           g == [j \in 1 .. n |-> q[j].co]
           f == [k \in 1 .. n - 1 |-> r[k].co]
<1>1. n \in Nat /\ n - 1 \in Nat /\ n = Len(q) /\ Len(r) = n - 1 /\ i \in 1 .. n
    BY DEF Dequeued
<1>2. \A j \in D : g[j] = q[j].co /\ j \in 1 .. n /\ j # i
    OBVIOUS
<1>3. OneToOne(g, D)
    BY DEF Once, OneToOne
<1>4. \A k \in 1 .. n - 1 : f[k] = r[k].co
    OBVIOUS
<1>5. IsFiniteSet(D) /\ Cardinality(D) = n - 1
    <2>1. IsFiniteSet(1 .. n) /\ Cardinality(1 .. n) = IF 1 > n THEN 0 ELSE n - 1 + 1
        BY <1>1, FS_Interval
    <2>2. IsFiniteSet(1 .. n) /\ Cardinality(1 .. n) = n
        BY <1>1, <2>1
    <2> QED  BY <1>1, <2>2, FS_RemoveElement
<1>6. \A j \in 1 .. n : j # i => j \in D
    OBVIOUS
<1>7. /\ \A k \in 1 .. n - 1 : \E j \in 1 .. n : j # i /\ r[k] = q[j]
      /\ \A j \in 1 .. n : j # i => \E k \in 1 .. n - 1 : r[k] = q[j]
    BY <1>1 DEF Dequeued
<1> HIDE DEF n, D, g, f
<1>8. ASSUME NEW k \in 1 .. n - 1
      PROVE  \E x \in D : f[k] = g[x]
    <2>1. PICK j \in 1 .. n : j # i /\ r[k] = q[j]
        BY <1>7
    <2>2. j \in D /\ f[k] = g[j]
        BY <1>2, <1>4, <1>6, <2>1
    <2> QED  BY <2>2
<1>9. ASSUME NEW x \in D
      PROVE  \E k \in 1 .. n - 1 : f[k] = g[x]
    <2>1. PICK k \in 1 .. n - 1 : r[k] = q[x]
        BY <1>2, <1>7
    <2> QED  BY <1>2, <1>4, <2>1
<1>10. SameValues(f, 1 .. n - 1, g, D)
    BY <1>8, <1>9 DEF SameValues
<1>11. OneToOne(f, 1 .. n - 1)
    BY <1>1, <1>3, <1>5, <1>10, OntoIsOneToOne
<1>12. \A k \in 1 .. Len(r) : r[k].co # q[i].co
    BY <1>1 DEF Dequeued, Once
<1> QED  BY <1>1, <1>4, <1>11, <1>12 DEF Once, OneToOne

---------------------------------------------------------------------------
(* The table: of the right type, and counted.                              *)

Good(tab) == tab \in Table /\ CountsLists(tab)

---------------------------------------------------------------------------
(* Arithmetic.                                                             *)

(* Every second has a slot, and every slot has a second within one round   *)
(* of the cyclic buffer from t on.                                         *)
LEMMA SlotOfSecond ==
    ASSUME NEW t \in Nat
    PROVE  Slot(t) \in Slots
BY TableAssumption DEF Slot, Slots

LEMMA RemainderUnique ==
    ASSUME NEW n \in Nat, n > 0, NEW q \in Nat, NEW s \in 0 .. n - 1
    PROVE  (q * n + s) % n = s
<1> DEFINE v == q * n + s
           r == v % n
           d == v \div n
<1>1. q * n \in Nat
    OBVIOUS
<1>2. r \in 0 .. n - 1 /\ d \in Nat /\ v = d * n + r
    BY <1>1
<1>3. d = q
    <2>1. CASE d > q
        <3>1. PICK e \in Nat : d = q + 1 + e
            <4>1. d - q - 1 \in Nat /\ d = q + 1 + (d - q - 1)
                BY <1>2, <2>1
            <4> QED  BY <4>1
        <3>2. d * n = q * n + n + e * n /\ e * n \in Nat
            BY <3>1
        <3> QED  BY <1>1, <1>2, <3>2
    <2>2. CASE d < q
        <3>1. PICK e \in Nat : q = d + 1 + e
            <4>1. q - d - 1 \in Nat /\ q = d + 1 + (q - d - 1)
                BY <1>2, <2>2
            <4> QED  BY <4>1
        <3>2. q * n = d * n + n + e * n /\ e * n \in Nat /\ d * n \in Nat
            BY <1>2, <3>1
        <3> QED  BY <1>1, <1>2, <3>2
    <2> QED  BY <1>2, <2>1, <2>2
<1> QED  BY <1>1, <1>2, <1>3

LEMMA SecondOfSlot ==
    ASSUME NEW t \in Nat, NEW s \in Slots
    PROVE  \E u \in t .. t + CYCBUF_SIZE - 1 : Slot(u) = s
<1> DEFINE N == CYCBUF_SIZE
           r == t % N
           q == t \div N
<1>1. N \in Nat /\ N > 0
    BY TableAssumption
<1>2. r \in 0 .. N - 1 /\ t = q * N + r /\ q \in Nat
    BY <1>1
<1>3. s \in 0 .. N - 1
    BY DEF Slots
<1>4. CASE s >= r
    <2>1. t + (s - r) = q * N + s
        BY <1>1, <1>2, <1>3
    <2>2. (q * N + s) % N = s
        BY <1>1, <1>2, <1>3, RemainderUnique
    <2>3. t + (s - r) \in t .. t + N - 1
        BY <1>1, <1>2, <1>3, <1>4
    <2> QED  BY <2>1, <2>2, <2>3 DEF Slot
<1>5. CASE s < r
    <2>1. t + (s - r) + N = (q + 1) * N + s
        BY <1>1, <1>2, <1>3
    <2>2. ((q + 1) * N + s) % N = s
        BY <1>1, <1>2, <1>3, RemainderUnique, SMTT(30)
    <2>3. t + (s - r) + N \in t .. t + N - 1
        BY <1>1, <1>2, <1>3, <1>5
    <2> QED  BY <2>1, <2>2, <2>3 DEF Slot
<1> QED  BY <1>2, <1>3, <1>4, <1>5

---------------------------------------------------------------------------
(* Counting the elements of the slots.                                     *)

AllLists == [Lists -> Seq(Element)]

LEMMA UpToFinite ==
    ASSUME NEW n \in Nat
    PROVE  IsFiniteSet(1 .. n) /\ Cardinality(1 .. n) = n
<1>1. IsFiniteSet(1 .. n) /\ Cardinality(1 .. n) = IF 1 > n THEN 0 ELSE n - 1 + 1
    BY FS_Interval
<1> QED  BY <1>1

LEMMA SlotEntriesFinite ==
    ASSUME NEW list \in AllLists
    PROVE  /\ IsFiniteSet(SlotEntries(list))
           /\ InSlots(list) \in Nat /\ NotInSlots(list) \in Nat
<1> DEFINE part(s) == {s} \X DOMAIN list[s]
           parts == {part(s) : s \in Slots}
           f == [s \in Slots |-> part(s)]
<1>1. IsFiniteSet(Slots)
    BY TableAssumption, FS_Interval DEF Slots
<1>2. f \in Surjection(Slots, parts)
    BY DEF Surjection
<1>3. IsFiniteSet(parts)
    BY <1>1, <1>2, FS_Surjection
<1>4. ASSUME NEW s \in Slots
      PROVE  IsFiniteSet(part(s))
    <2>1. DOMAIN list[s] = 1 .. Len(list[s]) /\ Len(list[s]) \in Nat
        BY DEF AllLists, Lists
    <2>2. IsFiniteSet(DOMAIN list[s])
        BY <2>1, UpToFinite
    <2>3. IsFiniteSet({s})
        BY FS_Singleton
    <2> QED  BY <2>2, <2>3, FS_Product
<1>5. IsFiniteSet(UNION parts)
    <2>1. \A T \in parts : IsFiniteSet(T)
        BY <1>4
    <2> HIDE DEF parts
    <2> QED  BY <1>3, <2>1, FS_UNION
<1>6. IsFiniteSet(SlotEntries(list))
    BY <1>5 DEF SlotEntries
<1>7. NotInSlots(list) \in Nat
    BY TableAssumption DEF NotInSlots, AllLists, Lists, Immediate, Running
<1> QED  BY <1>6, <1>7, FS_CardinalityType DEF InSlots

LEMMA SlotEntriesAre ==
    ASSUME NEW list \in AllLists
    PROVE  SlotEntries(list) =
               {e \in Slots \X Nat : e[2] \in 1 .. Len(list[e[1]])}
<1>1. \A s \in Slots : DOMAIN list[s] = 1 .. Len(list[s]) /\ Len(list[s]) \in Nat
    BY DEF AllLists, Lists
<1>2. ASSUME NEW e \in SlotEntries(list)
      PROVE  e \in Slots \X Nat /\ e[2] \in 1 .. Len(list[e[1]])
    <2>1. PICK s \in Slots : e \in {s} \X DOMAIN list[s]
        BY DEF SlotEntries
    <2> QED  BY <1>1, <2>1
<1>3. ASSUME NEW e \in Slots \X Nat, e[2] \in 1 .. Len(list[e[1]])
      PROVE  e \in SlotEntries(list)
    <2>1. e[1] \in Slots /\ e \in {e[1]} \X DOMAIN list[e[1]]
        BY <1>1, <1>3
    <2> QED  BY <2>1 DEF SlotEntries
<1> QED  BY <1>2, <1>3

(* Of the slots, only those that differ in length count.                   *)
LEMMA OtherLists ==
    ASSUME NEW list \in AllLists, NEW new \in AllLists,
           \A s \in Slots : Len(new[s]) = Len(list[s])
    PROVE  InSlots(new) = InSlots(list)
<1>1. SlotEntries(new) = SlotEntries(list)
    BY SlotEntriesAre, SMTT(30)
<1> QED  BY <1>1 DEF InSlots

LEMMA SlotGrows ==
    ASSUME NEW list \in AllLists, NEW new \in AllLists, NEW l \in Slots,
           Len(new[l]) = Len(list[l]) + 1,
           \A s \in Slots \ {l} : Len(new[s]) = Len(list[s])
    PROVE  InSlots(new) = InSlots(list) + 1
<1> DEFINE n == Len(list[l])
           x == << l, n + 1 >>
<1>1. n \in Nat /\ \A s \in Slots : Len(list[s]) \in Nat /\ Len(new[s]) \in Nat
    BY DEF AllLists, Lists
<1>2. SlotEntries(new) = SlotEntries(list) \cup {x}
    <2>1. ASSUME NEW e \in Slots \X Nat
          PROVE  e[2] \in 1 .. Len(new[e[1]]) <=>
                     e[2] \in 1 .. Len(list[e[1]]) \/ e = x
        <3>1. CASE e[1] = l
            BY <1>1, <3>1
        <3>2. CASE e[1] # l
            BY <1>1, <3>2
        <3> QED  BY <3>1, <3>2
    <2>2. x \in Slots \X Nat
        BY <1>1
    <2> HIDE DEF x
    <2> QED  BY <2>1, <2>2, SlotEntriesAre
<1>3. x \notin SlotEntries(list)
    BY <1>1, SlotEntriesAre
<1>4. IsFiniteSet(SlotEntries(list))
    BY SlotEntriesFinite
<1>5. Cardinality(SlotEntries(list) \cup {x}) = Cardinality(SlotEntries(list)) + 1
    <2> HIDE DEF x
    <2> QED  BY <1>3, <1>4, FS_AddElement
<1> QED  BY <1>2, <1>5 DEF InSlots

LEMMA SlotEmptied ==
    ASSUME NEW list \in AllLists, NEW new \in AllLists, NEW l \in Slots,
           new[l] = << >>,
           \A s \in Slots \ {l} : Len(new[s]) = Len(list[s])
    PROVE  InSlots(new) = InSlots(list) - Len(list[l])
<1> DEFINE n == Len(list[l])
           gone == {l} \X (1 .. n)
<1>1. n \in Nat /\ \A s \in Slots : Len(list[s]) \in Nat /\ Len(new[s]) \in Nat
    BY DEF AllLists, Lists
<1>2. SlotEntries(list) = SlotEntries(new) \cup gone
    <2>1. ASSUME NEW e \in Slots \X Nat
          PROVE  e[2] \in 1 .. Len(list[e[1]]) <=>
                     e[2] \in 1 .. Len(new[e[1]]) \/ e \in gone
        <3>1. CASE e[1] = l
            BY <1>1, <3>1
        <3>2. CASE e[1] # l
            BY <1>1, <3>2
        <3> QED  BY <3>1, <3>2
    <2>2. gone \subseteq Slots \X Nat
        BY <1>1
    <2> HIDE DEF gone
    <2> QED  BY <2>1, <2>2, SlotEntriesAre
<1>3. SlotEntries(new) \cap gone = {}
    <2>1. ASSUME NEW e \in SlotEntries(new)
          PROVE  e \notin gone
        <3>1. e[2] \in 1 .. Len(new[e[1]]) /\ e \in Slots \X Nat
            BY SlotEntriesAre
        <3>2. e[1] # l
            BY <3>1
        <3> QED  BY <3>2
    <2> QED  BY <2>1
<1>4. IsFiniteSet(gone) /\ Cardinality(gone) = n
    <2>1. IsFiniteSet({l}) /\ Cardinality({l}) = 1
        BY FS_Singleton
    <2>2. IsFiniteSet(1 .. n) /\ Cardinality(1 .. n) = n
        BY <1>1, UpToFinite
    <2>3. IsFiniteSet(gone) /\ Cardinality(gone) = 1 * Cardinality(1 .. n)
        BY <2>1, <2>2, FS_Product
    <2> QED  BY <1>1, <2>2, <2>3
<1>5. IsFiniteSet(SlotEntries(new)) /\ InSlots(new) \in Nat
    BY SlotEntriesFinite
<1>6. Cardinality(SlotEntries(new) \cap gone) = 0
    BY <1>3, FS_EmptySet
<1>7. Cardinality(SlotEntries(new) \cup gone) = InSlots(new) + n
    <2> HIDE DEF gone, n
    <2>1. Cardinality(SlotEntries(new) \cup gone) = InSlots(new) + n - 0
        BY <1>4, <1>5, <1>6, FS_Union DEF InSlots
    <2> QED  BY <1>1, <1>5, <2>1
<1>8. InSlots(list) = InSlots(new) + n
    BY <1>2, <1>7 DEF InSlots
<1> QED  BY <1>1, <1>5, <1>8

(* If the slots hold something, some slot is in use, and the search for    *)
(* the next one from any second on ends within one round.                  *)
LEMMA NextTimeoutFound ==
    ASSUME NEW list \in AllLists, InSlots(list) # 0, NEW t \in Nat
    PROVE  /\ NextTimeout(list, t) \in t .. t + CYCBUF_SIZE - 1
           /\ list[Slot(NextTimeout(list, t))] # << >>
<1> DEFINE Used == {u \in t .. t + CYCBUF_SIZE - 1 : list[Slot(u)] # << >>}
           next(u) == /\ list[Slot(u)] # << >>
                      /\ \A v \in t .. u - 1 : list[Slot(v)] = << >>
<1>1. CYCBUF_SIZE \in Nat
    BY TableAssumption
<1>2. SlotEntries(list) # {}
    BY FS_EmptySet DEF InSlots
<1>3. PICK s \in Slots : list[s] # << >>
    <2>1. PICK e \in SlotEntries(list) : TRUE
        BY <1>2
    <2>2. e[1] \in Slots /\ e[2] \in 1 .. Len(list[e[1]])
        BY SlotEntriesAre
    <2>3. list[e[1]] # << >>
        BY <2>2
    <2> QED  BY <2>2, <2>3
<1>4. Used \subseteq Int /\ Used # {} /\ \A u \in Used : u >= t
    <2>1. PICK u \in t .. t + CYCBUF_SIZE - 1 : Slot(u) = s
        BY SecondOfSlot
    <2>2. u \in Used
        BY <1>3, <2>1
    <2> QED  BY <1>1, <2>2
<1>5. PICK u \in Used : \A v \in Used : u <= v
    <2> HIDE DEF Used
    <2> QED  BY <1>4, LeastExists
<1>6. \E w \in t .. t + CYCBUF_SIZE - 1 : next(w)
    <2>1. \A v \in t .. u - 1 : list[Slot(v)] = << >>
        BY <1>1, <1>5
    <2> QED  BY <1>5, <2>1
<1>7. NextTimeout(list, t) = CHOOSE w \in t .. t + CYCBUF_SIZE - 1 : next(w)
    BY DEF NextTimeout
<1> HIDE DEF next
<1>8. /\ NextTimeout(list, t) \in t .. t + CYCBUF_SIZE - 1
      /\ next(NextTimeout(list, t))
    BY <1>6, <1>7
<1> QED  BY <1>8 DEF next

---------------------------------------------------------------------------
(* The lists: a callout is added to one or removed from one.               *)

LEMMA ListNames ==
    /\ Immediate \in Lists /\ Running \in Lists /\ Slots \subseteq Lists
    /\ Immediate \notin Slots /\ Running \notin Slots /\ Immediate # Running
    /\ Queue \notin Lists
BY TableAssumption DEF Slots, Lists, Immediate, Running, Queue

LEMMA EmptyTableGood == Good(EmptyTable)
<1>1. EmptyTable \in Table
    BY TableAssumption DEF EmptyTable, Table, Index
<1>2. EmptyTable.list \in AllLists
    BY <1>1 DEF Table, AllLists
<1>3. SlotEntries(EmptyTable.list) = {}
    BY <1>2, SlotEntriesAre, ListNames DEF EmptyTable
<1>4. InSlots(EmptyTable.list) = 0 /\ NotInSlots(EmptyTable.list) = 0
    BY <1>3, FS_EmptySet, ListNames DEF InSlots, NotInSlots, EmptyTable
<1> QED  BY <1>1, <1>4 DEF Good, CountsLists, EmptyTable

LEMMA NewIndicesType ==
    ASSUME NEW tab \in Table
    PROVE  NewIndices(tab) \subseteq Index
BY TableAssumption DEF Table, NewIndices, Index

LEMMA OutsideSlots ==
    ASSUME NEW list \in AllLists, NEW new \in AllLists, NEW z \in Int,
           \/ /\ Len(new[Immediate]) = Len(list[Immediate]) + z
              /\ Len(new[Running]) = Len(list[Running])
           \/ /\ Len(new[Running]) = Len(list[Running]) + z
              /\ Len(new[Immediate]) = Len(list[Immediate])
    PROVE  NotInSlots(new) = NotInSlots(list) + z
<1>1. /\ Len(list[Immediate]) \in Nat /\ Len(list[Running]) \in Nat
      /\ Len(new[Immediate]) \in Nat /\ Len(new[Running]) \in Nat
    BY ListNames DEF AllLists
<1> DEFINE a == Len(list[Immediate])
           b == Len(list[Running])
           c == Len(new[Immediate])
           d == Len(new[Running])
<1>2. NotInSlots(list) = a + b /\ NotInSlots(new) = c + d
    BY DEF NotInSlots
<1>3. a \in Nat /\ b \in Nat /\ ((c = a + z /\ d = b) \/ (d = b + z /\ c = a))
    BY <1>1
<1> HIDE DEF a, b, c, d
<1> QED  BY <1>2, <1>3

(* The counters stay right when nzero changes by what the two lists change *)
(* by, and nshort by that and what the slots change by.                    *)
LEMMA Recounted ==
    ASSUME NEW tab \in Table, CountsLists(tab), NEW new \in Table,
           NEW z \in Int, NEW n \in Int,
           new.nzero = tab.nzero + z, new.nshort = tab.nshort + z + n,
           NotInSlots(new.list) = NotInSlots(tab.list) + z,
           InSlots(new.list) = InSlots(tab.list) + n
    PROVE  CountsLists(new)
<1>1. tab.list \in AllLists /\ new.list \in AllLists
    BY DEF Table, AllLists
<1>2. InSlots(tab.list) \in Nat /\ NotInSlots(tab.list) \in Nat
    BY <1>1, SlotEntriesFinite
<1>3. /\ tab.nzero = NotInSlots(tab.list)
      /\ tab.nshort = NotInSlots(tab.list) + InSlots(tab.list)
    BY Zenon DEF CountsLists
<1>4. new.nzero = NotInSlots(new.list)
    BY <1>3
<1>5. new.nshort = NotInSlots(new.list) + InSlots(new.list)
    BY <1>2, <1>3
<1> QED  BY <1>4, <1>5, Zenon DEF CountsLists

LEMMA NewCalloutGood ==
    ASSUME NEW tab, Good(tab), NEW l \in Lists \ {Running}, NEW t \in Nat,
           l \in Slots <=> t # 0,
           NEW c \in Callouts, NEW i \in NewIndices(tab)
    PROVE  Good(NewCallout(tab, l, t, c, i))
<1> DEFINE new == NewCallout(tab, l, t, c, i)
           x == [co |-> c, at |-> i]
           list == [tab.list EXCEPT ![l] = Append(@, x)]
           free == tab.flist \ {i}
           brk == IF tab.flist = {} THEN i ELSE tab.cycbrk
           short == tab.nshort + 1
           zero == IF t = 0 THEN tab.nzero + 1 ELSE tab.nzero
           first == IF /\ tab.list[l] = << >> /\ t # 0
                       /\ tab.timeout = 0 \/ t < tab.timeout
                    THEN t ELSE tab.timeout
<1>1. tab \in Table /\ CountsLists(tab) /\ i \in Index
    BY NewIndicesType DEF Good
<1>2. tab.list \in AllLists /\ x \in Element
    BY <1>1 DEF Table, AllLists, Element
<1>3. list \in AllLists
    BY <1>2 DEF AllLists
<1>4. new = [tab EXCEPT !.flist = free, !.cycbrk = brk, !.nshort = short,
                        !.nzero = zero, !.timeout = first, !.list = list]
    BY <1>1 DEF NewCallout, NewTimeout, Table
<1>5. /\ free \in SUBSET Index /\ brk \in Index \cup {COTABSZ}
      /\ short \in Int /\ zero \in Int /\ first \in Nat
    BY <1>1 DEF Table
<1>6. new \in Table
    <2> HIDE DEF new, list, x, free, brk, short, zero, first
    <2> QED  BY <1>1, <1>3, <1>4, <1>5 DEF Table, AllLists
<1>7. new.list = list /\ new.nshort = short /\ new.nzero = zero
    <2> HIDE DEF new, list, x, free, brk, short, zero, first
    <2> QED  BY <1>1, <1>4 DEF Table
<1>8. /\ Len(list[l]) = Len(tab.list[l]) + 1
      /\ \A k \in Lists \ {l} : list[k] = tab.list[k]
    BY <1>2 DEF AllLists
<1>9. /\ \A k \in Lists : Len(tab.list[k]) \in Nat
      /\ tab.nzero \in Int /\ tab.nshort \in Int
      /\ InSlots(tab.list) \in Nat /\ NotInSlots(tab.list) \in Nat
    BY <1>1, <1>2, SlotEntriesFinite DEF AllLists, Table
<1>10. CASE l \in Slots
    <2>1. InSlots(list) = InSlots(tab.list) + 1
        <3> HIDE DEF list
        <3> QED  BY <1>2, <1>3, <1>8, <1>10, ListNames, SlotGrows
    <2>2. list[Immediate] = tab.list[Immediate] /\ list[Running] = tab.list[Running]
        BY <1>8, <1>10, ListNames
    <2>3. NotInSlots(list) = NotInSlots(tab.list) + 0
        <3> HIDE DEF list
        <3>1. /\ Len(list[Immediate]) = Len(tab.list[Immediate]) + 0
              /\ Len(list[Running]) = Len(tab.list[Running])
            BY <1>9, <2>2, ListNames
        <3> QED  BY <1>2, <1>3, <3>1, OutsideSlots
    <2>4. zero = tab.nzero + 0 /\ short = tab.nshort + 0 + 1
        BY <1>9, <1>10
    <2>5. CountsLists(new)
        <3> HIDE DEF list, new, zero, short
        <3>1. /\ new.nzero = tab.nzero + 0 /\ new.nshort = tab.nshort + 0 + 1
              /\ NotInSlots(new.list) = NotInSlots(tab.list) + 0
              /\ InSlots(new.list) = InSlots(tab.list) + 1
            BY <1>7, <2>1, <2>3, <2>4
        <3> QED  BY <1>1, <1>6, <3>1, Recounted
    <2> QED  BY <1>6, <2>5 DEF Good
<1>11. CASE l = Immediate
    <2>1. InSlots(list) = InSlots(tab.list) + 0
        <3> HIDE DEF list
        <3> QED  BY <1>2, <1>3, <1>8, <1>9, <1>11, ListNames, OtherLists
    <2>2. Len(list[Immediate]) = Len(tab.list[Immediate]) + 1
        BY <1>8, <1>11
    <2>3. list[Running] = tab.list[Running]
        BY <1>8, <1>11, ListNames
    <2>4. NotInSlots(list) = NotInSlots(tab.list) + 1
        <3> HIDE DEF list
        <3> QED  BY <1>2, <1>3, <2>2, <2>3, OutsideSlots
    <2>5. zero = tab.nzero + 1 /\ short = tab.nshort + 1 + 0
        BY <1>9, <1>11, ListNames
    <2>6. CountsLists(new)
        <3> HIDE DEF list, new, zero, short
        <3>1. /\ new.nzero = tab.nzero + 1 /\ new.nshort = tab.nshort + 1 + 0
              /\ NotInSlots(new.list) = NotInSlots(tab.list) + 1
              /\ InSlots(new.list) = InSlots(tab.list) + 0
            BY <1>7, <2>1, <2>4, <2>5
        <3> QED  BY <1>1, <1>6, <3>1, Recounted
    <2> QED  BY <1>6, <2>6 DEF Good
<1> QED  BY <1>10, <1>11 DEF Lists

(* The break recedes to an index of the table or to its end.               *)
LEMMA RecedeType ==
    ASSUME NEW tab \in Table, tab.cycbrk \in Index
    PROVE  Recede(tab) \in Index \cup {COTABSZ}
<1> DEFINE Stop == {k \in tab.cycbrk + 1 .. COTABSZ : k = COTABSZ \/ k \notin tab.flist}
           edge(k) == /\ k = COTABSZ \/ k \notin tab.flist
                      /\ \A j \in tab.cycbrk + 1 .. k - 1 : j \in tab.flist
<1>1. tab.cycbrk \in Int /\ tab.cycbrk < COTABSZ /\ COTABSZ \in Int
    BY TableAssumption DEF Index
<1>2. Stop \subseteq Int /\ COTABSZ \in Stop /\ \A k \in Stop : k >= tab.cycbrk + 1
    BY <1>1
<1>3. PICK k \in Stop : \A j \in Stop : k <= j
    <2>1. Stop # {} /\ tab.cycbrk + 1 \in Int
        BY <1>1, <1>2
    <2> HIDE DEF Stop
    <2> QED  BY <1>2, <2>1, LeastExists
<1>4. \E e \in tab.cycbrk + 1 .. COTABSZ : edge(e)
    <2>1. \A j \in tab.cycbrk + 1 .. k - 1 : j \in tab.flist
        BY <1>1, <1>3
    <2> QED  BY <1>3, <2>1
<1>5. Recede(tab) = CHOOSE e \in tab.cycbrk + 1 .. COTABSZ : edge(e)
    BY DEF Recede
<1> HIDE DEF edge
<1>6. Recede(tab) \in tab.cycbrk + 1 .. COTABSZ
    BY <1>4, <1>5
<1> QED  BY <1>1, <1>6 DEF Index

LEMMA ConcatLength ==
    ASSUME NEW S, NEW a \in Seq(S), NEW b \in Seq(S)
    PROVE  a \o b \in Seq(S) /\ Len(a \o b) = Len(a) + Len(b)
OBVIOUS

LEMMA RemoveAtType ==
    ASSUME NEW S, NEW s \in Seq(S), NEW k \in 1 .. Len(s)
    PROVE  RemoveAt(s, k) \in Seq(S) /\ Len(RemoveAt(s, k)) = Len(s) - 1
<1>1. SubSeq(s, 1, k - 1) \in Seq(S) /\ Len(SubSeq(s, 1, k - 1)) = k - 1
    OBVIOUS
<1>2. SubSeq(s, k + 1, Len(s)) \in Seq(S)
    OBVIOUS
<1>3. Len(SubSeq(s, k + 1, Len(s))) = Len(s) - k
    OBVIOUS
<1> DEFINE a == SubSeq(s, 1, k - 1)
           b == SubSeq(s, k + 1, Len(s))
<1>4. RemoveAt(s, k) = a \o b
    BY DEF RemoveAt
<1>5. Len(s) \in Nat /\ k \in Nat
    OBVIOUS
<1>6. a \o b \in Seq(S) /\ Len(a \o b) = Len(a) + Len(b)
    BY <1>1, <1>2, ConcatLength
<1>7. Len(a) = k - 1 /\ Len(b) = Len(s) - k
    BY <1>1, <1>3
<1> HIDE DEF a, b
<1> QED  BY <1>4, <1>5, <1>6, <1>7

LEMMA FreeCalloutGood ==
    ASSUME NEW tab, Good(tab), NEW l \in Lists, NEW t \in Nat,
           l \in Slots <=> t # 0,
           NEW k \in 1 .. Len(tab.list[l])
    PROVE  Good(FreeCallout(tab, l, k, t))
<1> DEFINE new == FreeCallout(tab, l, k, t)
           i == tab.list[l][k].at
           list == [tab.list EXCEPT ![l] = RemoveAt(@, k)]
           short == tab.nshort - 1
           zero == IF t = 0 THEN tab.nzero - 1 ELSE tab.nzero
           brk == IF i = tab.cycbrk THEN Recede(tab) ELSE tab.cycbrk
           free == IF i = tab.cycbrk THEN {x \in tab.flist : x > brk}
                                     ELSE tab.flist \cup {i}
           first == IF list[l] # << >> \/ t = 0 \/ t # tab.timeout THEN tab.timeout
                    ELSE IF short # zero THEN NextTimeout(list, t) ELSE 0
<1>1. tab \in Table /\ CountsLists(tab)
    BY DEF Good
<1>2. /\ tab.list \in AllLists /\ tab.nshort \in Int /\ tab.nzero \in Int
      /\ tab.flist \in SUBSET Index /\ tab.cycbrk \in Index \cup {COTABSZ}
      /\ tab.timeout \in Nat
    BY <1>1 DEF Table, AllLists
<1>3. i \in Index
    <2>1. tab.list[l] \in Seq(Element)
        BY <1>2 DEF AllLists
    <2>2. tab.list[l][k] \in Element
        BY <2>1
    <2> QED  BY <2>2 DEF Element
<1>4. RemoveAt(tab.list[l], k) \in Seq(Element)
      /\ Len(RemoveAt(tab.list[l], k)) = Len(tab.list[l]) - 1
    BY <1>2, RemoveAtType DEF AllLists
<1>5. list \in AllLists
    BY <1>2, <1>4 DEF AllLists
<1>6. /\ Len(list[l]) = Len(tab.list[l]) - 1
      /\ \A j \in Lists \ {l} : list[j] = tab.list[j]
    BY <1>2, <1>4 DEF AllLists
<1>7. \A j \in Lists : Len(tab.list[j]) \in Nat /\ Len(list[j]) \in Nat
    BY <1>2, <1>5 DEF AllLists
<1>8. /\ InSlots(tab.list) \in Nat /\ NotInSlots(tab.list) \in Nat
      /\ InSlots(list) \in Nat /\ NotInSlots(list) \in Nat
    BY <1>2, <1>5, SlotEntriesFinite
<1>9. /\ tab.nzero = NotInSlots(tab.list)
      /\ tab.nshort = NotInSlots(tab.list) + InSlots(tab.list)
    BY <1>1, Zenon DEF CountsLists
<1>10. \E z \in Int, n \in Int :
          /\ zero = tab.nzero + z /\ short = tab.nshort + z + n
          /\ NotInSlots(list) = NotInSlots(tab.list) + z
          /\ InSlots(list) = InSlots(tab.list) + n
    <2>1. CASE l \in Slots
        <3>1. InSlots(tab.list) = InSlots(list) + 1
            <4>1. /\ Len(tab.list[l]) = Len(list[l]) + 1
                  /\ \A s \in Slots \ {l} : Len(tab.list[s]) = Len(list[s])
                BY <1>6, <1>7, ListNames
            <4> HIDE DEF list
            <4> QED  BY <1>2, <1>5, <2>1, <4>1, SlotGrows
        <3>2. NotInSlots(list) = NotInSlots(tab.list) + 0
            <4>1. /\ Len(list[Immediate]) = Len(tab.list[Immediate]) + 0
                  /\ Len(list[Running]) = Len(tab.list[Running])
                BY <1>6, <1>7, <2>1, ListNames
            <4> HIDE DEF list
            <4> QED  BY <1>2, <1>5, <4>1, OutsideSlots
        <3>3. zero = tab.nzero + 0 /\ short = tab.nshort + 0 + (-1)
            BY <1>2, <2>1
        <3>4. InSlots(list) = InSlots(tab.list) + (-1)
            BY <1>8, <3>1
        <3> HIDE DEF zero, short, list
        <3> QED  BY <3>2, <3>3, <3>4
    <2>2. CASE l \notin Slots
        <3>1. InSlots(list) = InSlots(tab.list) + 0
            <4>1. \A s \in Slots : Len(list[s]) = Len(tab.list[s])
                BY <1>6, <2>2, ListNames
            <4> HIDE DEF list
            <4> QED  BY <1>2, <1>5, <1>8, <4>1, OtherLists
        <3>2. NotInSlots(list) = NotInSlots(tab.list) + (-1)
            <4>1. l \in {Immediate, Running}
                BY <2>2 DEF Lists
            <4>2. \/ /\ Len(tab.list[Immediate]) = Len(list[Immediate]) + 1
                     /\ Len(tab.list[Running]) = Len(list[Running])
                  \/ /\ Len(tab.list[Running]) = Len(list[Running]) + 1
                     /\ Len(tab.list[Immediate]) = Len(list[Immediate])
                BY <1>6, <1>7, <4>1, ListNames
            <4> HIDE DEF list
            <4>3. NotInSlots(tab.list) = NotInSlots(list) + 1
                BY <1>2, <1>5, <4>2, OutsideSlots
            <4> QED  BY <1>8, <4>3
        <3>3. zero = tab.nzero + (-1) /\ short = tab.nshort + (-1) + 0
            BY <1>2, <2>2
        <3> HIDE DEF zero, short, list
        <3> QED  BY <3>1, <3>2, <3>3
    <2> QED  BY <2>1, <2>2
<1>11. first \in Nat
    <2>1. ASSUME short # zero
          PROVE  NextTimeout(list, t) \in Nat
        <3>1. InSlots(list) # 0
            <4> HIDE DEF short, zero, list
            <4> QED  BY <1>2, <1>8, <1>9, <1>10, <2>1
        <3>2. NextTimeout(list, t) \in t .. t + CYCBUF_SIZE - 1
            <4> HIDE DEF list
            <4> QED  BY <1>5, <3>1, NextTimeoutFound
        <3> QED  BY <3>2
    <2> HIDE DEF short, zero, list
    <2> QED  BY <1>2, <2>1
<1>12. /\ short \in Int /\ zero \in Int
       /\ brk \in Index \cup {COTABSZ} /\ free \in SUBSET Index
    <2>1. i = tab.cycbrk => Recede(tab) \in Index \cup {COTABSZ}
        BY <1>1, <1>3, RecedeType
    <2> QED  BY <1>2, <1>3, <2>1
<1>13. new = [tab EXCEPT !.list = list, !.nshort = short, !.nzero = zero,
                         !.timeout = first, !.cycbrk = brk, !.flist = free]
    BY <1>1 DEF FreeCallout, Freed, Table
<1>14. new \in Table
    <2> HIDE DEF new, i, list, short, zero, brk, free, first
    <2> QED  BY <1>1, <1>5, <1>11, <1>12, <1>13 DEF Table, AllLists
<1>15. new.list = list /\ new.nshort = short /\ new.nzero = zero
    <2> HIDE DEF new, i, list, short, zero, brk, free, first
    <2> QED  BY <1>1, <1>13 DEF Table
<1>16. CountsLists(new)
    <2> HIDE DEF new, list, short, zero
    <2>1. PICK z \in Int, n \in Int :
              /\ new.nzero = tab.nzero + z /\ new.nshort = tab.nshort + z + n
              /\ NotInSlots(new.list) = NotInSlots(tab.list) + z
              /\ InSlots(new.list) = InSlots(tab.list) + n
        BY <1>10, <1>15
    <2> QED  BY <1>1, <1>14, <2>1, Recounted
<1> QED  BY <1>14, <1>16 DEF Good

---------------------------------------------------------------------------
(* The exported operations.                                                *)

(* What neither changes a list nor a counter keeps the count.              *)
LEMMA SameLists ==
    ASSUME NEW tab, Good(tab), NEW new \in Table,
           new.list = tab.list, new.nshort = tab.nshort, new.nzero = tab.nzero
    PROVE  Good(new)
BY Zenon DEF Good, CountsLists

LEMMA TimestampType ==
    ASSUME NEW tab \in Table, NEW clock \in Time
    PROVE  Timestamp(tab, clock) \in Nat
<1>1. tab.timestamp \in Nat /\ tab.timeout \in Nat /\ clock.t \in Nat
    BY DEF Table, Time
<1>2. tab.timestamp < tab.timeout => tab.timeout - 1 \in Nat
    BY <1>1
<1> QED  BY <1>1, <1>2 DEF Timestamp

LEMMA CoTimeGood ==
    ASSUME NEW tab, Good(tab), NEW clock \in Time,
           NEW cached \in Seq(Time), Len(cached) <= 1
    PROVE  LET r == CoTime(tab, cached, clock)
           IN  /\ Good(r.tab) /\ r.now \in Time
               /\ r.tab.list = tab.list
               /\ NewIndices(r.tab) = NewIndices(tab)
<1> DEFINE r == CoTime(tab, cached, clock)
           ts == Timestamp(tab, clock)
           new == [tab EXCEPT !.timestamp = ts]
<1>1. tab \in Table
    BY DEF Good
<1>2. CASE cached # << >>
    <2>1. r = [tab |-> tab, now |-> cached[1]]
        BY <1>2 DEF CoTime
    <2>2. cached[1] \in Time
        BY <1>2
    <2>3. r.tab = tab /\ r.now = cached[1]
        BY <2>1
    <2> QED  BY <2>2, <2>3
<1>3. CASE cached = << >>
    <2>1. ts \in Nat
        BY <1>1, TimestampType
    <2>2. /\ new \in Table /\ new.list = tab.list /\ new.nshort = tab.nshort
          /\ new.nzero = tab.nzero
          /\ new.flist = tab.flist /\ new.cycbrk = tab.cycbrk
        <3> HIDE DEF ts
        <3> QED  BY <1>1, <2>1 DEF Table
    <2>3. Good(new)
        <3> HIDE DEF new
        <3> QED  BY <2>2, SameLists
    <2>4. r.tab = new
        BY <1>3 DEF CoTime
    <2>5. r.now \in {[t |-> tab.timestamp, m |-> 0], [t |-> ts + MAXLAG, m |-> 0], clock}
        BY <1>3 DEF CoTime
    <2>6. tab.timestamp \in Nat /\ ts + MAXLAG \in Nat /\ 0 \in Msecs
        BY <1>1, <2>1, TableAssumption DEF Table, Msecs
    <2>7. r.now \in Time
        BY <2>5, <2>6 DEF Time
    <2>8. NewIndices(new) = NewIndices(tab)
        <3> HIDE DEF new
        <3> QED  BY <2>2 DEF NewIndices
    <2> QED  BY <2>2, <2>3, <2>4, <2>7, <2>8
<1> QED  BY <1>2, <1>3

(* A callout that goes to a slot is due in a second after 0, one that goes *)
(* to the immediate ones in second 0.                                      *)
LEMMA DueType ==
    ASSUME NEW tab \in Table, NEW now \in Time, NEW delay \in Nat,
           NEW mdelay \in Msecs \cup {NoMsec}
    PROVE  LET due == Due(tab, now, delay, mdelay)
           IN  /\ due.t \in Nat /\ due.m \in Msecs \cup {NoMsec}
               /\ due.q \in Slots \cup {Immediate, Queue}
               /\ due.q \in Slots => due.t # 0
               /\ due.q = Immediate => due.t = 0
<1> DEFINE due == Due(tab, now, delay, mdelay)
           m == now.m + mdelay
           t == now.t + delay
<1>1. now.t \in Nat /\ now.m \in Msecs /\ t \in Nat /\ Slot(t) \in Slots
    BY SlotOfSecond DEF Time
<1>2. CASE IsImmediate(delay, mdelay)
    <2>1. due = [t |-> 0, m |-> NoMsec, q |-> Immediate]
        BY <1>2 DEF Due
    <2> QED  BY <2>1, ListNames
<1>3. CASE ~IsImmediate(delay, mdelay) /\ mdelay = NoMsec
    <2>1. delay # 0
        BY <1>3 DEF IsImmediate
    <2>2. t # 0
        BY <1>1, <2>1
    <2>3. due = [t |-> t, m |-> NoMsec,
                 q |-> IF t < tab.timestamp + CYCBUF_SIZE THEN Slot(t) ELSE Queue]
        BY <1>3 DEF Due
    <2> HIDE DEF t
    <2> QED  BY <1>1, <2>2, <2>3, ListNames DEF Lists
<1>4. CASE ~IsImmediate(delay, mdelay) /\ mdelay # NoMsec
    <2>1. due = [t |-> t + m \div MSECS, m |-> m % MSECS, q |-> Queue]
        BY <1>4 DEF Due
    <2>2. m \in Nat
        BY <1>1, <1>4 DEF Msecs
    <2>3. MSECS \in Nat /\ MSECS > 0
        BY TableAssumption
    <2>4. m \div MSECS \in Nat /\ m % MSECS \in 0 .. MSECS - 1
        BY <2>2, <2>3
    <2>5. t + m \div MSECS \in Nat
        BY <1>1, <2>4
    <2>6. due.t \in Nat /\ due.m \in Msecs /\ due.q = Queue
        BY <2>1, <2>4, <2>5 DEF Msecs
    <2> QED  BY <2>6, ListNames DEF Lists
<1> QED  BY <1>2, <1>3, <1>4

LEMMA OtherQueue ==
    ASSUME NEW tab, Good(tab), NEW q \in Seq(QueueEntry)
    PROVE  /\ Good([tab EXCEPT !.queue = q])
           /\ NewIndices([tab EXCEPT !.queue = q]) = NewIndices(tab)
<1> DEFINE new == [tab EXCEPT !.queue = q]
<1>1. tab \in Table
    BY DEF Good
<1>2. /\ new \in Table /\ new.list = tab.list /\ new.nshort = tab.nshort
      /\ new.nzero = tab.nzero /\ new.flist = tab.flist /\ new.cycbrk = tab.cycbrk
    BY <1>1 DEF Table
<1> HIDE DEF new
<1>3. Good(new)
    BY <1>2, SameLists
<1>4. NewIndices(new) = NewIndices(tab)
    BY <1>2 DEF NewIndices
<1> QED  BY <1>3, <1>4 DEF new

LEMMA CoNewGood ==
    ASSUME NEW tab, Good(tab), NEW c \in Callouts, NEW due,
           due.t \in Nat, due.m \in Msecs \cup {NoMsec},
           due.q \in Slots \cup {Immediate, Queue},
           due.q \in Slots => due.t # 0, due.q = Immediate => due.t = 0,
           NEW i \in NewIndices(tab)
    PROVE  Good(CoNew(tab, c, due, i))
<1> DEFINE m == IF due.m = NoMsec THEN 0 ELSE due.m
           e == [co |-> c, t |-> due.t, m |-> m]
<1>1. CASE due.q = Queue
    <2>1. m \in Msecs
        BY TableAssumption DEF Msecs
    <2>2. e \in QueueEntry
        BY <2>1 DEF QueueEntry
    <2>3. tab.queue \in Seq(QueueEntry)
        BY DEF Good, Table
    <2>4. Enqueue(tab.queue, e) \in Seq(QueueEntry)
        BY <2>2, <2>3, EnqueueType
    <2>5. CoNew(tab, c, due, i) = [tab EXCEPT !.queue = Enqueue(tab.queue, e)]
        BY <1>1 DEF CoNew
    <2> QED  BY <2>4, <2>5, OtherQueue
<1>2. CASE due.q # Queue
    <2>1. /\ due.q \in Lists \ {Running}
          /\ due.q \in Slots <=> due.t # 0
        BY <1>2, ListNames
    <2>2. CoNew(tab, c, due, i) = NewCallout(tab, due.q, due.t, c, i)
        BY <1>2 DEF CoNew
    <2> QED  BY <2>1, <2>2, NewCalloutGood
<1> QED  BY <1>1, <1>2

LEMMA CoDelGood ==
    ASSUME NEW tab, Good(tab), NEW c, NEW t \in Nat, NEW m
    PROVE  Good(CoDel(tab, c, t, m))
<1> DEFINE l == DelList(tab, c, t, m)
           zero == IF l \in Slots THEN t ELSE 0
           k == Position(tab.list[l], c)
<1>1. tab.timestamp \in Nat /\ tab.queue \in Seq(QueueEntry) /\ tab.list \in AllLists
    BY DEF Good, Table, AllLists
<1>2. /\ l \in Slots \cup {Immediate, Running, Queue}
      /\ l \in Slots => t # 0
      /\ l # Queue => Holds(tab.list[l], c)
    BY <1>1, SlotOfSecond, ListNames DEF DelList
<1>3. CASE l = Queue
    <2>1. CoDel(tab, c, t, m) =
              [tab EXCEPT !.queue = Dequeue(tab.queue, Position(tab.queue, c))]
        BY <1>3 DEF CoDel
    <2> QED  BY <1>1, <2>1, DequeueType, OtherQueue
<1>4. CASE l # Queue
    <2>1. l \in Lists
        BY <1>2, <1>4, ListNames
    <2>2. k \in 1 .. Len(tab.list[l])
        <3>1. k \in DOMAIN tab.list[l]
            BY <1>2, <1>4 DEF Holds, Position
        <3>2. tab.list[l] \in Seq(Element)
            BY <1>1, <2>1 DEF AllLists
        <3> QED  BY <3>1, <3>2
    <2>3. zero \in Nat /\ (l \in Slots <=> zero # 0)
        BY <1>2
    <2>4. CoDel(tab, c, t, m) = FreeCallout(tab, l, k, zero)
        BY <1>4 DEF CoDel
    <2> HIDE DEF l, k, zero
    <2> QED  BY <2>1, <2>2, <2>3, <2>4, FreeCalloutGood
<1> QED  BY <1>3, <1>4

LEMMA ExpireFirstGood ==
    ASSUME NEW tab, Good(tab), tab.queue # << >>, NEW i \in NewIndices(tab)
    PROVE  Good(ExpireFirst(tab, i))
<1> DEFINE q == Dequeue(tab.queue, 1)
           new == [tab EXCEPT !.queue = q]
<1>1. tab.queue \in Seq(QueueEntry)
    BY DEF Good, Table
<1>2. tab.queue[1].co \in Callouts
    <2>1. tab.queue[1] \in QueueEntry
        BY <1>1
    <2> QED  BY <2>1 DEF QueueEntry
<1>3. q \in Seq(QueueEntry)
    BY <1>1, DequeueType
<1>4. Good(new) /\ i \in NewIndices(new)
    BY <1>3, OtherQueue
<1>5. ExpireFirst(tab, i) = NewCallout(new, Immediate, 0, tab.queue[1].co, i)
    BY DEF ExpireFirst
<1>6. Immediate \in Lists \ {Running} /\ (Immediate \in Slots <=> 0 # 0)
    BY ListNames
<1> HIDE DEF new
<1> QED  BY <1>2, <1>4, <1>5, <1>6, NewCalloutGood

LEMMA ExpireSlotGood ==
    ASSUME NEW tab, Good(tab)
    PROVE  Good(ExpireSlot(tab))
<1> DEFINE new == ExpireSlot(tab)
           s == Slot(tab.timestamp)
           n == Len(tab.list[s])
           all == tab.list[Immediate] \o tab.list[s]
           list == [tab.list EXCEPT ![s] = << >>, ![Immediate] = all]
           zero == tab.nzero + n
<1>1. tab \in Table /\ CountsLists(tab)
    BY DEF Good
<1>2. tab.list \in AllLists /\ tab.nshort \in Int /\ tab.nzero \in Int
    BY <1>1 DEF Table, AllLists
<1>3. s \in Slots
    BY <1>1, SlotOfSecond DEF Table
<1>4. tab.list[s] \in Seq(Element) /\ tab.list[Immediate] \in Seq(Element)
    BY <1>2, <1>3, ListNames DEF AllLists
<1>5. n \in Nat /\ all \in Seq(Element) /\ Len(all) = Len(tab.list[Immediate]) + n
    BY <1>4, ConcatLength
<1>6. /\ list \in AllLists
      /\ list[s] = << >> /\ list[Immediate] = all
      /\ \A l \in Lists \ {s, Immediate} : list[l] = tab.list[l]
    <2>1. s # Immediate /\ s \in Lists /\ Immediate \in Lists
        BY <1>3, ListNames
    <2>2. << >> \in Seq(Element)
        OBVIOUS
    <2> HIDE DEF all, s
    <2> QED  BY <1>2, <1>5, <2>1, <2>2 DEF AllLists
<1>7. InSlots(list) = InSlots(tab.list) - n
    <2>1. \A l \in Slots \ {s} : Len(list[l]) = Len(tab.list[l])
        BY <1>6, ListNames
    <2> HIDE DEF list, s
    <2> QED  BY <1>2, <1>3, <1>6, <2>1, SlotEmptied
<1>8. NotInSlots(list) = NotInSlots(tab.list) + n
    <2>1. Running \in Lists \ {s, Immediate}
        BY <1>3, ListNames
    <2>2. Len(list[Immediate]) = Len(tab.list[Immediate]) + n
        BY <1>5, <1>6
    <2>3. Len(list[Running]) = Len(tab.list[Running])
        BY <1>6, <2>1
    <2>4. n \in Int
        BY <1>5
    <2> HIDE DEF list, n
    <2> QED  BY <1>2, <1>6, <2>2, <2>3, <2>4, OutsideSlots
<1>9. new = [tab EXCEPT !.list = list, !.nzero = zero]
    BY <1>1 DEF ExpireSlot, Table
<1>10. new \in Table /\ new.list = list /\ new.nzero = zero /\ new.nshort = tab.nshort
    <2>1. zero \in Int
        BY <1>2, <1>5
    <2> HIDE DEF new, list, zero
    <2> QED  BY <1>1, <1>6, <1>9, <2>1 DEF Table, AllLists
<1>11. CountsLists(new)
    <2>1. InSlots(tab.list) \in Nat
        BY <1>2, SlotEntriesFinite
    <2>2. n \in Int /\ 0 - n \in Int
        BY <1>5
    <2> HIDE DEF new, list, n
    <2>3. /\ new.nzero = tab.nzero + n
          /\ new.nshort = tab.nshort + n + (0 - n)
          /\ NotInSlots(new.list) = NotInSlots(tab.list) + n
          /\ InSlots(new.list) = InSlots(tab.list) + (0 - n)
        BY <1>2, <1>5, <1>7, <1>8, <1>10, <2>1
    <2> QED  BY <1>1, <1>10, <2>2, <2>3, Recounted
<1> QED  BY <1>10, <1>11 DEF Good

LEMMA ExpireTimeoutGood ==
    ASSUME NEW tab, Good(tab)
    PROVE  Good(ExpireTimeout(tab)) /\ ExpireTimeout(tab).list = tab.list
<1> DEFINE first == IF tab.timeout > tab.timestamp THEN tab.timeout
                    ELSE IF tab.nshort # tab.nzero
                         THEN NextTimeout(tab.list, tab.timestamp) ELSE 0
           new == [tab EXCEPT !.timeout = first]
<1>1. tab \in Table /\ CountsLists(tab)
    BY DEF Good
<1>2. tab.list \in AllLists /\ tab.timestamp \in Nat /\ tab.timeout \in Nat
    BY <1>1 DEF Table, AllLists
<1>3. tab.nshort # tab.nzero => InSlots(tab.list) # 0
    <2>1. /\ tab.nzero = NotInSlots(tab.list)
          /\ tab.nshort = NotInSlots(tab.list) + InSlots(tab.list)
        BY <1>1, Zenon DEF CountsLists
    <2>2. InSlots(tab.list) \in Nat /\ NotInSlots(tab.list) \in Nat
        BY <1>2, SlotEntriesFinite
    <2> QED  BY <2>1, <2>2
<1>4. first \in Nat
    <2>1. tab.nshort # tab.nzero => NextTimeout(tab.list, tab.timestamp) \in Nat
        <3>1. ASSUME InSlots(tab.list) # 0
              PROVE  NextTimeout(tab.list, tab.timestamp) \in
                         tab.timestamp .. tab.timestamp + CYCBUF_SIZE - 1
            BY <1>2, <3>1, NextTimeoutFound
        <3> QED  BY <1>2, <1>3, <3>1
    <2> QED  BY <1>2, <2>1
<1>5. ExpireTimeout(tab) = new
    BY DEF ExpireTimeout
<1>6. /\ new \in Table /\ new.list = tab.list /\ new.nshort = tab.nshort
      /\ new.nzero = tab.nzero
    <2> HIDE DEF first
    <2> QED  BY <1>1, <1>4 DEF Table
<1> HIDE DEF new
<1> QED  BY <1>5, <1>6, SameLists

LEMMA StartRunningGood ==
    ASSUME NEW tab, Good(tab), tab.list[Running] = << >>
    PROVE  Good(StartRunning(tab))
<1> DEFINE new == StartRunning(tab)
           list == [tab.list EXCEPT ![Running] = tab.list[Immediate],
                                    ![Immediate] = << >>]
<1>1. tab \in Table /\ CountsLists(tab) /\ tab.list \in AllLists
    BY DEF Good, Table, AllLists
<1>2. /\ list \in AllLists
      /\ list[Running] = tab.list[Immediate] /\ list[Immediate] = tab.list[Running]
      /\ \A s \in Slots : list[s] = tab.list[s]
    BY <1>1, ListNames DEF AllLists
<1>3. new = [tab EXCEPT !.list = list]
    BY DEF StartRunning
<1>4. /\ new \in Table /\ new.list = list /\ new.nshort = tab.nshort
      /\ new.nzero = tab.nzero
    <2> HIDE DEF new, list
    <2> QED  BY <1>1, <1>2, <1>3 DEF Table, AllLists
<1>5. InSlots(list) = InSlots(tab.list)
    <2> HIDE DEF list
    <2> QED  BY <1>1, <1>2, OtherLists
<1>6. NotInSlots(list) = NotInSlots(tab.list)
    <2>1. Len(tab.list[Immediate]) \in Nat /\ Len(tab.list[Running]) \in Nat
        BY <1>1, ListNames DEF AllLists
    <2>2. NotInSlots(list) = Len(tab.list[Running]) + Len(tab.list[Immediate])
        BY <1>2, Zenon DEF NotInSlots
    <2>3. NotInSlots(tab.list) = Len(tab.list[Immediate]) + Len(tab.list[Running])
        BY Zenon DEF NotInSlots
    <2> HIDE DEF list
    <2> QED  BY <2>1, <2>2, <2>3
<1>7. CountsLists(new)
    <2> HIDE DEF new, list
    <2> QED  BY <1>1, <1>4, <1>5, <1>6, Zenon DEF CountsLists
<1> QED  BY <1>4, <1>7 DEF Good

---------------------------------------------------------------------------
(***************************************************************************)
(* Where callouts are in the table: what the operations do to the places   *)
(* of the callouts, to the use of the array, and to the time of the first  *)
(* callout.                                                                *)
(***************************************************************************)

---------------------------------------------------------------------------
(* The lists.                                                              *)

(* No callout and no index is in the lists twice.                          *)
Apart(list) ==
    \A l \in Lists, m \in Lists :
        \A j \in 1 .. Len(list[l]), k \in 1 .. Len(list[m]) :
            list[l][j].co = list[m][k].co \/ list[l][j].at = list[m][k].at
                => l = m /\ j = k

UsedAt(list, i) == \E l \in Lists : \E k \in 1 .. Len(list[l]) : list[l][k].at = i
InLists(list, c) == \E l \in Lists : Holds(list[l], c)

LEMMA HoldsIs ==
    ASSUME NEW S, NEW s \in Seq(S), NEW c
    PROVE  Holds(s, c) <=> \E k \in 1 .. Len(s) : s[k].co = c
BY DEF Holds

LEMMA AppendElem ==
    ASSUME NEW S, NEW s \in Seq(S), NEW x \in S
    PROVE  /\ Append(s, x) \in Seq(S)
           /\ Len(s) \in Nat
           /\ Len(Append(s, x)) = Len(s) + 1
           /\ \A k \in 1 .. Len(s) : Append(s, x)[k] = s[k]
           /\ Append(s, x)[Len(s) + 1] = x
OBVIOUS

(* r is s followed by t.                                                   *)
Joined(r, s, t) ==
    /\ Len(s) \in Nat /\ Len(t) \in Nat
    /\ Len(r) = Len(s) + Len(t)
    /\ \A k \in 1 .. Len(s) : r[k] = s[k]
    /\ \A k \in 1 .. Len(t) : r[Len(s) + k] = t[k]

LEMMA ConcatElem ==
    ASSUME NEW S, NEW s \in Seq(S), NEW t \in Seq(S)
    PROVE  s \o t \in Seq(S) /\ Joined(s \o t, s, t)
BY DEF Joined

LEMMA RemoveElem ==
    ASSUME NEW S, NEW s \in Seq(S), NEW i \in 1 .. Len(s)
    PROVE  /\ RemoveAt(s, i) \in Seq(S)
           /\ Len(s) \in Nat
           /\ Len(RemoveAt(s, i)) = Len(s) - 1
           /\ \A k \in 1 .. Len(s) - 1 :
                 RemoveAt(s, i)[k] = IF k < i THEN s[k] ELSE s[k + 1]
<1> DEFINE a == SubSeq(s, 1, i - 1)
           b == SubSeq(s, i + 1, Len(s))
<1>1. RemoveAt(s, i) = a \o b
    BY DEF RemoveAt
<1>2. a \in Seq(S) /\ Len(a) = i - 1 /\ \A k \in 1 .. i - 1 : a[k] = s[k]
    OBVIOUS
<1>3. b \in Seq(S) /\ Len(b) = Len(s) - i /\ \A k \in 1 .. Len(s) - i : b[k] = s[i + k]
    OBVIOUS
<1>4. Len(s) \in Nat /\ i \in Nat /\ i <= Len(s) /\ i >= 1
    OBVIOUS
<1> HIDE DEF a, b
<1>5. /\ a \o b \in Seq(S) /\ Len(a \o b) = Len(a) + Len(b)
      /\ \A k \in 1 .. Len(a) : (a \o b)[k] = a[k]
      /\ \A k \in 1 .. Len(b) : (a \o b)[Len(a) + k] = b[k]
    <2>1. a \o b \in Seq(S) /\ Joined(a \o b, a, b)
        BY <1>2, <1>3, ConcatElem
    <2> QED  BY <2>1 DEF Joined
<1>6. ASSUME NEW k \in 1 .. Len(s) - 1
      PROVE  (a \o b)[k] = IF k < i THEN s[k] ELSE s[k + 1]
    <2>1. CASE k < i
        BY <1>2, <1>4, <1>5, <2>1
    <2>2. CASE ~(k < i)
        <3>1. k - (i - 1) \in 1 .. Len(s) - i /\ (i - 1) + (k - (i - 1)) = k
              /\ i + (k - (i - 1)) = k + 1
            BY <1>4, <2>2
        <3>2. (a \o b)[(i - 1) + (k - (i - 1))] = b[k - (i - 1)]
            BY <1>2, <1>3, <1>5, <3>1
        <3>3. b[k - (i - 1)] = s[i + (k - (i - 1))]
            BY <1>3, <3>1
        <3> QED  BY <2>2, <3>1, <3>2, <3>3
    <2> QED  BY <2>1, <2>2
<1> QED  BY <1>1, <1>2, <1>3, <1>4, <1>5, <1>6

LEMMA ListLengths ==
    ASSUME NEW list \in AllLists
    PROVE  /\ \A l \in Lists : list[l] \in Seq(Element) /\ Len(list[l]) \in Nat
           /\ \A l \in Lists : \A k \in 1 .. Len(list[l]) :
                 /\ list[l][k] \in Element /\ list[l][k].co \in Callouts
                 /\ list[l][k].at \in Index
<1>1. \A l \in Lists : list[l] \in Seq(Element)
    BY DEF AllLists
<1>2. \A l \in Lists : Len(list[l]) \in Nat
    BY <1>1
<1>3. \A l \in Lists : \A k \in 1 .. Len(list[l]) : list[l][k] \in Element
    BY <1>1
<1>4. \A x \in Element : x.co \in Callouts /\ x.at \in Index
    BY DEF Element
<1> QED  BY <1>1, <1>2, <1>3, <1>4

(* An element is added at the end of list l.                               *)
Added(new, list, l, x) ==
    new[l] = Append(list[l], x) /\ \A m \in Lists \ {l} : new[m] = list[m]

(* List new has callout c in l besides, at index i.                        *)
Gains(new, list, l, c, i) ==
    /\ Apart(new)
    /\ \A m \in Lists : \A d : Holds(new[m], d) <=>
                                   Holds(list[m], d) \/ (m = l /\ d = c)
    /\ \A j : UsedAt(new, j) <=> UsedAt(list, j) \/ j = i

LEMMA AddedLists ==
    ASSUME NEW list \in AllLists, NEW new \in AllLists, NEW l \in Lists,
           NEW x \in Element, Added(new, list, l, x), Apart(list),
           ~InLists(list, x.co), ~UsedAt(list, x.at)
    PROVE  Gains(new, list, l, x.co, x.at)
<1> DEFINE n == Len(list[l])
<1>1. /\ Len(new[l]) = n + 1 /\ n \in Nat /\ n = Len(list[l])
      /\ \A k \in 1 .. n : new[l][k] = list[l][k]
      /\ new[l][n + 1] = x
    BY ListLengths, AppendElem DEF Added
<1>2. \A m \in Lists \ {l} : new[m] = list[m]
    BY DEF Added
<1>3. \A m \in Lists : \A k \in 1 .. Len(list[m]) :
          list[m][k].co # x.co /\ list[m][k].at # x.at
    BY ListLengths, HoldsIs DEF InLists, UsedAt
<1>4. \A k \in 1 .. n + 1 : k \in 1 .. n \/ k = n + 1
    BY <1>1
<1>5. \A k \in 1 .. n : k \in 1 .. n + 1
    BY <1>1
<1>6. n + 1 \in 1 .. n + 1
    BY <1>1
<1> HIDE DEF n
<1>7. Apart(new)
    <2> SUFFICES ASSUME NEW a \in Lists, NEW b \in Lists,
                        NEW j \in 1 .. Len(new[a]), NEW k \in 1 .. Len(new[b]),
                        new[a][j].co = new[b][k].co \/ new[a][j].at = new[b][k].at
                 PROVE  a = b /\ j = k
        BY DEF Apart
    <2>1. (j \in 1 .. Len(list[a]) /\ new[a][j] = list[a][j])
              \/ (a = l /\ j = n + 1 /\ new[a][j] = x)
        BY <1>1, <1>2, <1>4
    <2>2. (k \in 1 .. Len(list[b]) /\ new[b][k] = list[b][k])
              \/ (b = l /\ k = n + 1 /\ new[b][k] = x)
        BY <1>1, <1>2, <1>4
    <2>3. CASE /\ j \in 1 .. Len(list[a]) /\ new[a][j] = list[a][j]
               /\ k \in 1 .. Len(list[b]) /\ new[b][k] = list[b][k]
        BY <2>3 DEF Apart
    <2>4. CASE /\ a = l /\ j = n + 1 /\ new[a][j] = x
               /\ b = l /\ k = n + 1 /\ new[b][k] = x
        BY <2>4
    <2>5. ~(/\ j \in 1 .. Len(list[a]) /\ new[a][j] = list[a][j]
            /\ b = l /\ k = n + 1 /\ new[b][k] = x)
        BY <1>3
    <2>6. ~(/\ k \in 1 .. Len(list[b]) /\ new[b][k] = list[b][k]
            /\ a = l /\ j = n + 1 /\ new[a][j] = x)
        BY <1>3
    <2> QED  BY <2>1, <2>2, <2>3, <2>4, <2>5, <2>6
<1>8. ASSUME NEW m \in Lists, NEW c
      PROVE  Holds(new[m], c) <=> Holds(list[m], c) \/ (m = l /\ c = x.co)
    <2>1. Holds(new[m], c) <=> \E k \in 1 .. Len(new[m]) : new[m][k].co = c
        BY ListLengths, HoldsIs
    <2>2. Holds(list[m], c) <=> \E k \in 1 .. Len(list[m]) : list[m][k].co = c
        BY ListLengths, HoldsIs
    <2>3. CASE m = l
        BY <1>1, <1>4, <1>5, <1>6, <2>1, <2>2, <2>3
    <2>4. CASE m # l
        BY <1>2, <2>1, <2>2, <2>4
    <2> QED  BY <2>3, <2>4
<1>9. ASSUME NEW i
      PROVE  UsedAt(new, i) <=> UsedAt(list, i) \/ i = x.at
    <2>1. ASSUME NEW m \in Lists
          PROVE  (\E k \in 1 .. Len(new[m]) : new[m][k].at = i) <=>
                     (\E k \in 1 .. Len(list[m]) : list[m][k].at = i)
                         \/ (m = l /\ i = x.at)
        <3>1. CASE m = l
            BY <1>1, <1>4, <1>5, <1>6, <3>1
        <3>2. CASE m # l
            BY <1>2, <3>2
        <3> QED  BY <3>1, <3>2
    <2> QED  BY <2>1 DEF UsedAt
<1> QED  BY <1>7, <1>8, <1>9 DEF Gains

(* The k-th element of list l is removed.                                  *)
Removed(new, list, l, k) ==
    new[l] = RemoveAt(list[l], k) /\ \A m \in Lists \ {l} : new[m] = list[m]

(* Callout c, at index i, is no longer in the lists.                       *)
Loses(new, list, c, i) ==
    /\ Apart(new)
    /\ \A m \in Lists : \A d : Holds(new[m], d) <=> Holds(list[m], d) /\ d # c
    /\ \A j : UsedAt(new, j) <=> UsedAt(list, j) /\ j # i

LEMMA RemovedLists ==
    ASSUME NEW list \in AllLists, NEW new \in AllLists, NEW l \in Lists,
           NEW p \in 1 .. Len(list[l]), Removed(new, list, l, p), Apart(list)
    PROVE  Loses(new, list, list[l][p].co, list[l][p].at)
<1> DEFINE n == Len(list[l])
           src(a, j) == IF a = l /\ j >= p THEN j + 1 ELSE j
<1>1. /\ n \in Nat /\ n = Len(list[l]) /\ Len(new[l]) = n - 1
      /\ \A k \in 1 .. n - 1 : new[l][k] = IF k < p THEN list[l][k] ELSE list[l][k + 1]
      /\ p \in 1 .. n
    BY ListLengths, RemoveElem DEF Removed
<1>2. \A m \in Lists \ {l} : new[m] = list[m]
    BY DEF Removed
<1>3. \A a \in Lists : Len(list[a]) \in Nat
    BY ListLengths
<1> HIDE DEF n
<1>4. ASSUME NEW a \in Lists, NEW j \in 1 .. Len(new[a])
      PROVE  /\ src(a, j) \in 1 .. Len(list[a]) /\ new[a][j] = list[a][src(a, j)]
             /\ a = l => src(a, j) # p
    <2>1. CASE a = l
        BY <1>1, <2>1
    <2>2. CASE a # l
        BY <1>2, <2>2
    <2> QED  BY <2>1, <2>2
<1>5. ASSUME NEW a \in Lists, NEW j \in 1 .. Len(list[a]), a = l => j # p
      PROVE  \E k \in 1 .. Len(new[a]) : new[a][k] = list[a][j]
    <2>1. CASE a = l /\ j < p
        <3>1. j \in 1 .. n - 1
            BY <1>1, <2>1
        <3> QED  BY <1>1, <2>1, <3>1
    <2>2. CASE a = l /\ j > p
        <3>1. j - 1 \in 1 .. n - 1 /\ ~(j - 1 < p) /\ (j - 1) + 1 = j
            BY <1>1, <2>2
        <3> QED  BY <1>1, <2>2, <3>1
    <2>3. CASE a # l
        BY <1>2, <2>3
    <2> QED  BY <1>1, <1>5, <2>1, <2>2, <2>3
<1>6. \A a \in Lists : \A j \in 1 .. Len(list[a]) :
          ~(a = l /\ j = p) => /\ list[a][j].co # list[l][p].co
                               /\ list[a][j].at # list[l][p].at
    BY DEF Apart
<1>7. Apart(new)
    <2> SUFFICES ASSUME NEW a \in Lists, NEW b \in Lists,
                        NEW j \in 1 .. Len(new[a]), NEW k \in 1 .. Len(new[b]),
                        new[a][j].co = new[b][k].co \/ new[a][j].at = new[b][k].at
                 PROVE  a = b /\ j = k
        BY DEF Apart
    <2>1. /\ src(a, j) \in 1 .. Len(list[a]) /\ new[a][j] = list[a][src(a, j)]
          /\ src(b, k) \in 1 .. Len(list[b]) /\ new[b][k] = list[b][src(b, k)]
        BY <1>4
    <2>2. a = b /\ src(a, j) = src(b, k)
        <3> HIDE DEF src
        <3> QED  BY <2>1, SMTT(30) DEF Apart
    <2> QED  BY <1>1, <2>2, SMTT(30)
<1> HIDE DEF src
<1>8. ASSUME NEW m \in Lists, NEW c
      PROVE  Holds(new[m], c) <=> Holds(list[m], c) /\ c # list[l][p].co
    <2>1. Holds(new[m], c) <=> \E k \in 1 .. Len(new[m]) : new[m][k].co = c
        BY ListLengths, HoldsIs
    <2>2. Holds(list[m], c) <=> \E k \in 1 .. Len(list[m]) : list[m][k].co = c
        BY ListLengths, HoldsIs
    <2>3. ASSUME Holds(new[m], c)
          PROVE  Holds(list[m], c) /\ c # list[l][p].co
        <3>1. PICK k \in 1 .. Len(new[m]) : new[m][k].co = c
            BY <2>1, <2>3
        <3> QED  BY <1>4, <1>6, <2>2, <3>1
    <2>4. ASSUME Holds(list[m], c), c # list[l][p].co
          PROVE  Holds(new[m], c)
        <3>1. PICK j \in 1 .. Len(list[m]) : list[m][j].co = c
            BY <2>2, <2>4
        <3>2. m = l => j # p
            BY <2>4, <3>1
        <3>3. PICK k \in 1 .. Len(new[m]) : new[m][k] = list[m][j]
            BY <1>5, <3>2
        <3> QED  BY <2>1, <3>1, <3>3
    <2> QED  BY <2>3, <2>4
<1>9. ASSUME NEW i
      PROVE  UsedAt(new, i) <=> UsedAt(list, i) /\ i # list[l][p].at
    <2>1. ASSUME UsedAt(new, i)
          PROVE  UsedAt(list, i) /\ i # list[l][p].at
        <3>1. PICK a \in Lists : \E k \in 1 .. Len(new[a]) : new[a][k].at = i
            BY <2>1 DEF UsedAt
        <3>2. PICK k \in 1 .. Len(new[a]) : new[a][k].at = i
            BY <3>1
        <3> QED  BY <1>4, <1>6, <3>2 DEF UsedAt
    <2>2. ASSUME UsedAt(list, i), i # list[l][p].at
          PROVE  UsedAt(new, i)
        <3>1. PICK a \in Lists : \E j \in 1 .. Len(list[a]) : list[a][j].at = i
            BY <2>2 DEF UsedAt
        <3>2. PICK j \in 1 .. Len(list[a]) : list[a][j].at = i
            BY <3>1
        <3>3. a = l => j # p
            BY <2>2, <3>2
        <3>4. PICK k \in 1 .. Len(new[a]) : new[a][k] = list[a][j]
            BY <1>5, <3>3
        <3> QED  BY <3>2, <3>4 DEF UsedAt
    <2> QED  BY <2>1, <2>2
<1> QED  BY <1>7, <1>8, <1>9 DEF Loses


(* All of list l is moved to the end of list m.                            *)
Moved(new, list, l, m) ==
    /\ new[l] = << >> /\ new[m] = list[m] \o list[l]
    /\ \A k \in Lists \ {l, m} : new[k] = list[k]

(* The callouts of l are in m, with the same indices.                      *)
Shifts(new, list, l, m) ==
    /\ Apart(new)
    /\ \A k \in Lists : \A c : Holds(new[k], c) <=>
             \/ k # l /\ Holds(list[k], c)
             \/ k = m /\ Holds(list[l], c)
    /\ \A i : UsedAt(new, i) <=> UsedAt(list, i)

LEMMA MovedLists ==
    ASSUME NEW list \in AllLists, NEW new \in AllLists,
           NEW l \in Lists, NEW m \in Lists, l # m,
           Moved(new, list, l, m), Apart(list)
    PROVE  Shifts(new, list, l, m)
<1> DEFINE n == Len(list[m])
           from(a, j) == IF a = m /\ j > n THEN l ELSE a
           src(a, j) == IF a = m /\ j > n THEN j - n ELSE j
<1>1. list[l] \in Seq(Element) /\ list[m] \in Seq(Element)
    BY ListLengths
<1>2. Joined(new[m], list[m], list[l])
    BY <1>1, ConcatElem DEF Moved
<1>3. /\ n \in Nat /\ n = Len(list[m]) /\ Len(list[l]) \in Nat
      /\ Len(new[m]) = n + Len(list[l])
      /\ \A k \in 1 .. n : new[m][k] = list[m][k]
      /\ \A k \in 1 .. Len(list[l]) : new[m][n + k] = list[l][k]
    BY <1>2 DEF Joined
<1>4. /\ \A k \in Lists \ {l, m} : new[k] = list[k]
      /\ Len(new[l]) = 0 /\ \A a \in Lists : Len(list[a]) \in Nat
    BY ListLengths DEF Moved
<1> HIDE DEF n
<1>5. ASSUME NEW a \in Lists, NEW j \in 1 .. Len(new[a])
      PROVE  /\ a # l /\ from(a, j) \in Lists
             /\ src(a, j) \in 1 .. Len(list[from(a, j)])
             /\ new[a][j] = list[from(a, j)][src(a, j)]
    <2>1. a # l
        BY <1>4
    <2>2. CASE a = m /\ j > n
        <3> DEFINE p == Len(list[l])
        <3>1. j \in 1 .. n + p /\ p \in Nat /\ n \in Nat /\ j > n
            BY <1>3, <2>2
        <3>2. j - n \in 1 .. p /\ n + (j - n) = j
            <4> HIDE DEF p
            <4> QED  BY <3>1
        <3> QED  BY <1>3, <2>1, <2>2, <3>2
    <2>3. CASE a = m /\ ~(j > n)
        <3>1. j \in 1 .. n
            BY <1>3, <2>3
        <3> QED  BY <1>3, <2>1, <2>3, <3>1
    <2>4. CASE a # m
        BY <1>4, <2>1, <2>4
    <2> QED  BY <2>2, <2>3, <2>4
<1>6. ASSUME NEW a \in Lists, NEW j \in 1 .. Len(list[a])
      PROVE  \E k \in 1 .. Len(new[IF a = l THEN m ELSE a]) :
                 new[IF a = l THEN m ELSE a][k] = list[a][j]
    <2>1. CASE a = l
        <3> DEFINE p == Len(list[l])
        <3>1. j \in 1 .. p /\ p \in Nat /\ n \in Nat
            BY <1>3, <2>1
        <3>2. n + j \in 1 .. n + p
            <4> HIDE DEF p
            <4> QED  BY <3>1
        <3>3. n + j \in 1 .. Len(new[m]) /\ new[m][n + j] = list[l][j]
            BY <1>3, <3>1, <3>2
        <3> QED  BY <2>1, <3>3
    <2>2. CASE a = m
        <3> DEFINE p == Len(list[l])
        <3>1. j \in 1 .. n /\ p \in Nat /\ n \in Nat
            BY <1>3, <2>2
        <3>2. j \in 1 .. n + p
            <4> HIDE DEF p
            <4> QED  BY <3>1
        <3>3. j \in 1 .. Len(new[m]) /\ new[m][j] = list[m][j]
            BY <1>3, <3>1, <3>2
        <3> QED  BY <2>2, <3>3
    <2>3. CASE a # l /\ a # m
        BY <1>4, <2>3
    <2> QED  BY <2>1, <2>2, <2>3
<1>7. Apart(new)
    <2> SUFFICES ASSUME NEW a \in Lists, NEW b \in Lists,
                        NEW j \in 1 .. Len(new[a]), NEW k \in 1 .. Len(new[b]),
                        new[a][j].co = new[b][k].co \/ new[a][j].at = new[b][k].at
                 PROVE  a = b /\ j = k
        BY DEF Apart
    <2>1. /\ a # l /\ from(a, j) \in Lists /\ src(a, j) \in 1 .. Len(list[from(a, j)])
          /\ new[a][j] = list[from(a, j)][src(a, j)]
          /\ b # l /\ from(b, k) \in Lists /\ src(b, k) \in 1 .. Len(list[from(b, k)])
          /\ new[b][k] = list[from(b, k)][src(b, k)]
        BY <1>5
    <2>2. from(a, j) = from(b, k) /\ src(a, j) = src(b, k)
        <3> HIDE DEF src, from
        <3> QED  BY <2>1 DEF Apart
    <2> QED  BY <1>3, <2>1, <2>2
<1> HIDE DEF src, from
<1>8. ASSUME NEW k \in Lists, NEW c
      PROVE  Holds(new[k], c) <=> \/ k # l /\ Holds(list[k], c)
                                  \/ k = m /\ Holds(list[l], c)
    <2>1. /\ Holds(new[k], c) <=> \E j \in 1 .. Len(new[k]) : new[k][j].co = c
          /\ Holds(list[k], c) <=> \E j \in 1 .. Len(list[k]) : list[k][j].co = c
          /\ Holds(list[l], c) <=> \E j \in 1 .. Len(list[l]) : list[l][j].co = c
        BY ListLengths, HoldsIs, SMTT(30)
    <2>2. ASSUME Holds(new[k], c)
          PROVE  k # l /\ (Holds(list[k], c) \/ (k = m /\ Holds(list[l], c)))
        <3>1. PICK j \in 1 .. Len(new[k]) : new[k][j].co = c
            BY <2>1, <2>2
        <3> QED  BY <1>5, <2>1, <3>1 DEF from
    <2>3. ASSUME k # l, Holds(list[k], c)
          PROVE  Holds(new[k], c)
        <3>1. PICK j \in 1 .. Len(list[k]) : list[k][j].co = c
            BY <2>1, <2>3
        <3> QED  BY <1>6, <2>1, <2>3, <3>1
    <2>4. ASSUME k = m, Holds(list[l], c)
          PROVE  Holds(new[k], c)
        <3>1. PICK j \in 1 .. Len(list[l]) : list[l][j].co = c
            BY <2>1, <2>4
        <3>2. \E i \in 1 .. Len(new[m]) : new[m][i] = list[l][j]
            BY <1>6
        <3> QED  BY <2>1, <2>4, <3>1, <3>2
    <2> QED  BY <2>2, <2>3, <2>4
<1>9. ASSUME NEW i
      PROVE  UsedAt(new, i) <=> UsedAt(list, i)
    <2>1. ASSUME UsedAt(new, i)
          PROVE  UsedAt(list, i)
        <3>1. PICK a \in Lists : \E j \in 1 .. Len(new[a]) : new[a][j].at = i
            BY <2>1 DEF UsedAt
        <3>2. PICK j \in 1 .. Len(new[a]) : new[a][j].at = i
            BY <3>1
        <3> QED  BY <1>5, <3>2 DEF UsedAt
    <2>2. ASSUME UsedAt(list, i)
          PROVE  UsedAt(new, i)
        <3>1. PICK a \in Lists : \E j \in 1 .. Len(list[a]) : list[a][j].at = i
            BY <2>2 DEF UsedAt
        <3>2. PICK j \in 1 .. Len(list[a]) : list[a][j].at = i
            BY <3>1
        <3>3. (IF a = l THEN m ELSE a) \in Lists
            OBVIOUS
        <3> QED  BY <1>6, <3>2, <3>3 DEF UsedAt
    <2> QED  BY <2>1, <2>2
<1> QED  BY <1>7, <1>8, <1>9 DEF Shifts

---------------------------------------------------------------------------
(* The table.                                                              *)

(* Where a callout can be, and whether it is there.                        *)
Everywhere == Lists \cup {Queue}
In(tab, c, l) == IF l = Queue THEN Holds(tab.queue, c) ELSE Holds(tab.list[l], c)

(* Each callout is in one place, once.                                     *)
Placed(tab) ==
    /\ Once(tab.queue)
    /\ Apart(tab.list)
    /\ \A c \in Callouts, l \in Everywhere, m \in Everywhere :
          In(tab, c, l) /\ In(tab, c, m) => l = m

(* The queue and the elements of the lists share the array: from cycbrk on *)
(* every index is used or free and not both.                               *)
Packed(tab) ==
    /\ Len(tab.queue) <= tab.cycbrk
    /\ \A i \in Int : UsedAt(tab.list, i) \/ i \in tab.flist
                          <=> tab.cycbrk <= i /\ i < COTABSZ
    /\ \A i \in tab.flist : ~UsedAt(tab.list, i)
    /\ tab.cycbrk \notin tab.flist

Sound(tab) == Good(tab) /\ Heap(tab.queue) /\ Placed(tab) /\ Packed(tab)

(* Callout c comes to l, or goes, or everything in l is moved to m.        *)
Came(new, tab, c, l) ==
    \A d \in Callouts, m \in Everywhere : In(new, d, m) <=> In(tab, d, m) \/ (d = c /\ m = l)
Went(new, tab, c) ==
    \A d \in Callouts, m \in Everywhere : In(new, d, m) <=> In(tab, d, m) /\ d # c
WentOver(new, tab, l, m) ==
    \A d \in Callouts, k \in Everywhere :
        In(new, d, k) <=> \/ k # l /\ In(tab, d, k)
                          \/ k = m /\ In(tab, d, l)

LEMMA TableFields ==
    ASSUME NEW tab \in Table
    PROVE  /\ tab.list \in AllLists /\ tab.queue \in Seq(QueueEntry)
           /\ tab.cycbrk \in Int /\ tab.flist \in SUBSET Int
           /\ tab.timestamp \in Nat /\ tab.timeout \in Nat
           /\ tab.flist \in SUBSET Index /\ COTABSZ \in Nat
           /\ \A i \in Index : i \in Int /\ i < COTABSZ
BY TableAssumption DEF Table, Index, AllLists

LEMMA InIs ==
    ASSUME NEW tab, NEW c
    PROVE  /\ In(tab, c, Queue) <=> Holds(tab.queue, c)
           /\ \A l \in Lists : In(tab, c, l) <=> Holds(tab.list[l], c)
BY ListNames DEF In

LEMMA CameToPlace ==
    ASSUME NEW tab, Placed(tab), NEW new, NEW c, NEW l \in Everywhere,
           Came(new, tab, c, l), \A m \in Everywhere : ~In(tab, c, m)
    PROVE  \A d \in Callouts, k \in Everywhere, m \in Everywhere :
               In(new, d, k) /\ In(new, d, m) => k = m
BY DEF Placed, Came

LEMMA WentFromPlace ==
    ASSUME NEW tab, Placed(tab), NEW new, NEW c, Went(new, tab, c)
    PROVE  \A d \in Callouts, k \in Everywhere, m \in Everywhere :
               In(new, d, k) /\ In(new, d, m) => k = m
BY DEF Placed, Went

LEMMA WentOverPlace ==
    ASSUME NEW tab, Placed(tab), NEW new, NEW l \in Everywhere, NEW n \in Everywhere,
           l # n, WentOver(new, tab, l, n)
    PROVE  \A d \in Callouts, k \in Everywhere, m \in Everywhere :
               In(new, d, k) /\ In(new, d, m) => k = m
BY DEF Placed, WentOver

(* Nothing but the timestamp, the time of the first callout and the        *)
(* counters changes.                                                       *)
LEMMA SamePlaces ==
    ASSUME NEW tab, Sound(tab), NEW new, Good(new),
           new.list = tab.list, new.queue = tab.queue,
           new.cycbrk = tab.cycbrk, new.flist = tab.flist
    PROVE  Sound(new) /\ \A c \in Callouts, l \in Everywhere : In(new, c, l) <=> In(tab, c, l)
BY Zenon DEF Sound, Placed, Packed, In

(* newcallout(): the element is at a place of the array that nothing used. *)
LEMMA NewCalloutSound ==
    ASSUME NEW tab, Sound(tab), NEW l \in Lists \ {Running}, NEW t \in Nat,
           l \in Slots <=> t # 0,
           NEW c \in Callouts, NEW i \in NewIndices(tab),
           \A m \in Everywhere : ~In(tab, c, m), Len(tab.queue) < tab.cycbrk
    PROVE  LET new == NewCallout(tab, l, t, c, i)
           IN  /\ Sound(new) /\ Came(new, tab, c, l)
               /\ new.queue = tab.queue /\ new.timestamp = tab.timestamp
               /\ new.timeout = NewTimeout(tab, l, t)
<1> DEFINE new == NewCallout(tab, l, t, c, i)
           x == [co |-> c, at |-> i]
<1>1. /\ Good(new) /\ Good(tab) /\ tab \in Table /\ new \in Table /\ i \in Index
      /\ Placed(tab) /\ Packed(tab) /\ Heap(tab.queue)
    BY NewCalloutGood, NewIndicesType DEF Good, Sound
<1>2. /\ tab.list \in AllLists /\ new.list \in AllLists /\ x \in Element
      /\ tab.cycbrk \in Int /\ tab.flist \in SUBSET Int /\ i \in Int /\ i < COTABSZ
      /\ Len(tab.queue) \in Nat
    BY <1>1, TableFields, QueueEntries DEF Element
<1>3. /\ new.queue = tab.queue /\ new.timestamp = tab.timestamp
      /\ new.timeout = NewTimeout(tab, l, t)
      /\ new.flist = tab.flist \ {i}
      /\ new.cycbrk = IF tab.flist = {} THEN i ELSE tab.cycbrk
      /\ new.list = [tab.list EXCEPT ![l] = Append(@, x)]
    BY <1>1 DEF NewCallout, Table
<1>4. Added(new.list, tab.list, l, x)
    BY <1>2, <1>3 DEF Added, AllLists
<1>5. \A m \in Lists : ~Holds(tab.list[m], c)
    BY InIs DEF Everywhere
<1>6. IF tab.flist = {} THEN i = tab.cycbrk - 1 ELSE i \in tab.flist
    BY DEF NewIndices
<1>7. ~UsedAt(tab.list, i)
    BY <1>1, <1>2, <1>6 DEF Packed
<1>8. x.co = c /\ x.at = i
    OBVIOUS
<1> HIDE DEF new, x
<1>9. Gains(new.list, tab.list, l, c, i)
    <2>1. Apart(tab.list) /\ ~InLists(tab.list, x.co) /\ ~UsedAt(tab.list, x.at)
        BY <1>1, <1>5, <1>7, <1>8 DEF Placed, InLists
    <2>2. Gains(new.list, tab.list, l, x.co, x.at)
        BY <1>2, <1>4, <2>1, AddedLists
    <2> QED  BY <1>8, <2>2
<1>10. Came(new, tab, c, l)
    <2> SUFFICES ASSUME NEW d \in Callouts, NEW m \in Everywhere
                 PROVE  In(new, d, m) <=> In(tab, d, m) \/ (d = c /\ m = l)
        BY DEF Came
    <2>1. CASE m = Queue
        BY <1>3, <2>1, InIs, ListNames
    <2>2. CASE m \in Lists
        BY <1>9, <2>2, InIs DEF Gains
    <2> QED  BY <2>1, <2>2 DEF Everywhere
<1>11. Placed(new)
    <2>1. l \in Everywhere
        BY DEF Everywhere
    <2>2. \A d \in Callouts, k \in Everywhere, m \in Everywhere :
              In(new, d, k) /\ In(new, d, m) => k = m
        BY <1>1, <1>10, <2>1, CameToPlace
    <2> QED  BY <1>1, <1>3, <1>9, <2>2 DEF Placed, Gains
<1>12. Packed(new)
    <2> DEFINE u(j) == UsedAt(tab.list, j)
               v(j) == UsedAt(new.list, j)
    <2>1. /\ Len(tab.queue) <= tab.cycbrk
          /\ \A j \in Int : u(j) \/ j \in tab.flist <=> tab.cycbrk <= j /\ j < COTABSZ
          /\ \A j \in tab.flist : ~u(j)
          /\ tab.cycbrk \notin tab.flist
        BY <1>1 DEF Packed
    <2>2. \A j : v(j) <=> u(j) \/ j = i
        BY <1>9 DEF Gains
    <2> SUFFICES /\ Len(new.queue) <= new.cycbrk
                 /\ \A j \in Int : v(j) \/ j \in new.flist
                                       <=> new.cycbrk <= j /\ j < COTABSZ
                 /\ \A j \in new.flist : ~v(j)
                 /\ new.cycbrk \notin new.flist
        BY DEF Packed
    <2> HIDE DEF u, v
    <2>3. COTABSZ \in Int
        BY TableAssumption
    <2>4. CASE tab.flist = {}
        BY <1>2, <1>3, <1>6, <2>1, <2>2, <2>3, <2>4
    <2>5. CASE tab.flist # {}
        BY <1>2, <1>3, <1>6, <2>1, <2>2, <2>3, <2>5
    <2> QED  BY <2>4, <2>5
<1> QED  BY <1>1, <1>3, <1>10, <1>11, <1>12 DEF Sound, new


(* Where the break recedes to.                                             *)
LEMMA RecedeIs ==
    ASSUME NEW tab \in Table, tab.cycbrk < COTABSZ
    PROVE  /\ Recede(tab) \in Int
           /\ tab.cycbrk < Recede(tab) /\ Recede(tab) <= COTABSZ
           /\ Recede(tab) = COTABSZ \/ Recede(tab) \notin tab.flist
           /\ \A j \in Int : tab.cycbrk < j /\ j < Recede(tab) => j \in tab.flist
<1> DEFINE Stop == {k \in tab.cycbrk + 1 .. COTABSZ : k = COTABSZ \/ k \notin tab.flist}
           edge(k) == /\ k = COTABSZ \/ k \notin tab.flist
                      /\ \A j \in tab.cycbrk + 1 .. k - 1 : j \in tab.flist
<1>1. tab.cycbrk \in Int /\ tab.cycbrk < COTABSZ /\ COTABSZ \in Int
    BY TableFields
<1>2. Stop \subseteq Int /\ COTABSZ \in Stop /\ \A k \in Stop : k >= tab.cycbrk + 1
    BY <1>1
<1>3. PICK k \in Stop : \A j \in Stop : k <= j
    <2>1. Stop # {} /\ tab.cycbrk + 1 \in Int
        BY <1>1, <1>2
    <2> HIDE DEF Stop
    <2> QED  BY <1>2, <2>1, LeastExists
<1>4. \E e \in tab.cycbrk + 1 .. COTABSZ : edge(e)
    <2>1. \A j \in tab.cycbrk + 1 .. k - 1 : j \in tab.flist
        BY <1>1, <1>3
    <2> QED  BY <1>3, <2>1
<1>5. Recede(tab) = CHOOSE e \in tab.cycbrk + 1 .. COTABSZ : edge(e)
    BY DEF Recede
<1> HIDE DEF edge
<1>6. Recede(tab) \in tab.cycbrk + 1 .. COTABSZ /\ edge(Recede(tab))
    BY <1>4, <1>5
<1> QED  BY <1>1, <1>6 DEF edge

(* freecallout(): the element at the edge, or one further in.              *)
FreedFrom(new, tab, l, k, t) ==
    /\ Sound(new) /\ Went(new, tab, tab.list[l][k].co)
    /\ new.queue = tab.queue /\ new.timestamp = tab.timestamp
    /\ new.timeout =
           IF new.list[l] # << >> \/ t = 0 \/ t # tab.timeout THEN tab.timeout
           ELSE IF new.nshort # new.nzero THEN NextTimeout(new.list, t) ELSE 0

LEMMA FreeCalloutSound ==
    ASSUME NEW tab, Sound(tab), NEW l \in Lists, NEW t \in Nat,
           l \in Slots <=> t # 0, NEW k \in 1 .. Len(tab.list[l])
    PROVE  FreedFrom(FreeCallout(tab, l, k, t), tab, l, k, t)
<1> DEFINE new == FreeCallout(tab, l, k, t)
           i == tab.list[l][k].at
           c == tab.list[l][k].co
           brk == IF i = tab.cycbrk THEN Recede(tab) ELSE tab.cycbrk
<1>1. /\ Good(new) /\ Good(tab) /\ tab \in Table /\ new \in Table
      /\ Placed(tab) /\ Packed(tab) /\ Heap(tab.queue)
    BY FreeCalloutGood DEF Good, Sound
<1>2. /\ tab.list \in AllLists /\ new.list \in AllLists
      /\ tab.cycbrk \in Int /\ tab.flist \in SUBSET Int /\ i \in Int /\ i < COTABSZ
      /\ Len(tab.queue) \in Nat /\ COTABSZ \in Int /\ c \in Callouts
    BY <1>1, TableFields, QueueEntries, ListLengths
<1>3. /\ new.queue = tab.queue /\ new.timestamp = tab.timestamp
      /\ new.list = [tab.list EXCEPT ![l] = RemoveAt(@, k)]
      /\ new.cycbrk = brk
      /\ new.flist = IF i = tab.cycbrk THEN {x \in tab.flist : x > brk}
                                       ELSE tab.flist \cup {i}
    BY <1>1 DEF FreeCallout, Freed, Table
<1>4. new.timeout = IF new.list[l] # << >> \/ t = 0 \/ t # tab.timeout THEN tab.timeout
                    ELSE IF new.nshort # new.nzero THEN NextTimeout(new.list, t) ELSE 0
    BY <1>1 DEF FreeCallout, Freed, Table
<1>5. Removed(new.list, tab.list, l, k) /\ new.list[l] = RemoveAt(tab.list[l], k)
    BY <1>2, <1>3 DEF Removed, AllLists
<1>6. Loses(new.list, tab.list, c, i)
    <2> HIDE DEF new
    <2> QED  BY <1>1, <1>2, <1>5, RemovedLists DEF Placed
<1>7. UsedAt(tab.list, i)
    BY DEF UsedAt
<1>8. i = tab.cycbrk => /\ brk \in Int /\ tab.cycbrk < brk /\ brk <= COTABSZ
                        /\ brk = COTABSZ \/ brk \notin tab.flist
                        /\ \A j \in Int : tab.cycbrk < j /\ j < brk => j \in tab.flist
    BY <1>1, <1>2, RecedeIs
<1>9. i # tab.cycbrk => brk = tab.cycbrk
    OBVIOUS
<1> HIDE DEF new, i, brk, c
<1>10. Went(new, tab, c)
    <2> SUFFICES ASSUME NEW d \in Callouts, NEW m \in Everywhere
                 PROVE  In(new, d, m) <=> In(tab, d, m) /\ d # c
        BY DEF Went
    <2>1. CASE m = Queue
        <3>1. ~In(tab, c, Queue)
            <4>1. Holds(tab.list[l], c)
                BY <1>2, HoldsIs, ListLengths DEF c
            <4>2. In(tab, c, l) /\ l \in Everywhere /\ Queue \in Everywhere /\ l # Queue
                BY <4>1, InIs, ListNames DEF Everywhere
            <4> QED  BY <1>1, <1>2, <4>2 DEF Placed
        <3>2. In(new, d, m) <=> In(tab, d, m)
            BY <1>3, <2>1, InIs
        <3> QED  BY <2>1, <3>1, <3>2
    <2>2. CASE m \in Lists
        BY <1>6, <2>2, InIs DEF Loses
    <2> QED  BY <2>1, <2>2 DEF Everywhere
<1>11. Placed(new)
    <2>1. \A d \in Callouts, j \in Everywhere, m \in Everywhere :
              In(new, d, j) /\ In(new, d, m) => j = m
        BY <1>1, <1>10, WentFromPlace
    <2> QED  BY <1>1, <1>3, <1>6, <2>1 DEF Placed, Loses
<1>12. Packed(new)
    <2> DEFINE u(j) == UsedAt(tab.list, j)
               v(j) == UsedAt(new.list, j)
    <2>1. /\ Len(tab.queue) <= tab.cycbrk
          /\ \A j \in Int : u(j) \/ j \in tab.flist <=> tab.cycbrk <= j /\ j < COTABSZ
          /\ \A j \in tab.flist : ~u(j)
          /\ tab.cycbrk \notin tab.flist
        BY <1>1 DEF Packed
    <2>2. u(i) /\ \A j : v(j) <=> u(j) /\ j # i
        BY <1>6, <1>7 DEF Loses
    <2> SUFFICES /\ Len(new.queue) <= new.cycbrk
                 /\ \A j \in Int : v(j) \/ j \in new.flist
                                       <=> new.cycbrk <= j /\ j < COTABSZ
                 /\ \A j \in new.flist : ~v(j)
                 /\ new.cycbrk \notin new.flist
        BY DEF Packed
    <2> HIDE DEF u, v
    <2>3. CASE i = tab.cycbrk
        <3>1. new.flist = {x \in tab.flist : x > brk} /\ new.cycbrk = brk
            BY <1>3, <2>3
        <3>2. ASSUME NEW j \in Int
              PROVE  v(j) \/ j \in new.flist <=> brk <= j /\ j < COTABSZ
            <4>1. CASE j > brk
                BY <1>2, <1>8, <2>1, <2>2, <2>3, <3>1, <4>1
            <4>2. CASE j = brk
                BY <1>2, <1>8, <2>1, <2>2, <2>3, <3>1, <4>2
            <4>3. CASE j < brk
                BY <1>2, <1>8, <2>1, <2>2, <2>3, <3>1, <4>3
            <4> QED  BY <1>8, <2>3, <4>1, <4>2, <4>3
        <3> QED  BY <1>2, <1>3, <1>8, <2>1, <2>2, <2>3, <3>1, <3>2
    <2>4. CASE i # tab.cycbrk
        BY <1>2, <1>3, <1>9, <2>1, <2>2, <2>4
    <2> QED  BY <2>3, <2>4
<1>13. Sound(new)
    BY <1>1, <1>3, <1>11, <1>12 DEF Sound
<1>14. FreedFrom(new, tab, l, k, t)
    BY <1>3, <1>4, <1>10, <1>13 DEF FreedFrom, c
<1> QED  BY <1>14 DEF new

(* enqueue() and dequeue().                                                *)
LEMMA EnqueueSound ==
    ASSUME NEW tab, Sound(tab), NEW e \in QueueEntry,
           \A m \in Everywhere : ~In(tab, e.co, m), Len(tab.queue) < tab.cycbrk,
           NEW new, new = [tab EXCEPT !.queue = Enqueue(@, e)]
    PROVE  /\ Sound(new) /\ Came(new, tab, e.co, Queue)
           /\ Enqueued(new.queue, tab.queue, e)
           /\ new.list = tab.list /\ new.timestamp = tab.timestamp
           /\ new.timeout = tab.timeout
<1> DEFINE r == Enqueue(tab.queue, e)
<1>1. /\ Good(tab) /\ Placed(tab) /\ Packed(tab) /\ Heap(tab.queue)
      /\ tab \in Table /\ tab.queue \in Seq(QueueEntry)
    BY TableFields DEF Sound, Good
<1>2. Enqueued(r, tab.queue, e) /\ Heap(r) /\ r \in Seq(QueueEntry)
    BY <1>1, EnqueueContent, EnqueueHeap, EnqueueType
<1>3. /\ new.queue = r /\ new.list = tab.list /\ new.timestamp = tab.timestamp
      /\ new.timeout = tab.timeout /\ new.cycbrk = tab.cycbrk /\ new.flist = tab.flist
    BY <1>1 DEF Table
<1>4. new = [tab EXCEPT !.queue = r]
    OBVIOUS
<1> HIDE DEF r
<1>5. Good(new)
    BY <1>1, <1>2, <1>4, OtherQueue
<1>6. /\ \A d : Holds(r, d) <=> \E k \in 1 .. Len(r) : r[k].co = d
      /\ \A d : Holds(tab.queue, d) <=> \E k \in 1 .. Len(tab.queue) : tab.queue[k].co = d
    BY <1>1, <1>2, HoldsIs
<1>7. ASSUME NEW d
      PROVE  Holds(r, d) <=> Holds(tab.queue, d) \/ d = e.co
    <2>1. ASSUME Holds(r, d)
          PROVE  Holds(tab.queue, d) \/ d = e.co
        BY <1>2, <1>6, <2>1 DEF Enqueued
    <2>2. ASSUME Holds(tab.queue, d)
          PROVE  Holds(r, d)
        <3>1. PICK j \in 1 .. Len(tab.queue) : tab.queue[j].co = d
            BY <1>6, <2>2
        <3> QED  BY <1>2, <1>6, <3>1 DEF Enqueued
    <2>3. Holds(r, e.co)
        BY <1>2, <1>6 DEF Enqueued
    <2> QED  BY <2>1, <2>2, <2>3
<1>8. Came(new, tab, e.co, Queue)
    <2> SUFFICES ASSUME NEW d \in Callouts, NEW m \in Everywhere
                 PROVE  In(new, d, m) <=> In(tab, d, m) \/ (d = e.co /\ m = Queue)
        BY DEF Came
    <2>1. CASE m = Queue
        BY <1>3, <1>7, <2>1, InIs
    <2>2. CASE m \in Lists
        BY <1>3, <2>2, InIs, ListNames
    <2> QED  BY <2>1, <2>2 DEF Everywhere
<1>9. Placed(new)
    <2>1. Queue \in Everywhere
        BY DEF Everywhere
    <2>2. \A d \in Callouts, k \in Everywhere, m \in Everywhere :
              In(new, d, k) /\ In(new, d, m) => k = m
        BY <1>1, <1>8, <2>1, CameToPlace
    <2>3. \A j \in 1 .. Len(tab.queue) : tab.queue[j].co # e.co
        <3>1. ~Holds(tab.queue, e.co)
            BY <2>1, InIs
        <3> QED  BY <1>6, <3>1
    <2>4. Once(r)
        BY <1>1, <1>2, <2>3, EnqueueOnce DEF Placed
    <2> QED  BY <1>1, <1>3, <2>2, <2>4 DEF Placed
<1>10. Packed(new)
    <2>1. Len(r) <= tab.cycbrk
        <3>1. Len(r) = Len(tab.queue) + 1 /\ Len(tab.queue) \in Nat /\ tab.cycbrk \in Int
            BY <1>1, <1>2, TableFields, QueueEntries DEF Enqueued
        <3> QED  BY <3>1
    <2> QED  BY <1>1, <1>3, <2>1, Zenon DEF Packed
<1> QED  BY <1>2, <1>3, <1>5, <1>8, <1>9, <1>10 DEF Sound


LEMMA DequeueSound ==
    ASSUME NEW tab, Sound(tab), NEW i \in 1 .. Len(tab.queue),
           NEW new, new = [tab EXCEPT !.queue = Dequeue(@, i)]
    PROVE  /\ Sound(new) /\ Went(new, tab, tab.queue[i].co)
           /\ Dequeued(new.queue, tab.queue, i)
           /\ new.list = tab.list /\ new.timestamp = tab.timestamp
           /\ new.timeout = tab.timeout /\ NewIndices(new) = NewIndices(tab)
           /\ Len(new.queue) < new.cycbrk
<1> DEFINE r == Dequeue(tab.queue, i)
           c == tab.queue[i].co
<1>1. /\ Good(tab) /\ Placed(tab) /\ Packed(tab) /\ Heap(tab.queue)
      /\ tab \in Table /\ tab.queue \in Seq(QueueEntry)
    BY TableFields DEF Sound, Good
<1>2. Dequeued(r, tab.queue, i) /\ Heap(r) /\ r \in Seq(QueueEntry)
    BY <1>1, DequeueContent, DequeueHeap, DequeueType
<1>3. /\ new.queue = r /\ new.list = tab.list /\ new.timestamp = tab.timestamp
      /\ new.timeout = tab.timeout /\ new.cycbrk = tab.cycbrk /\ new.flist = tab.flist
    BY <1>1 DEF Table
<1>4. new = [tab EXCEPT !.queue = r] /\ NewIndices(new) = NewIndices(tab)
    BY <1>3 DEF NewIndices
<1>5. Once(r) /\ \A k \in 1 .. Len(r) : r[k].co # c
    BY <1>1, <1>2, DequeueOnce DEF Placed
<1> HIDE DEF r
<1>6. Good(new)
    BY <1>1, <1>2, <1>4, OtherQueue
<1>7. /\ \A d : Holds(r, d) <=> \E k \in 1 .. Len(r) : r[k].co = d
      /\ \A d : Holds(tab.queue, d) <=> \E k \in 1 .. Len(tab.queue) : tab.queue[k].co = d
    BY <1>1, <1>2, HoldsIs
<1>8. ASSUME NEW d
      PROVE  Holds(r, d) <=> Holds(tab.queue, d) /\ d # c
    <2>1. ASSUME Holds(r, d)
          PROVE  Holds(tab.queue, d) /\ d # c
        BY <1>2, <1>5, <1>7, <2>1 DEF Dequeued
    <2>2. ASSUME Holds(tab.queue, d), d # c
          PROVE  Holds(r, d)
        <3>1. PICK j \in 1 .. Len(tab.queue) : tab.queue[j].co = d
            BY <1>7, <2>2
        <3> QED  BY <1>2, <1>7, <2>2, <3>1 DEF Dequeued
    <2> QED  BY <2>1, <2>2
<1>9. \A m \in Lists : ~In(tab, c, m)
    <2>1. Holds(tab.queue, c) /\ c \in Callouts
        <3>1. tab.queue[i] \in QueueEntry
            BY <1>1
        <3> QED  BY <1>7, <3>1 DEF QueueEntry
    <2>2. In(tab, c, Queue) /\ Queue \in Everywhere
        BY <2>1, InIs DEF Everywhere
    <2> HIDE DEF c
    <2> QED  BY <1>1, <2>1, <2>2, ListNames DEF Placed, Everywhere
<1> HIDE DEF c
<1>10. Went(new, tab, c)
    <2> SUFFICES ASSUME NEW d \in Callouts, NEW m \in Everywhere
                 PROVE  In(new, d, m) <=> In(tab, d, m) /\ d # c
        BY DEF Went
    <2>1. CASE m = Queue
        BY <1>3, <1>8, <2>1, InIs
    <2>2. CASE m \in Lists
        BY <1>3, <1>9, <2>2, InIs
    <2> QED  BY <2>1, <2>2 DEF Everywhere
<1>11. Placed(new)
    <2>1. \A d \in Callouts, k \in Everywhere, m \in Everywhere :
              In(new, d, k) /\ In(new, d, m) => k = m
        BY <1>1, <1>10, WentFromPlace
    <2> QED  BY <1>1, <1>3, <1>5, <2>1 DEF Placed
<1>12. Len(r) < tab.cycbrk
    <2>1. /\ Len(r) = Len(tab.queue) - 1 /\ Len(tab.queue) \in Nat /\ tab.cycbrk \in Int
          /\ Len(tab.queue) <= tab.cycbrk
        BY <1>1, <1>2, TableFields, QueueEntries DEF Dequeued, Packed
    <2> QED  BY <2>1
<1>13. Packed(new)
    <2>1. Len(r) <= tab.cycbrk
        BY <1>1, <1>2, <1>12, TableFields, QueueEntries
    <2> QED  BY <1>1, <1>3, <2>1, Zenon DEF Packed
<1> QED  BY <1>2, <1>3, <1>4, <1>6, <1>10, <1>11, <1>12, <1>13 DEF Sound, c

(* co_expire(): the first callout of the queue is collected.               *)
LEMMA ExpireFirstSound ==
    ASSUME NEW tab, Sound(tab), tab.queue # << >>, NEW i \in NewIndices(tab)
    PROVE  LET new == ExpireFirst(tab, i)
               c == tab.queue[1].co
           IN  /\ Sound(new)
               /\ \A d \in Callouts, m \in Everywhere :
                     In(new, d, m) <=> IF d = c THEN m = Immediate ELSE In(tab, d, m)
               /\ Dequeued(new.queue, tab.queue, 1)
               /\ new.timestamp = tab.timestamp /\ new.timeout = tab.timeout
<1> DEFINE new == ExpireFirst(tab, i)
           c == tab.queue[1].co
           mid == [tab EXCEPT !.queue = Dequeue(@, 1)]
<1>1. tab.queue \in Seq(QueueEntry)
    BY TableFields DEF Sound, Good
<1>2. 1 \in 1 .. Len(tab.queue) /\ c \in Callouts
    <2>1. 1 \in 1 .. Len(tab.queue)
        BY <1>1
    <2>2. tab.queue[1] \in QueueEntry
        BY <1>1, <2>1
    <2> QED  BY <2>1, <2>2 DEF QueueEntry
<1>3. /\ Sound(mid) /\ Went(mid, tab, c)
      /\ Dequeued(mid.queue, tab.queue, 1)
      /\ mid.timestamp = tab.timestamp
      /\ mid.timeout = tab.timeout /\ NewIndices(mid) = NewIndices(tab)
      /\ Len(mid.queue) < mid.cycbrk
    BY <1>2, DequeueSound
<1>4. new = NewCallout(mid, Immediate, 0, c, i)
    BY DEF ExpireFirst
<1>5. Immediate \in Lists \ {Running} /\ (Immediate \in Slots <=> 0 # 0)
    BY ListNames
<1> HIDE DEF mid, c, new
<1>6. \A m \in Everywhere : ~In(mid, c, m)
    BY <1>2, <1>3 DEF Went
<1>7. /\ Sound(new) /\ Came(new, mid, c, Immediate)
      /\ new.queue = mid.queue /\ new.timestamp = mid.timestamp
      /\ new.timeout = NewTimeout(mid, Immediate, 0)
    <2>1. i \in NewIndices(mid)
        BY <1>3
    <2> QED  BY <1>2, <1>3, <1>4, <1>5, <1>6, <2>1, NewCalloutSound
<1>8. new.timeout = tab.timeout
    BY <1>3, <1>7 DEF NewTimeout
<1>9. \A d \in Callouts, m \in Everywhere :
          In(new, d, m) <=> IF d = c THEN m = Immediate ELSE In(tab, d, m)
    BY <1>3, <1>7 DEF Came, Went
<1> QED  BY <1>3, <1>7, <1>8, <1>9 DEF new, c

(* co_expire(): the slot of this second is collected.                      *)
LEMMA ExpireSlotSound ==
    ASSUME NEW tab, Sound(tab)
    PROVE  LET new == ExpireSlot(tab)
           IN  /\ Sound(new) /\ WentOver(new, tab, Slot(tab.timestamp), Immediate)
               /\ new.queue = tab.queue /\ new.timestamp = tab.timestamp
               /\ new.timeout = tab.timeout
<1> DEFINE new == ExpireSlot(tab)
           s == Slot(tab.timestamp)
<1>1. /\ Good(new) /\ Good(tab) /\ tab \in Table /\ new \in Table
      /\ Placed(tab) /\ Packed(tab) /\ Heap(tab.queue)
    BY ExpireSlotGood DEF Good, Sound
<1>2. tab.list \in AllLists /\ new.list \in AllLists
    BY <1>1, TableFields
<1>3. s \in Slots /\ s \in Lists /\ Immediate \in Lists /\ s # Immediate
    BY <1>1, TableFields, SlotOfSecond, ListNames
<1>4. /\ new.queue = tab.queue /\ new.timestamp = tab.timestamp
      /\ new.timeout = tab.timeout /\ new.cycbrk = tab.cycbrk /\ new.flist = tab.flist
      /\ new.list = [tab.list EXCEPT ![s] = << >>,
                                     ![Immediate] = tab.list[Immediate] \o tab.list[s]]
    BY <1>1 DEF ExpireSlot, Table
<1> HIDE DEF new, s
<1>5. Moved(new.list, tab.list, s, Immediate)
    BY <1>2, <1>3, <1>4 DEF Moved, AllLists
<1>6. Shifts(new.list, tab.list, s, Immediate)
    BY <1>1, <1>2, <1>3, <1>5, MovedLists DEF Placed
<1>7. WentOver(new, tab, s, Immediate)
    <2> SUFFICES ASSUME NEW d \in Callouts, NEW k \in Everywhere
                 PROVE  In(new, d, k) <=> \/ k # s /\ In(tab, d, k)
                                          \/ k = Immediate /\ In(tab, d, s)
        BY DEF WentOver
    <2>1. CASE k = Queue
        BY <1>3, <1>4, <2>1, InIs, ListNames
    <2>2. CASE k \in Lists
        BY <1>3, <1>6, <2>2, InIs DEF Shifts
    <2> QED  BY <2>1, <2>2 DEF Everywhere
<1>8. Placed(new)
    <2>1. s \in Everywhere /\ Immediate \in Everywhere
        BY <1>3 DEF Everywhere
    <2>2. \A d \in Callouts, k \in Everywhere, m \in Everywhere :
              In(new, d, k) /\ In(new, d, m) => k = m
        BY <1>1, <1>3, <1>7, <2>1, WentOverPlace
    <2> QED  BY <1>1, <1>4, <1>6, <2>2 DEF Placed, Shifts
<1>9. Packed(new)
    BY <1>1, <1>4, <1>6, Zenon DEF Packed, Shifts
<1> QED  BY <1>1, <1>4, <1>7, <1>8, <1>9 DEF Sound, new, s

(* co_call(): what was collected is now running.                           *)
LEMMA StartRunningSound ==
    ASSUME NEW tab, Sound(tab), tab.list[Running] = << >>
    PROVE  LET new == StartRunning(tab)
           IN  /\ Sound(new) /\ WentOver(new, tab, Immediate, Running)
               /\ new.queue = tab.queue /\ new.timestamp = tab.timestamp
               /\ new.timeout = tab.timeout
<1> DEFINE new == StartRunning(tab)
<1>1. /\ Good(new) /\ Good(tab) /\ tab \in Table /\ new \in Table
      /\ Placed(tab) /\ Packed(tab) /\ Heap(tab.queue)
    BY StartRunningGood DEF Good, Sound
<1>2. tab.list \in AllLists /\ new.list \in AllLists
    BY <1>1, TableFields
<1>3. Running \in Lists /\ Immediate \in Lists /\ Immediate # Running
    BY ListNames
<1>4. /\ new.queue = tab.queue /\ new.timestamp = tab.timestamp
      /\ new.timeout = tab.timeout /\ new.cycbrk = tab.cycbrk /\ new.flist = tab.flist
      /\ new.list = [tab.list EXCEPT ![Running] = tab.list[Immediate],
                                     ![Immediate] = << >>]
    BY <1>1 DEF StartRunning, Table
<1> HIDE DEF new
<1>5. Moved(new.list, tab.list, Immediate, Running)
    <2>1. << >> \o tab.list[Immediate] = tab.list[Immediate]
        <3>1. tab.list[Immediate] \in Seq(Element)
            BY <1>2, <1>3, ListLengths
        <3> QED  BY <3>1
    <2> QED  BY <1>2, <1>3, <1>4, <2>1 DEF Moved, AllLists
<1>6. Shifts(new.list, tab.list, Immediate, Running)
    BY <1>1, <1>2, <1>3, <1>5, MovedLists DEF Placed
<1>7. WentOver(new, tab, Immediate, Running)
    <2> SUFFICES ASSUME NEW d \in Callouts, NEW k \in Everywhere
                 PROVE  In(new, d, k) <=> \/ k # Immediate /\ In(tab, d, k)
                                          \/ k = Running /\ In(tab, d, Immediate)
        BY DEF WentOver
    <2>1. CASE k = Queue
        BY <1>3, <1>4, <2>1, InIs, ListNames
    <2>2. CASE k \in Lists
        BY <1>3, <1>6, <2>2, InIs DEF Shifts
    <2> QED  BY <2>1, <2>2 DEF Everywhere
<1>8. Placed(new)
    <2>1. Running \in Everywhere /\ Immediate \in Everywhere
        BY <1>3 DEF Everywhere
    <2>2. \A d \in Callouts, k \in Everywhere, m \in Everywhere :
              In(new, d, k) /\ In(new, d, m) => k = m
        BY <1>1, <1>3, <1>7, <2>1, WentOverPlace
    <2> QED  BY <1>1, <1>4, <1>6, <2>2 DEF Placed, Shifts
<1>9. Packed(new)
    BY <1>1, <1>4, <1>6, Zenon DEF Packed, Shifts
<1> QED  BY <1>1, <1>4, <1>7, <1>8, <1>9 DEF Sound, new

LEMMA EmptyTableSound ==
    Sound(EmptyTable) /\ \A c \in Callouts, l \in Everywhere : ~In(EmptyTable, c, l)
<1>1. /\ EmptyTable.queue = << >> /\ \A l \in Lists : EmptyTable.list[l] = << >>
      /\ EmptyTable.cycbrk = COTABSZ /\ EmptyTable.flist = {}
    BY DEF EmptyTable
<1>2. \A c : ~Holds(<< >>, c)
    BY DEF Holds
<1>3. \A c \in Callouts, l \in Everywhere : ~In(EmptyTable, c, l)
    BY <1>1, <1>2, InIs DEF Everywhere
<1>4. Heap(<< >>) /\ Once(<< >>) /\ Len(<< >>) = 0
    BY DEF Heap, Once
<1>5. Placed(EmptyTable)
    BY <1>1, <1>3, <1>4 DEF Placed, Apart
<1>6. Packed(EmptyTable)
    <2>1. \A i : ~UsedAt(EmptyTable.list, i)
        BY <1>1, <1>4 DEF UsedAt
    <2> QED  BY <1>1, <1>4, <2>1, TableAssumption DEF Packed
<1> QED  BY <1>1, <1>3, <1>4, <1>5, <1>6, EmptyTableGood DEF Sound

===========================================================================
