------------------------- MODULE SuspensionProofs -------------------------
(***************************************************************************)
(* For every number of objects, of handles and of releases, the list of    *)
(* callouts that are held stays linked and complete, their share of the    *)
(* owner's resource stays counted, and there are as many callouts          *)
(* "release" to come as there are callouts on the list.                    *)
(***************************************************************************)
EXTENDS Suspension, FiniteSetTheorems, FunctionTheorems, SequenceTheorems,
        WellFoundedInduction, TLAPS

---------------------------------------------------------------------------
(* Induction, with sets instead of predicates, and sequences.              *)

LEMMA LeastExists ==
    ASSUME NEW S \in SUBSET Nat, S # {}
    PROVE  \E x \in S : \A y \in S : x <= y
<1>1. PICK u \in S : \A v \in S : << v, u >> \notin OpToRel(<, Nat)
    BY NatLessThanWellFounded, WFMin
<1>2. ASSUME NEW y \in S
      PROVE  u <= y
    <2>1. << y, u >> \in Nat \X Nat /\ << y, u >> \notin OpToRel(<, Nat)
        BY <1>1
    <2>2. ~(y < u)
        BY <2>1 DEF OpToRel
    <2> QED  BY <2>2
<1> QED  BY <1>2

LEMMA StepByStep ==
    ASSUME NEW n \in Nat, NEW S, 0 \in S, \A k \in 1 .. n : k - 1 \in S => k \in S
    PROVE  \A k \in 0 .. n : k \in S
<1> DEFINE T == {k \in 0 .. n : k \notin S}
<1> SUFFICES ASSUME T # {}  PROVE FALSE
    OBVIOUS
<1>1. PICK k \in T : \A j \in T : k <= j
    <2>1. T \in SUBSET Nat
        OBVIOUS
    <2> HIDE DEF T
    <2> QED  BY <2>1, LeastExists
<1>2. k \in 1 .. n /\ k - 1 \in 0 .. n /\ ~(k <= k - 1)
    BY <1>1
<1>3. k - 1 \in S
    BY <1>1, <1>2
<1> QED  BY <1>1, <1>2, <1>3

LEMMA AppendElem ==
    ASSUME NEW S, NEW s \in Seq(S), NEW x \in S
    PROVE  /\ Append(s, x) \in Seq(S)
           /\ Len(s) \in Nat
           /\ Len(Append(s, x)) = Len(s) + 1
           /\ \A k \in 1 .. Len(s) : Append(s, x)[k] = s[k]
           /\ Append(s, x)[Len(s) + 1] = x
OBVIOUS

LEMMA HeadTailElem ==
    ASSUME NEW S, NEW s \in Seq(S), s # << >>
    PROVE  /\ Tail(s) \in Seq(S) /\ Head(s) = s[1] /\ s[1] \in S
           /\ Len(s) \in Nat /\ Len(s) > 0
           /\ Len(Tail(s)) = Len(s) - 1
           /\ \A k \in 1 .. Len(s) - 1 : Tail(s)[k] = s[k + 1]
OBVIOUS

(* r is s followed by t.                                                   *)
Joined(r, s, t) ==
    /\ Len(s) \in Nat /\ Len(t) \in Nat
    /\ Len(r) = Len(s) + Len(t)
    /\ \A k \in 1 .. Len(s) : r[k] = s[k]
    /\ \A k \in 1 .. Len(t) : r[Len(s) + k] = t[k]

LEMMA ConcatElem ==
    ASSUME NEW S, NEW s \in Seq(S), NEW t \in Seq(S)
    PROVE  s \o t \in Seq(S) /\ Joined(s \o t, s, t)
BY DEF Joined

LEMMA RemoveElem ==
    ASSUME NEW S, NEW s \in Seq(S), NEW i \in 1 .. Len(s)
    PROVE  /\ RemoveAt(s, i) \in Seq(S)
           /\ Len(s) \in Nat
           /\ Len(RemoveAt(s, i)) = Len(s) - 1
           /\ \A k \in 1 .. Len(s) - 1 :
                 RemoveAt(s, i)[k] = IF k < i THEN s[k] ELSE s[k + 1]
<1> DEFINE a == SubSeq(s, 1, i - 1)
           b == SubSeq(s, i + 1, Len(s))
<1>1. RemoveAt(s, i) = a \o b
    BY DEF RemoveAt
<1>2. a \in Seq(S) /\ Len(a) = i - 1 /\ \A k \in 1 .. i - 1 : a[k] = s[k]
    OBVIOUS
<1>3. b \in Seq(S) /\ Len(b) = Len(s) - i /\ \A k \in 1 .. Len(s) - i : b[k] = s[i + k]
    OBVIOUS
<1>4. Len(s) \in Nat /\ i \in Nat /\ i <= Len(s) /\ i >= 1
    OBVIOUS
<1> HIDE DEF a, b
<1>5. /\ a \o b \in Seq(S) /\ Len(a \o b) = Len(a) + Len(b)
      /\ \A k \in 1 .. Len(a) : (a \o b)[k] = a[k]
      /\ \A k \in 1 .. Len(b) : (a \o b)[Len(a) + k] = b[k]
    <2>1. a \o b \in Seq(S) /\ Joined(a \o b, a, b)
        BY <1>2, <1>3, ConcatElem
    <2> QED  BY <2>1 DEF Joined
<1>6. ASSUME NEW k \in 1 .. Len(s) - 1
      PROVE  (a \o b)[k] = IF k < i THEN s[k] ELSE s[k + 1]
    <2>1. CASE k < i
        BY <1>2, <1>4, <1>5, <2>1
    <2>2. CASE ~(k < i)
        <3>1. k - (i - 1) \in 1 .. Len(b) /\ k = Len(a) + (k - (i - 1))
            BY <1>2, <1>3, <1>4, <2>2
        <3>2. (a \o b)[k] = b[k - (i - 1)]
            BY <1>5, <3>1
        <3>3. b[k - (i - 1)] = s[i + (k - (i - 1))] /\ i + (k - (i - 1)) = k + 1
            BY <1>3, <1>4, <3>1
        <3> QED  BY <2>2, <3>2, <3>3
    <2> QED  BY <2>1, <2>2
<1> QED  BY <1>1, <1>2, <1>3, <1>4, <1>5, <1>6

---------------------------------------------------------------------------
(* The resource manager's record.                                          *)

Mapping == UNION {[D -> Node] : D \in SUBSET Callouts}

Manager ==
    [suspend : {-1, 0, 1}, suspender : Systems \cup {None}, suspended : Mapping,
     first_suspended : Callouts \cup {None}, last_suspended : Callouts \cup {None},
     releases : Seq(RelHandles), free : Seq(RelHandles)]

LEMMA MappingIs ==
    \A m : m \in Mapping <=> /\ m = [c \in DOMAIN m |-> m[c]]
                             /\ DOMAIN m \subseteq Callouts
                             /\ \A c \in DOMAIN m : m[c] \in Node
<1> TAKE m
<1>1. ASSUME m \in Mapping
      PROVE  /\ m = [c \in DOMAIN m |-> m[c]]
             /\ DOMAIN m \subseteq Callouts
             /\ \A c \in DOMAIN m : m[c] \in Node
    <2>1. PICK D \in SUBSET Callouts : m \in [D -> Node]
        BY <1>1 DEF Mapping
    <2> QED  BY <2>1
<1>2. ASSUME m = [c \in DOMAIN m |-> m[c]], DOMAIN m \subseteq Callouts,
             \A c \in DOMAIN m : m[c] \in Node
      PROVE  m \in Mapping
    <2>1. m \in [DOMAIN m -> Node]
        BY <1>2
    <2> QED  BY <1>2, <2>1 DEF Mapping
<1> QED  BY <1>1, <1>2

LEMMA EmptyMapping == << >> \in Mapping
<1>1. << >> \in Seq(Node) /\ Len(<< >>) = 0
    OBVIOUS
<1>2. << >> \in [1 .. 0 -> Node]
    BY <1>1, LenProperties
<1>3. 1 .. 0 \subseteq Callouts
    OBVIOUS
<1> QED  BY <1>2, <1>3 DEF Mapping

LEMMA ManagerFields ==
    ASSUME NEW r \in Manager
    PROVE  /\ r.suspend \in {-1, 0, 1} /\ r.suspender \in Systems \cup {None}
           /\ r.suspended \in Mapping
           /\ r.suspended = [c \in DOMAIN r.suspended |-> r.suspended[c]]
           /\ DOMAIN r.suspended \subseteq Callouts
           /\ \A c \in DOMAIN r.suspended :
                 /\ r.suspended[c] \in Node
                 /\ r.suspended[c].relhandle \in RelHandles \cup {0}
                 /\ r.suspended[c].prev \in Callouts \cup {None}
                 /\ r.suspended[c].next \in Callouts \cup {None}
           /\ r.first_suspended \in Callouts \cup {None}
           /\ r.last_suspended \in Callouts \cup {None}
           /\ r.releases \in Seq(RelHandles) /\ r.free \in Seq(RelHandles)
<1>1. /\ r.suspend \in {-1, 0, 1} /\ r.suspender \in Systems \cup {None}
      /\ r.suspended \in Mapping
      /\ r.first_suspended \in Callouts \cup {None}
      /\ r.last_suspended \in Callouts \cup {None}
      /\ r.releases \in Seq(RelHandles) /\ r.free \in Seq(RelHandles)
    BY DEF Manager
<1>2. \A n \in Node : /\ n.relhandle \in RelHandles \cup {0}
                      /\ n.prev \in Callouts \cup {None}
                      /\ n.next \in Callouts \cup {None}
    BY DEF Node
<1> QED  BY <1>1, <1>2, MappingIs

LEMMA NotACallout == None \notin Callouts
BY SuspensionAssumption

(* A release is either to come or free to be started, and only once.       *)
OneToOne(s) == \A i, j \in 1 .. Len(s) : s[i] = s[j] => i = j

Pool(r) ==
    /\ OneToOne(r.releases) /\ OneToOne(r.free)
    /\ \A i \in 1 .. Len(r.releases), j \in 1 .. Len(r.free) : r.releases[i] # r.free[j]
    /\ \A h \in RelHandles : \/ \E i \in 1 .. Len(r.releases) : r.releases[i] = h
                             \/ \E j \in 1 .. Len(r.free) : r.free[j] = h

(* All but the releases is the same.                                       *)
SameList(q, r) ==
    /\ q.suspended = r.suspended
    /\ q.first_suspended = r.first_suspended /\ q.last_suspended = r.last_suspended
    /\ q.suspend = r.suspend /\ q.suspender = r.suspender

LEMMA PoolSame ==
    ASSUME NEW r, Pool(r), NEW q, q.releases = r.releases, q.free = r.free
    PROVE  Pool(q)
BY DEF Pool

LEMMA CallReleasePool ==
    ASSUME NEW r \in Manager, Pool(r), r.free # << >>, NEW q, q = CallRelease(r)
    PROVE  /\ q \in Manager /\ Pool(q) /\ SameList(q, r)
           /\ Len(r.releases) \in Nat /\ Len(r.free) \in Nat
           /\ Len(q.releases) = Len(r.releases) + 1
           /\ Len(q.free) = Len(r.free) - 1
           /\ Head(r.free) \in RelHandles
<1>1. r.releases \in Seq(RelHandles) /\ r.free \in Seq(RelHandles)
    BY ManagerFields
<1> DEFINE a == r.releases
           f == r.free
           a2 == Append(a, Head(f))
           f2 == Tail(f)
<1>2. /\ f2 \in Seq(RelHandles) /\ Head(f) = f[1] /\ Head(f) \in RelHandles
      /\ Len(f) \in Nat /\ Len(f) > 0
      /\ Len(f2) = Len(f) - 1
      /\ \A k \in 1 .. Len(f) - 1 : f2[k] = f[k + 1]
    BY <1>1, HeadTailElem
<1>3. /\ a2 \in Seq(RelHandles)
      /\ Len(a) \in Nat
      /\ Len(a2) = Len(a) + 1
      /\ \A k \in 1 .. Len(a) : a2[k] = a[k]
      /\ a2[Len(a) + 1] = Head(f)
    <2> HIDE DEF a
    <2> QED  BY <1>1, <1>2, AppendElem DEF a
<1>4. /\ q.releases = a2 /\ q.free = f2 /\ SameList(q, r)
      /\ q = [r EXCEPT !.releases = a2, !.free = f2]
    BY DEF CallRelease, SameList, Manager
<1>5. q \in Manager
    BY <1>2, <1>3, <1>4 DEF Manager
<1>6. Pool(q)
    <2>1. /\ OneToOne(a) /\ OneToOne(f)
          /\ \A i \in 1 .. Len(a), j \in 1 .. Len(f) : a[i] # f[j]
          /\ \A h \in RelHandles : \/ \E i \in 1 .. Len(a) : a[i] = h
                                   \/ \E j \in 1 .. Len(f) : f[j] = h
        BY DEF Pool
    <2> HIDE DEF a, f, a2, f2
    <2>2. OneToOne(a2)
        BY <1>2, <1>3, <2>1 DEF OneToOne
    <2>3. OneToOne(f2)
        <3> SUFFICES ASSUME NEW i \in 1 .. Len(f2), NEW j \in 1 .. Len(f2), f2[i] = f2[j]
                     PROVE  i = j
            BY DEF OneToOne
        <3>1. f[i + 1] = f[j + 1] /\ i + 1 \in 1 .. Len(f) /\ j + 1 \in 1 .. Len(f)
            BY <1>2
        <3> QED  BY <2>1, <3>1 DEF OneToOne
    <2>4. ASSUME NEW i \in 1 .. Len(a2), NEW j \in 1 .. Len(f2)
          PROVE  a2[i] # f2[j]
        <3>1. f2[j] = f[j + 1] /\ j + 1 \in 1 .. Len(f) /\ 1 \in 1 .. Len(f) /\ j + 1 # 1
            BY <1>2
        <3>2. f[1] # f[j + 1]
            BY <2>1, <3>1 DEF OneToOne
        <3>3. i \in 1 .. Len(a) \/ i = Len(a) + 1
            BY <1>3
        <3> QED  BY <1>2, <1>3, <2>1, <3>1, <3>2, <3>3
    <2>5. ASSUME NEW h \in RelHandles
          PROVE  \/ \E i \in 1 .. Len(a2) : a2[i] = h
                 \/ \E j \in 1 .. Len(f2) : f2[j] = h
        <3>1. CASE \E i \in 1 .. Len(a) : a[i] = h
            <4>1. PICK i \in 1 .. Len(a) : a[i] = h
                BY <3>1
            <4>2. i \in 1 .. Len(a2) /\ a2[i] = h
                BY <1>3, <4>1
            <4> QED  BY <4>2
        <3>2. CASE \E j \in 1 .. Len(f) : f[j] = h
            <4>1. PICK j \in 1 .. Len(f) : f[j] = h
                BY <3>2
            <4>2. CASE j = 1
                <5>1. Len(a) + 1 \in 1 .. Len(a2) /\ a2[Len(a) + 1] = h
                    BY <1>2, <1>3, <4>1, <4>2
                <5> QED  BY <5>1
            <4>3. CASE j # 1
                <5>1. j - 1 \in 1 .. Len(f2) /\ f2[j - 1] = f[(j - 1) + 1] /\ (j - 1) + 1 = j
                    BY <1>2, <4>1, <4>3
                <5> QED  BY <4>1, <5>1
            <4> QED  BY <4>2, <4>3
        <3> QED  BY <2>1, <3>1, <3>2
    <2> QED  BY <1>4, <2>2, <2>3, <2>4, <2>5 DEF Pool
<1> QED  BY <1>2, <1>3, <1>4, <1>5, <1>6

LEMMA RemoveReleasePool ==
    ASSUME NEW r \in Manager, Pool(r), NEW h, NEW q, q = RemoveRelease(r, h)
    PROVE  /\ q \in Manager /\ Pool(q) /\ SameList(q, r)
           /\ Len(r.releases) \in Nat /\ Len(q.releases) \in Nat
           /\ Len(q.releases) >= Len(r.releases) - 1
           /\ Len(q.free) >= Len(r.free)
<1>1. /\ r.releases \in Seq(RelHandles) /\ r.free \in Seq(RelHandles)
      /\ Len(r.releases) \in Nat /\ Len(r.free) \in Nat
    <2>1. r.releases \in Seq(RelHandles) /\ r.free \in Seq(RelHandles)
        BY ManagerFields
    <2> QED  BY <2>1
<1> DEFINE a == r.releases
           f == r.free
           e == << h >>
           f2 == e \o f
<1>2. ASSUME h \notin ToSet(a)
      PROVE  q = r
    BY <1>2 DEF RemoveRelease
<1>3. ASSUME h \in ToSet(a)
      PROVE  /\ q \in Manager /\ Pool(q) /\ SameList(q, r)
             /\ Len(q.releases) = Len(r.releases) - 1
             /\ Len(q.free) = Len(r.free) + 1
    <2> DEFINE i == CHOOSE i \in DOMAIN a : a[i] = h
               a2 == RemoveAt(a, i)
    <2>1. i \in 1 .. Len(a) /\ a[i] = h /\ h \in RelHandles
        <3>1. \E j \in DOMAIN a : a[j] = h
            BY <1>3 DEF ToSet
        <3>2. DOMAIN a = 1 .. Len(a) /\ \A j \in 1 .. Len(a) : a[j] \in RelHandles
            BY <1>1
        <3> QED  BY <3>1, <3>2
    <2>2. q = [r EXCEPT !.releases = a2, !.free = f2]
        BY <1>3 DEF RemoveRelease
    <2> HIDE DEF i, a, f, e
    <2>3. /\ a2 \in Seq(RelHandles) /\ Len(a) \in Nat /\ Len(a2) = Len(a) - 1
          /\ \A k \in 1 .. Len(a) - 1 : a2[k] = IF k < i THEN a[k] ELSE a[k + 1]
        BY <1>1, <2>1, RemoveElem DEF a
    <2>4. e \in Seq(RelHandles) /\ Len(e) = 1 /\ e[1] = h
        BY <2>1 DEF e
    <2>5. /\ f2 \in Seq(RelHandles) /\ Len(f2) = 1 + Len(f) /\ f2[1] = h
          /\ \A k \in 1 .. Len(f) : f2[1 + k] = f[k]
        <3>1. f2 \in Seq(RelHandles) /\ Joined(f2, e, f)
            BY <1>1, <2>4, ConcatElem DEF f
        <3> HIDE DEF f2
        <3> QED  BY <2>4, <3>1 DEF Joined
    <2> HIDE DEF a2, f2
    <2>6. q \in Manager /\ SameList(q, r) /\ q.releases = a2 /\ q.free = f2
        BY <2>2, <2>3, <2>5 DEF Manager, SameList
    <2>7. /\ OneToOne(a) /\ OneToOne(f)
          /\ \A k \in 1 .. Len(a), j \in 1 .. Len(f) : a[k] # f[j]
          /\ \A g \in RelHandles : \/ \E k \in 1 .. Len(a) : a[k] = g
                                   \/ \E j \in 1 .. Len(f) : f[j] = g
        BY DEF Pool, a, f
    <2>8. Len(f) \in Nat
        BY <1>1 DEF f
    <2> DEFINE src(k) == IF k < i THEN k ELSE k + 1
    <2>9. \A k \in 1 .. Len(a2) : src(k) \in 1 .. Len(a) /\ src(k) # i /\ a2[k] = a[src(k)]
        BY <2>1, <2>3
    <2>10. OneToOne(a2)
        <3>1. \A k, j \in 1 .. Len(a2) : src(k) = src(j) => k = j
            BY <2>1, <2>3
        <3> HIDE DEF src
        <3> QED  BY <2>7, <2>9, <3>1 DEF OneToOne
    <2>11. OneToOne(f2)
        <3> SUFFICES ASSUME NEW k \in 1 .. Len(f2), NEW j \in 1 .. Len(f2), f2[k] = f2[j]
                     PROVE  k = j
            BY DEF OneToOne
        <3>1. \A x \in 1 .. Len(f2) : x = 1 \/ /\ x - 1 \in 1 .. Len(f) /\ f2[x] = f[x - 1]
            BY <2>5, <2>8
        <3>2. \A x \in 1 .. Len(f2) : x # 1 => f2[x] # h
            BY <2>1, <2>7, <3>1
        <3>3. CASE k # 1 /\ j # 1
            <4>1. k - 1 \in 1 .. Len(f) /\ j - 1 \in 1 .. Len(f) /\ f[k - 1] = f[j - 1]
                BY <3>1, <3>3
            <4>2. k - 1 = j - 1
                BY <2>7, <4>1 DEF OneToOne
            <4> QED  BY <4>2
        <3> QED  BY <2>5, <3>2, <3>3
    <2>12. ASSUME NEW k \in 1 .. Len(a2), NEW j \in 1 .. Len(f2)
           PROVE  a2[k] # f2[j]
        <3>1. a2[k] = a[src(k)] /\ src(k) \in 1 .. Len(a) /\ src(k) # i
            BY <2>9
        <3> HIDE DEF src
        <3>2. a[src(k)] # h
            BY <2>1, <2>7, <3>1 DEF OneToOne
        <3>3. j = 1 \/ (j - 1 \in 1 .. Len(f) /\ f2[j] = f[j - 1])
            BY <2>5, <2>8
        <3> QED  BY <2>5, <2>7, <3>1, <3>2, <3>3
    <2>13. ASSUME NEW g \in RelHandles
           PROVE  \/ \E k \in 1 .. Len(a2) : a2[k] = g
                  \/ \E j \in 1 .. Len(f2) : f2[j] = g
        <3>1. CASE g = h
            <4>1. 1 \in 1 .. Len(f2)
                BY <2>5, <2>8
            <4> QED  BY <2>5, <3>1, <4>1
        <3>2. CASE \E j \in 1 .. Len(f) : f[j] = g
            <4>1. PICK j \in 1 .. Len(f) : f[j] = g
                BY <3>2
            <4>2. 1 + j \in 1 .. Len(f2) /\ f2[1 + j] = g
                BY <2>5, <2>8, <4>1
            <4> QED  BY <4>2
        <3>3. CASE g # h /\ \E k \in 1 .. Len(a) : a[k] = g
            <4>1. PICK k \in 1 .. Len(a) : a[k] = g
                BY <3>3
            <4>2. k # i
                BY <2>1, <3>3, <4>1
            <4>3. CASE k < i
                BY <2>1, <2>3, <4>1, <4>3
            <4>4. CASE k > i
                <5>1. k - 1 \in 1 .. Len(a) - 1 /\ ~(k - 1 < i) /\ (k - 1) + 1 = k
                    BY <2>1, <2>3, <4>4
                <5>2. a2[k - 1] = g
                    BY <2>3, <4>1, <5>1
                <5> QED  BY <2>3, <5>1, <5>2
            <4> QED  BY <2>1, <4>2, <4>3, <4>4
        <3> QED  BY <2>7, <3>1, <3>2, <3>3
    <2>14. Pool(q)
        BY <2>6, <2>10, <2>11, <2>12, <2>13 DEF Pool
    <2> QED  BY <2>3, <2>5, <2>6, <2>8, <2>14 DEF a, f
<1>4. SameList(r, r)
    BY DEF SameList
<1> HIDE DEF a
<1> QED  BY <1>1, <1>2, <1>3, <1>4

---------------------------------------------------------------------------
(* The list.                                                               *)

(* The i-th of the list, or none beyond its ends.                          *)
At(s, i) == IF i \in 1 .. Len(s) THEN s[i] ELSE None

(* The callouts in s, and no others, are on the list in that order.        *)
LinkedBy(r, s) ==
    /\ s \in Seq(Callouts) /\ OneToOne(s)
    /\ \A c : c \in DOMAIN r.suspended <=> \E i \in 1 .. Len(s) : s[i] = c
    /\ r.first_suspended = At(s, 1)
    /\ r.last_suspended = At(s, Len(s))
    /\ \A i \in 1 .. Len(s) : /\ r.suspended[s[i]].prev = At(s, i - 1)
                              /\ r.suspended[s[i]].next = At(s, i + 1)

LEMMA ChainIs ==
    ASSUME NEW r \in Manager, NEW s, LinkedBy(r, s)
    PROVE  Chain(r) = s
<1> DEFINE n == Len(s)
           D == DOMAIN r.suspended
           rest(c) == r.suspended[c].next
           F(f) == [c \in D \cup {None} |-> IF c = None THEN << >> ELSE << c >> \o f[rest(c)]]
           from == CHOOSE f : f = F(f)
           g == [c \in D \cup {None} |->
                    IF c = None THEN << >>
                    ELSE SubSeq(s, CHOOSE i \in 1 .. n : s[i] = c, n)]
<1>1. /\ s \in Seq(Callouts) /\ n \in Nat /\ OneToOne(s) /\ None \notin D
      /\ \A c : c \in D <=> \E i \in 1 .. n : s[i] = c
      /\ r.first_suspended = At(s, 1)
      /\ \A i \in 1 .. n : rest(s[i]) = At(s, i + 1)
    <2>1. s \in Seq(Callouts) /\ n \in Nat
        BY DEF LinkedBy
    <2>2. None \notin D
        BY NotACallout, ManagerFields
    <2> QED  BY <2>1, <2>2 DEF LinkedBy
<1>2. Chain(r) = from[r.first_suspended]
    BY DEF Chain
<1>3. \A i \in 1 .. n : SubSeq(s, i, n) = << s[i] >> \o SubSeq(s, i + 1, n)
    <2> TAKE i \in 1 .. n
    <2>1. n \in i .. n
        BY <1>1
    <2> HIDE DEF n
    <2>2. i \in 1 .. Len(s) /\ n \in i .. Len(s)
        BY <2>1 DEF n
    <2> QED  BY <1>1, <2>2, SubSeqRecursiveFirst
<1>4. SubSeq(s, n + 1, n) = << >> /\ SubSeq(s, 1, n) = s
    BY <1>1, SubSeqEmpty, SubSeqFull
<1> HIDE DEF D, n
<1>5. \A i \in 1 .. n : s[i] \in D /\ s[i] # None /\ g[s[i]] = SubSeq(s, i, n)
    <2> TAKE i \in 1 .. n
    <2>1. s[i] \in D /\ s[i] # None
        BY <1>1
    <2>2. (CHOOSE j \in 1 .. n : s[j] = s[i]) = i
        BY <1>1 DEF OneToOne, n
    <2> QED  BY <2>1, <2>2
<1>6. g[None] = << >>
    OBVIOUS
<1> HIDE DEF g
<1>7. \A i \in 1 .. n : g[s[i]] = << s[i] >> \o g[At(s, i + 1)]
    <2> TAKE i \in 1 .. n
    <2>1. CASE i = n
        <3>1. At(s, i + 1) = None
            BY <1>1, <2>1 DEF At, n
        <3> QED  BY <1>3, <1>4, <1>5, <1>6, <2>1, <3>1
    <2>2. CASE i # n
        <3>1. i + 1 \in 1 .. n /\ At(s, i + 1) = s[i + 1]
            BY <1>1, <2>2 DEF At, n
        <3> QED  BY <1>3, <1>5, <3>1
    <2> QED  BY <2>1, <2>2
<1>8. g = F(g)
    <2>1. g = [c \in D \cup {None} |-> g[c]]
        BY DEF g
    <2>2. ASSUME NEW c \in D
          PROVE  g[c] = << c >> \o g[rest(c)]
        <3>1. PICK i \in 1 .. n : s[i] = c
            BY <1>1
        <3>2. rest(c) = At(s, i + 1)
            BY <1>1, <3>1
        <3> HIDE DEF rest
        <3> QED  BY <1>7, <3>1, <3>2
    <2> QED  BY <1>1, <1>6, <2>1, <2>2
<1>9. from = F(from)
    <2>1. \E f : f = F(f)
        BY <1>8
    <2> HIDE DEF F
    <2> QED  BY <2>1
<1> HIDE DEF from
<1>10. from[None] = << >> /\ \A i \in 1 .. n : from[s[i]] = << s[i] >> \o from[At(s, i + 1)]
    <2>1. from[None] = << >>
        BY <1>9
    <2>2. \A c \in D : from[c] = << c >> \o from[rest(c)]
        BY <1>1, <1>9
    <2> QED  BY <1>1, <1>5, <2>1, <2>2
<1> HIDE DEF F, rest
<1> DEFINE T == {k \in 0 .. n : from[At(s, n + 1 - k)] = SubSeq(s, n + 1 - k, n)}
<1>11. \A k \in 0 .. n : k \in T
    <2>1. 0 \in T
        <3>1. n + 1 - 0 = n + 1 /\ 0 \in 0 .. n
            BY <1>1
        <3>2. At(s, n + 1) = None
            BY <1>1 DEF At, n
        <3> QED  BY <1>4, <1>10, <3>1, <3>2
    <2>2. ASSUME NEW k \in 1 .. n, k - 1 \in T
          PROVE  k \in T
        <3> DEFINE i == n + 1 - k
        <3>1. i \in 1 .. n /\ n + 1 - (k - 1) = i + 1 /\ k \in 0 .. n
            BY <1>1
        <3>2. from[At(s, i + 1)] = SubSeq(s, i + 1, n)
            BY <2>2, <3>1
        <3>3. At(s, i) = s[i]
            BY <3>1 DEF At, n
        <3> HIDE DEF i
        <3>4. from[At(s, i)] = SubSeq(s, i, n)
            BY <1>3, <1>10, <3>1, <3>2, <3>3
        <3> QED  BY <3>1, <3>4 DEF i
    <2> HIDE DEF T
    <2> QED  BY <1>1, <2>1, <2>2, StepByStep
<1>12. from[At(s, 1)] = SubSeq(s, 1, n)
    <2>1. n \in T
        BY <1>1, <1>11
    <2>2. n + 1 - n = 1
        BY <1>1
    <2> QED  BY <2>1, <2>2
<1> QED  BY <1>1, <1>2, <1>4, <1>12

LEMMA AtType ==
    ASSUME NEW s \in Seq(Callouts), NEW i \in Int
    PROVE  /\ At(s, i) \in Callouts \cup {None}
           /\ At(s, i) # None <=> i \in 1 .. Len(s)
           /\ Len(s) \in Nat
<1>1. Len(s) \in Nat /\ \A j \in 1 .. Len(s) : s[j] \in Callouts
    OBVIOUS
<1> QED  BY <1>1, NotACallout DEF At

(* A step that changes one field of one callout on the list.               *)
SameRest(q, r) ==
    /\ q.releases = r.releases /\ q.free = r.free
    /\ q.suspend = r.suspend /\ q.suspender = r.suspender

LEMMA NodeFields ==
    ASSUME NEW m \in Mapping, NEW d \in DOMAIN m
    PROVE  /\ \A v \in Callouts \cup {None} :
                  /\ [m EXCEPT ![d].next = v] \in Mapping
                  /\ [m EXCEPT ![d].prev = v] \in Mapping
           /\ \A h \in RelHandles \cup {0} : [m EXCEPT ![d].relhandle = h] \in Mapping
<1>1. /\ m = [c \in DOMAIN m |-> m[c]] /\ DOMAIN m \subseteq Callouts
      /\ \A c \in DOMAIN m : m[c] \in Node
    BY MappingIs
<1>2. m \in [DOMAIN m -> Node]
    BY <1>1
<1>3. ASSUME NEW n \in Node
      PROVE  [m EXCEPT ![d] = n] \in Mapping
    <2>1. [m EXCEPT ![d] = n] \in [DOMAIN m -> Node]
        BY <1>2
    <2> QED  BY <1>1, <2>1 DEF Mapping
<1>4. ASSUME NEW v \in Callouts \cup {None}
      PROVE  [m[d] EXCEPT !.next = v] \in Node /\ [m[d] EXCEPT !.prev = v] \in Node
    BY <1>1 DEF Node
<1>5. ASSUME NEW h \in RelHandles \cup {0}
      PROVE  [m[d] EXCEPT !.relhandle = h] \in Node
    BY <1>1 DEF Node
<1> QED  BY <1>3, <1>4, <1>5

LEMMA SetNext ==
    ASSUME NEW r \in Manager, NEW d \in DOMAIN r.suspended, NEW v \in Callouts \cup {None},
           NEW q, q = [r EXCEPT !.suspended[d].next = v]
    PROVE  /\ q \in Manager /\ SameRest(q, r) /\ DOMAIN q.suspended = DOMAIN r.suspended
           /\ q.first_suspended = r.first_suspended /\ q.last_suspended = r.last_suspended
           /\ \A c \in DOMAIN r.suspended :
                 /\ q.suspended[c].prev = r.suspended[c].prev
                 /\ q.suspended[c].relhandle = r.suspended[c].relhandle
                 /\ q.suspended[c].next = IF c = d THEN v ELSE r.suspended[c].next
<1>1. r.suspended \in Mapping /\ \A c \in DOMAIN r.suspended : r.suspended[c] \in Node
    BY ManagerFields
<1>2. [r.suspended EXCEPT ![d].next = v] \in Mapping
    BY <1>1, NodeFields
<1> DEFINE m == [r.suspended EXCEPT ![d].next = v]
<1>3. /\ DOMAIN m = DOMAIN r.suspended
      /\ \A c \in DOMAIN r.suspended :
            /\ m[c].prev = r.suspended[c].prev /\ m[c].relhandle = r.suspended[c].relhandle
            /\ m[c].next = IF c = d THEN v ELSE r.suspended[c].next
    BY <1>1 DEF Node
<1>4. q = [r EXCEPT !.suspended = m]
    OBVIOUS
<1> HIDE DEF m
<1>5. m \in Mapping
    BY <1>2 DEF m
<1> QED  BY <1>3, <1>4, <1>5 DEF Manager, SameRest

PrevSet(q, r, d, v) ==
    /\ q \in Manager /\ SameRest(q, r) /\ DOMAIN q.suspended = DOMAIN r.suspended
    /\ q.first_suspended = r.first_suspended /\ q.last_suspended = r.last_suspended
    /\ \A c \in DOMAIN r.suspended :
          /\ q.suspended[c].next = r.suspended[c].next
          /\ q.suspended[c].relhandle = r.suspended[c].relhandle
          /\ q.suspended[c].prev = IF c = d THEN v ELSE r.suspended[c].prev

LEMMA SetPrev ==
    ASSUME NEW r \in Manager, NEW d \in DOMAIN r.suspended, NEW v \in Callouts \cup {None},
           NEW q, q = [r EXCEPT !.suspended[d].prev = v]
    PROVE  PrevSet(q, r, d, v)
<1>1. r.suspended \in Mapping /\ \A c \in DOMAIN r.suspended : r.suspended[c] \in Node
    BY ManagerFields
<1>2. [r.suspended EXCEPT ![d].prev = v] \in Mapping
    BY <1>1, NodeFields
<1> DEFINE m == [r.suspended EXCEPT ![d].prev = v]
<1>3. /\ DOMAIN m = DOMAIN r.suspended
      /\ \A c \in DOMAIN r.suspended :
            /\ m[c].next = r.suspended[c].next /\ m[c].relhandle = r.suspended[c].relhandle
            /\ m[c].prev = IF c = d THEN v ELSE r.suspended[c].prev
    BY <1>1 DEF Node
<1>4. q = [r EXCEPT !.suspended = m]
    OBVIOUS
<1> HIDE DEF m
<1>5. m \in Mapping
    BY <1>2 DEF m
<1> QED  BY <1>3, <1>4, <1>5 DEF PrevSet, Manager, SameRest

HandleSet(q, r, d, h) ==
    /\ q \in Manager /\ SameRest(q, r) /\ DOMAIN q.suspended = DOMAIN r.suspended
    /\ q.first_suspended = r.first_suspended /\ q.last_suspended = r.last_suspended
    /\ \A c \in DOMAIN r.suspended :
          /\ q.suspended[c].next = r.suspended[c].next
          /\ q.suspended[c].prev = r.suspended[c].prev
          /\ q.suspended[c].relhandle = IF c = d THEN h ELSE r.suspended[c].relhandle

LEMMA SetRelhandle ==
    ASSUME NEW r \in Manager, NEW d \in DOMAIN r.suspended, NEW h \in RelHandles \cup {0}
    PROVE  HandleSet([r EXCEPT !.suspended[d].relhandle = h], r, d, h)
<1> DEFINE q == [r EXCEPT !.suspended[d].relhandle = h]
<1>1. r.suspended \in Mapping /\ \A c \in DOMAIN r.suspended : r.suspended[c] \in Node
    BY ManagerFields
<1>2. [r.suspended EXCEPT ![d].relhandle = h] \in Mapping
    BY <1>1, NodeFields
<1> DEFINE m == [r.suspended EXCEPT ![d].relhandle = h]
<1>3. /\ DOMAIN m = DOMAIN r.suspended
      /\ \A c \in DOMAIN r.suspended :
            /\ m[c].next = r.suspended[c].next /\ m[c].prev = r.suspended[c].prev
            /\ m[c].relhandle = IF c = d THEN h ELSE r.suspended[c].relhandle
    BY <1>1 DEF Node
<1>4. q = [r EXCEPT !.suspended = m]
    OBVIOUS
<1> HIDE DEF m, q
<1>5. m \in Mapping
    BY <1>2 DEF m
<1>6. HandleSet(q, r, d, h)
    BY <1>3, <1>4, <1>5 DEF HandleSet, Manager, SameRest
<1> QED  BY <1>6 DEF q

(* suspend(): a callout comes to the end of the list.                      *)
LEMMA ListedLinked ==
    ASSUME NEW r \in Manager, NEW s, LinkedBy(r, s),
           NEW c \in Callouts, c \notin DOMAIN r.suspended,
           NEW h \in RelHandles \cup {0}, NEW q, q = Listed(r, c, h)
    PROVE  /\ q \in Manager /\ SameRest(q, r) /\ LinkedBy(q, Append(s, c))
           /\ DOMAIN q.suspended = DOMAIN r.suspended \cup {c}
           /\ q.suspended[c].relhandle = h
           /\ \A d \in DOMAIN r.suspended :
                 q.suspended[d].relhandle = r.suspended[d].relhandle
<1> DEFINE D == DOMAIN r.suspended
           n == Len(s)
           t == Append(s, c)
           new == [relhandle |-> h, prev |-> r.last_suspended, next |-> None]
           m == [d \in D \cup {c} |->
                    IF d = c THEN new
                    ELSE IF d = r.last_suspended THEN [r.suspended[d] EXCEPT !.next = c]
                    ELSE r.suspended[d]]
           first == IF r.last_suspended = None THEN c ELSE r.first_suspended
<1>1. q = [r EXCEPT !.suspended = m, !.first_suspended = first, !.last_suspended = c]
    BY DEF Listed
<1>2. /\ D \subseteq Callouts /\ \A d \in D : r.suspended[d] \in Node
      /\ r.last_suspended \in Callouts \cup {None} /\ r.first_suspended \in Callouts \cup {None}
    BY ManagerFields
<1>3. new \in Node /\ \A d \in D : [r.suspended[d] EXCEPT !.next = c] \in Node
    BY <1>2 DEF Node
<1>4. m \in Mapping
    <2>1. m \in [D \cup {c} -> Node]
        BY <1>2, <1>3
    <2> QED  BY <1>2, <2>1 DEF Mapping
<1>5. /\ DOMAIN m = D \cup {c} /\ m[c] = new
      /\ \A d \in D : /\ m[d].prev = r.suspended[d].prev
                      /\ m[d].relhandle = r.suspended[d].relhandle
                      /\ m[d].next = IF d = r.last_suspended THEN c ELSE r.suspended[d].next
    BY <1>2 DEF Node
<1>6. new.relhandle = h /\ new.prev = r.last_suspended /\ new.next = None
    OBVIOUS
<1> HIDE DEF m, new, first
<1>7. /\ q \in Manager /\ SameRest(q, r) /\ q.suspended = m
      /\ q.first_suspended = first /\ q.last_suspended = c
    <2>1. first \in Callouts \cup {None}
        BY <1>2 DEF first
    <2> QED  BY <1>1, <1>4, <2>1 DEF Manager, SameRest
<1>8. /\ s \in Seq(Callouts) /\ n \in Nat /\ OneToOne(s)
      /\ \A d : d \in D <=> \E i \in 1 .. n : s[i] = d
      /\ r.first_suspended = At(s, 1) /\ r.last_suspended = At(s, n)
      /\ \A i \in 1 .. n : /\ r.suspended[s[i]].prev = At(s, i - 1)
                           /\ r.suspended[s[i]].next = At(s, i + 1)
    BY AtType DEF LinkedBy
<1>9. /\ t \in Seq(Callouts) /\ Len(t) = n + 1 /\ t[n + 1] = c
      /\ \A i \in 1 .. n : t[i] = s[i]
    BY <1>8, AppendElem
<1> HIDE DEF t, n, D
<1>10. /\ \A i \in Int : i # n + 1 => At(t, i) = At(s, i)
       /\ At(t, n + 1) = c
    BY <1>8, <1>9 DEF At, n
<1>11. OneToOne(t)
    <2>1. \A i \in 1 .. n : t[i] # c
        BY <1>8, <1>9 DEF D
    <2> SUFFICES ASSUME NEW i \in 1 .. Len(t), NEW j \in 1 .. Len(t), t[i] = t[j]
                 PROVE  i = j
        BY DEF OneToOne
    <2>2. CASE i \in 1 .. n /\ j \in 1 .. n
        BY <1>8, <1>9, <2>2 DEF OneToOne, n
    <2>3. CASE i = n + 1 \/ j = n + 1
        BY <1>8, <1>9, <2>1, <2>3
    <2> QED  BY <1>8, <1>9, <2>2, <2>3
<1>12. \A d : d \in D \cup {c} <=> \E i \in 1 .. Len(t) : t[i] = d
    <2> TAKE d
    <2>1. ASSUME d \in D
          PROVE  \E i \in 1 .. Len(t) : t[i] = d
        <3>1. PICK i \in 1 .. n : s[i] = d
            BY <1>8, <2>1
        <3>2. i \in 1 .. Len(t) /\ t[i] = d
            BY <1>8, <1>9, <3>1
        <3> QED  BY <3>2
    <2>2. n + 1 \in 1 .. Len(t) /\ t[n + 1] = c
        BY <1>8, <1>9
    <2>3. ASSUME NEW i \in 1 .. Len(t), t[i] = d
          PROVE  d \in D \cup {c}
        <3>1. i \in 1 .. n \/ i = n + 1
            BY <1>8, <1>9
        <3> QED  BY <1>8, <1>9, <2>3, <3>1
    <2> QED  BY <2>1, <2>2, <2>3
<1>13. first = At(t, 1)
    <2>1. CASE n = 0
        <3>1. r.last_suspended = None
            BY <1>8, <2>1 DEF At, n
        <3> QED  BY <1>10, <2>1, <3>1 DEF first
    <2>2. CASE n # 0
        <3>1. r.last_suspended # None
            BY <1>8, <2>2, AtType DEF n
        <3> QED  BY <1>8, <1>10, <2>2, <3>1 DEF first
    <2> QED  BY <2>1, <2>2
<1>14. ASSUME NEW i \in 1 .. Len(t)
       PROVE  m[t[i]].prev = At(t, i - 1) /\ m[t[i]].next = At(t, i + 1)
    <2>1. CASE i = n + 1
        <3>1. At(t, i - 1) = At(s, n)
            <4>1. i - 1 = n /\ n \in Int /\ n # n + 1
                BY <1>8, <2>1
            <4> QED  BY <1>10, <4>1
        <3>2. At(t, i + 1) = None
            BY <1>8, <1>9, <2>1 DEF At
        <3> QED  BY <1>5, <1>6, <1>8, <1>9, <2>1, <3>1, <3>2
    <2>2. CASE i # n + 1
        <3>1. i \in 1 .. n /\ t[i] = s[i] /\ s[i] \in D
            BY <1>8, <1>9, <2>2
        <3>2. m[t[i]].prev = At(s, i - 1) /\ At(t, i - 1) = At(s, i - 1)
            <4>1. r.suspended[s[i]].prev = At(s, i - 1)
                BY <1>8, <3>1
            <4>2. i - 1 \in Int /\ i - 1 # n + 1
                BY <1>8, <3>1
            <4> QED  BY <1>5, <1>10, <3>1, <4>1, <4>2
        <3>3. CASE i = n
            <4>1. s[i] = r.last_suspended
                BY <1>8, <3>1, <3>3 DEF At, n
            <4>2. m[t[i]].next = c
                BY <1>5, <3>1, <4>1
            <4> QED  BY <1>10, <3>2, <3>3, <4>2
        <3>4. CASE i # n
            <4>1. s[i] # r.last_suspended
                <5>1. n \in 1 .. n /\ At(s, n) = s[n]
                    BY <1>8, <3>1 DEF At, n
                <5> QED  BY <1>8, <3>1, <3>4, <5>1 DEF OneToOne, n
            <4>2. m[t[i]].next = At(s, i + 1)
                <5>1. r.suspended[s[i]].next = At(s, i + 1)
                    BY <1>8, <3>1
                <5> QED  BY <1>5, <3>1, <4>1, <5>1
            <4> QED  BY <1>8, <1>10, <3>1, <3>2, <3>4, <4>2
        <3> QED  BY <3>3, <3>4
    <2> QED  BY <2>1, <2>2
<1>15. LinkedBy(q, t)
    <2>1. q.last_suspended = At(t, Len(t))
        BY <1>7, <1>9, <1>10
    <2> QED  BY <1>5, <1>7, <1>9, <1>11, <1>12, <1>13, <1>14, <2>1 DEF LinkedBy
<1> QED  BY <1>5, <1>6, <1>7, <1>15 DEF D, t

(* The list without its p-th: its neighbours are linked to each other.     *)
LEMMA RemovedLinked ==
    ASSUME NEW r \in Manager, NEW s, LinkedBy(r, s), NEW p \in 1 .. Len(s), NEW q,
           DOMAIN q.suspended = DOMAIN r.suspended \ {s[p]},
           q.first_suspended = IF p = 1 THEN At(s, 2) ELSE r.first_suspended,
           q.last_suspended = IF p = Len(s) THEN At(s, p - 1) ELSE r.last_suspended,
           \A j \in 1 .. Len(s) : j # p =>
               /\ q.suspended[s[j]].next =
                      IF j = p - 1 THEN At(s, p + 1) ELSE r.suspended[s[j]].next
               /\ q.suspended[s[j]].prev =
                      IF j = p + 1 THEN At(s, p - 1) ELSE r.suspended[s[j]].prev
    PROVE  LinkedBy(q, RemoveAt(s, p))
<1> DEFINE n == Len(s)
           u == RemoveAt(s, p)
           src(i) == IF i < p THEN i ELSE i + 1
<1>1. /\ s \in Seq(Callouts) /\ n \in Nat /\ OneToOne(s)
      /\ \A d : d \in DOMAIN r.suspended <=> \E i \in 1 .. n : s[i] = d
      /\ r.first_suspended = At(s, 1) /\ r.last_suspended = At(s, n)
      /\ \A i \in 1 .. n : /\ r.suspended[s[i]].prev = At(s, i - 1)
                           /\ r.suspended[s[i]].next = At(s, i + 1)
    BY AtType DEF LinkedBy
<1>2. /\ u \in Seq(Callouts) /\ Len(u) = n - 1
      /\ \A k \in 1 .. n - 1 : u[k] = IF k < p THEN s[k] ELSE s[k + 1]
    <2>1. s \in Seq(Callouts) /\ u = RemoveAt(s, p)
        BY <1>1
    <2> HIDE DEF u
    <2> QED  BY <2>1, RemoveElem
<1>3. /\ p \in Int /\ 1 <= p /\ p <= n
    BY <1>1
<1>13. \A i, j \in 1 .. n : s[i] = s[j] => i = j
    BY <1>1 DEF OneToOne
<1> HIDE DEF u, n
<1>4. ASSUME NEW i \in 1 .. Len(u)
      PROVE  src(i) \in 1 .. n /\ src(i) # p /\ u[i] = s[src(i)]
    <2>1. i \in 1 .. n - 1
        BY <1>2
    <2>2. u[i] = IF i < p THEN s[i] ELSE s[i + 1]
        BY <1>2, <2>1
    <2>3. src(i) \in 1 .. n /\ src(i) # p
        BY <1>1, <1>3, <2>1
    <2> QED  BY <2>2, <2>3
<1>5. \A i \in Int : At(u, i) = At(s, src(i))
    <2> TAKE i \in Int
    <2>1. CASE i \in 1 .. Len(u)
        <3>1. At(u, i) = u[i] /\ At(s, src(i)) = s[src(i)]
            BY <1>4, <2>1 DEF At, n
        <3> QED  BY <1>4, <2>1, <3>1
    <2>2. CASE i \notin 1 .. Len(u)
        <3>1. src(i) \notin 1 .. n
            BY <1>1, <1>2, <1>3, <2>2
        <3> QED  BY <2>2, <3>1 DEF At, n
    <2> QED  BY <2>1, <2>2
<1>6. OneToOne(u)
    <2>1. \A i, j \in 1 .. Len(u) : src(i) = src(j) => i = j
        BY <1>2, <1>3
    <2> HIDE DEF src
    <2> SUFFICES ASSUME NEW i \in 1 .. Len(u), NEW j \in 1 .. Len(u), u[i] = u[j]
                 PROVE  i = j
        BY DEF OneToOne
    <2>2. src(i) = src(j)
        BY <1>4, <1>13
    <2> QED  BY <2>1, <2>2
<1>7. ASSUME NEW d
      PROVE  d \in DOMAIN q.suspended <=> \E i \in 1 .. Len(u) : u[i] = d
    <2>1. ASSUME d \in DOMAIN q.suspended
          PROVE  \E i \in 1 .. Len(u) : u[i] = d
        <3>1. PICK j \in 1 .. n : s[j] = d
            BY <1>1, <2>1
        <3>2. j # p
            BY <2>1, <3>1
        <3>3. CASE j < p
            <4>1. j \in 1 .. n - 1
                BY <1>1, <1>3, <3>1, <3>3
            <4>2. u[j] = d /\ j \in 1 .. Len(u)
                BY <1>2, <3>1, <3>3, <4>1
            <4> QED  BY <4>2
        <3>4. CASE j > p
            <4>1. j - 1 \in 1 .. n - 1 /\ ~(j - 1 < p) /\ (j - 1) + 1 = j
                BY <1>1, <1>3, <3>4
            <4>2. u[j - 1] = d /\ j - 1 \in 1 .. Len(u)
                BY <1>2, <3>1, <4>1
            <4> QED  BY <4>2
        <3> QED  BY <1>3, <3>2, <3>3, <3>4
    <2>2. ASSUME NEW i \in 1 .. Len(u), u[i] = d
          PROVE  d \in DOMAIN q.suspended
        <3>1. s[src(i)] = d /\ src(i) \in 1 .. n /\ src(i) # p
            BY <1>4, <2>2
        <3> HIDE DEF src
        <3>2. d # s[p]
            BY <1>3, <1>13, <3>1
        <3> QED  BY <1>1, <3>1, <3>2
    <2> QED  BY <2>1, <2>2
<1>8. q.first_suspended = At(u, 1)
    <2>1. src(1) = IF p = 1 THEN 2 ELSE 1
        BY <1>3
    <2> QED  BY <1>1, <1>5, <2>1
<1>9. q.last_suspended = At(u, Len(u))
    <2>1. CASE p = n
        <3>1. At(u, n - 1) = At(s, n - 1)
            <4>1. n - 1 \in Int /\ src(n - 1) = n - 1
                BY <1>1, <2>1
            <4> QED  BY <1>5, <4>1
        <3> QED  BY <1>2, <2>1, <3>1 DEF n
    <2>2. CASE p # n
        <3>1. At(u, n - 1) = At(s, n)
            <4>1. n - 1 \in Int /\ src(n - 1) = n
                BY <1>1, <1>3, <2>2
            <4> QED  BY <1>5, <4>1
        <3> QED  BY <1>1, <1>2, <2>2, <3>1 DEF n
    <2> QED  BY <2>1, <2>2
<1>10. ASSUME NEW i \in 1 .. Len(u)
       PROVE  /\ q.suspended[u[i]].prev = At(u, i - 1)
              /\ q.suspended[u[i]].next = At(u, i + 1)
    <2> DEFINE j == src(i)
    <2>1. j \in 1 .. n /\ j # p /\ u[i] = s[j]
        BY <1>4
    <2>2. At(u, i - 1) = At(s, src(i - 1)) /\ At(u, i + 1) = At(s, src(i + 1))
        <3>1. i - 1 \in Int /\ i + 1 \in Int
            BY <1>1, <1>2
        <3> QED  BY <1>5, <3>1
    <2>3. src(i - 1) = IF j = p + 1 THEN p - 1 ELSE j - 1
        BY <1>1, <1>2, <1>3
    <2>4. src(i + 1) = IF j = p - 1 THEN p + 1 ELSE j + 1
        BY <1>1, <1>2, <1>3
    <2> HIDE DEF j, src
    <2>5. /\ q.suspended[s[j]].next = IF j = p - 1 THEN At(s, p + 1) ELSE At(s, j + 1)
          /\ q.suspended[s[j]].prev = IF j = p + 1 THEN At(s, p - 1) ELSE At(s, j - 1)
        BY <1>1, <2>1 DEF n
    <2> QED  BY <2>1, <2>2, <2>3, <2>4, <2>5
<1> QED  BY <1>2, <1>6, <1>7, <1>8, <1>9, <1>10 DEF LinkedBy, u

(* remove_callout() of one on the list.                                    *)
Unreleased(r) == \A c \in DOMAIN r.suspended : r.suspended[c].relhandle = 0

SameFlags(q, r) == q.suspend = r.suspend /\ q.suspender = r.suspender

LEMMA WithoutFields ==
    ASSUME NEW r \in Manager, NEW c \in DOMAIN r.suspended, NEW q, q = Without(r, c)
    PROVE  /\ q \in Manager /\ SameRest(q, r)
           /\ DOMAIN q.suspended = DOMAIN r.suspended \ {c}
           /\ q.first_suspended = r.first_suspended /\ q.last_suspended = r.last_suspended
           /\ \A d \in DOMAIN r.suspended \ {c} : q.suspended[d] = r.suspended[d]
<1> DEFINE m == [d \in DOMAIN r.suspended \ {c} |-> r.suspended[d]]
<1>1. q = [r EXCEPT !.suspended = m]
    BY DEF Without
<1>2. m \in Mapping
    <2>1. DOMAIN r.suspended \ {c} \subseteq Callouts
        BY ManagerFields
    <2>2. m \in [DOMAIN r.suspended \ {c} -> Node]
        BY ManagerFields
    <2> QED  BY <2>1, <2>2 DEF Mapping
<1>3. /\ DOMAIN m = DOMAIN r.suspended \ {c}
      /\ \A d \in DOMAIN r.suspended \ {c} : m[d] = r.suspended[d]
    OBVIOUS
<1> HIDE DEF m
<1> QED  BY <1>1, <1>2, <1>3 DEF Manager, SameRest

LEMMA UnlinkLinked ==
    ASSUME NEW r \in Manager, Pool(r), NEW s, LinkedBy(r, s), NEW p \in 1 .. Len(s),
           NEW c, c = s[p], NEW q, q = Unlink(r, c, r.suspended[c])
    PROVE  /\ q \in Manager /\ Pool(q) /\ SameFlags(q, r)
           /\ LinkedBy(q, RemoveAt(s, p))
           /\ c \in DOMAIN r.suspended /\ DOMAIN q.suspended = DOMAIN r.suspended \ {c}
           /\ Len(r.releases) \in Nat /\ Len(q.releases) \in Nat
           /\ Len(q.releases) >= Len(r.releases) - 1
           /\ Unreleased(r) => Unreleased(q)
<1> DEFINE n == Len(s)
           D == DOMAIN r.suspended
           x == r.suspended[c]
           q1 == UnlinkPrev(r, c, x)
           q2 == OneLess(q1, c, x)
           q3 == UnlinkNext(q2, c, x)
<1>1. /\ s \in Seq(Callouts) /\ n \in Nat /\ OneToOne(s)
      /\ \A d : d \in D <=> \E i \in 1 .. n : s[i] = d
      /\ r.first_suspended = At(s, 1) /\ r.last_suspended = At(s, n)
      /\ \A i \in 1 .. n : /\ r.suspended[s[i]].prev = At(s, i - 1)
                           /\ r.suspended[s[i]].next = At(s, i + 1)
    BY AtType DEF LinkedBy
<1>2. q = Without(q3, c)
    BY DEF Unlink
<1>3. /\ p \in Int /\ 1 <= p /\ p <= n /\ c \in D
      /\ x.prev = At(s, p - 1) /\ x.next = At(s, p + 1)
      /\ x.relhandle \in RelHandles \cup {0}
    <2>1. p \in 1 .. n /\ c \in D
        BY <1>1
    <2>2. p \in Int /\ 1 <= p /\ p <= n
        BY <1>1, <2>1
    <2>3. x.relhandle \in RelHandles \cup {0}
        BY <2>1, ManagerFields
    <2> QED  BY <1>1, <2>1, <2>2, <2>3
<1> HIDE DEF n, D, x
<1>4. /\ c = r.first_suspended <=> p = 1
      /\ c = r.last_suspended <=> p = n
    BY <1>1, <1>3 DEF At, OneToOne, n
<1>5. ASSUME p # 1
      PROVE  At(s, p - 1) = s[p - 1] /\ p - 1 \in 1 .. n /\ s[p - 1] \in D
    BY <1>1, <1>3, <1>5 DEF At, n
<1>6. ASSUME p # n
      PROVE  At(s, p + 1) = s[p + 1] /\ p + 1 \in 1 .. n /\ s[p + 1] \in D
    BY <1>1, <1>3, <1>6 DEF At, n
<1>7. At(s, p + 1) \in Callouts \cup {None} /\ At(s, p - 1) \in Callouts \cup {None}
    BY <1>1, <1>3, AtType
<1>8. /\ q1 \in Manager /\ SameRest(q1, r) /\ DOMAIN q1.suspended = D
      /\ q1.last_suspended = r.last_suspended
      /\ q1.first_suspended = IF p = 1 THEN At(s, 2) ELSE r.first_suspended
      /\ \A d \in D : /\ q1.suspended[d].prev = r.suspended[d].prev
                      /\ q1.suspended[d].relhandle = r.suspended[d].relhandle
                      /\ q1.suspended[d].next = IF p # 1 /\ d = s[p - 1] THEN At(s, p + 1)
                                                ELSE r.suspended[d].next
    <2>1. CASE p = 1
        <3>1. q1 = [r EXCEPT !.first_suspended = At(s, 2)]
            BY <1>3, <1>4, <2>1 DEF UnlinkPrev
        <3> HIDE DEF q1
        <3>2. At(s, 2) \in Callouts \cup {None}
            BY <1>7, <2>1
        <3>3. /\ q1 \in Manager /\ SameRest(q1, r) /\ q1.suspended = r.suspended
              /\ q1.last_suspended = r.last_suspended /\ q1.first_suspended = At(s, 2)
            BY <3>1, <3>2 DEF Manager, SameRest
        <3> QED  BY <2>1, <3>3 DEF D
    <2>2. CASE p # 1
        <3>1. q1 = [r EXCEPT !.suspended[s[p - 1]].next = At(s, p + 1)]
            BY <1>3, <1>4, <1>5, <2>2 DEF UnlinkPrev
        <3> HIDE DEF q1
        <3> DEFINE d0 == s[p - 1]
                   v == At(s, p + 1)
        <3>2. d0 \in DOMAIN r.suspended /\ v \in Callouts \cup {None}
            BY <1>5, <1>7, <2>2 DEF D
        <3> HIDE DEF d0, v
        <3>3. q1 = [r EXCEPT !.suspended[d0].next = v]
            BY <3>1 DEF d0, v
        <3> QED  BY <2>2, <3>2, <3>3, SetNext DEF D, d0, v
    <2> QED  BY <2>1, <2>2
<1>9. Pool(q1)
    BY <1>8 DEF Pool, SameRest
<1> HIDE DEF q1
<1>10. /\ q2 \in Manager /\ Pool(q2) /\ SameFlags(q2, r) /\ DOMAIN q2.suspended = D
       /\ q2.first_suspended = q1.first_suspended /\ q2.last_suspended = r.last_suspended
       /\ Len(r.releases) \in Nat /\ Len(q2.releases) \in Nat
       /\ Len(q2.releases) >= Len(r.releases) - 1
       /\ \A d \in D : /\ q2.suspended[d].prev = q1.suspended[d].prev
                       /\ q2.suspended[d].next = q1.suspended[d].next
       /\ x.relhandle = 0 => q2 = q1
    <2>1. /\ q1.last_suspended = r.last_suspended /\ q1.releases = r.releases
          /\ q1.suspend = r.suspend /\ q1.suspender = r.suspender
          /\ r.releases \in Seq(RelHandles)
        BY <1>8, ManagerFields DEF SameRest
    <2>2. CASE x.relhandle = 0
        <3>1. q2 = q1
            BY <2>2 DEF OneLess
        <3>2. Len(r.releases) \in Nat
            BY <2>1
        <3> QED  BY <1>8, <1>9, <2>1, <3>1, <3>2 DEF SameFlags
    <2>3. CASE x.relhandle # 0 /\ c = q1.last_suspended
        <3>1. q2 = RemoveRelease(q1, x.relhandle)
            BY <2>3 DEF OneLess
        <3> HIDE DEF q2
        <3> QED  BY <1>8, <1>9, <2>1, <2>3, <3>1, RemoveReleasePool DEF SameFlags, SameList
    <2>4. CASE x.relhandle # 0 /\ c # q1.last_suspended
        <3> DEFINE l == q1.last_suspended
                   q0 == RemoveRelease(q1, q1.suspended[l].relhandle)
        <3>1. q2 = [q0 EXCEPT !.suspended[l].relhandle = x.relhandle]
            BY <2>4 DEF OneLess
        <3>2. /\ q0 \in Manager /\ Pool(q0) /\ SameList(q0, q1)
              /\ Len(q1.releases) \in Nat /\ Len(q0.releases) \in Nat
              /\ Len(q0.releases) >= Len(q1.releases) - 1
            BY <1>8, <1>9, RemoveReleasePool
        <3>3. l \in D
            <4>1. n \in 1 .. n /\ At(s, n) = s[n]
                BY <1>1, <1>3 DEF At, n
            <4> QED  BY <1>1, <2>1, <4>1
        <3> HIDE DEF q2, q0, l
        <3>4. l \in DOMAIN q0.suspended
            BY <1>8, <3>2, <3>3 DEF SameList
        <3>5. /\ q2 \in Manager /\ SameRest(q2, q0) /\ DOMAIN q2.suspended = DOMAIN q0.suspended
              /\ q2.first_suspended = q0.first_suspended /\ q2.last_suspended = q0.last_suspended
              /\ \A d \in DOMAIN q0.suspended :
                    /\ q2.suspended[d].next = q0.suspended[d].next
                    /\ q2.suspended[d].prev = q0.suspended[d].prev
                    /\ q2.suspended[d].relhandle =
                           IF d = l THEN x.relhandle ELSE q0.suspended[d].relhandle
            <4>1. HandleSet(q2, q0, l, x.relhandle)
                BY <1>3, <3>1, <3>2, <3>4, SetRelhandle
            <4> QED  BY <4>1 DEF HandleSet
        <3>6. Pool(q2)
            BY <3>2, <3>5 DEF Pool, SameRest
        <3> QED  BY <1>8, <2>1, <2>4, <3>2, <3>5, <3>6 DEF SameList, SameRest, SameFlags
    <2> QED  BY <2>2, <2>3, <2>4
<1> HIDE DEF q2
<1>11. /\ q3 \in Manager /\ SameRest(q3, q2) /\ DOMAIN q3.suspended = D
       /\ q3.first_suspended = q2.first_suspended
       /\ q3.last_suspended = IF p = n THEN At(s, p - 1) ELSE r.last_suspended
       /\ \A d \in D : /\ q3.suspended[d].next = q2.suspended[d].next
                       /\ q3.suspended[d].relhandle = q2.suspended[d].relhandle
                       /\ q3.suspended[d].prev = IF p # n /\ d = s[p + 1] THEN At(s, p - 1)
                                                 ELSE q2.suspended[d].prev
    <2>1. CASE p = n
        <3>1. q3 = [q2 EXCEPT !.last_suspended = At(s, p - 1)]
            BY <1>3, <1>4, <1>10, <2>1 DEF UnlinkNext
        <3> HIDE DEF q3
        <3>2. /\ q3 \in Manager /\ SameRest(q3, q2) /\ q3.suspended = q2.suspended
              /\ q3.first_suspended = q2.first_suspended
              /\ q3.last_suspended = At(s, p - 1)
            BY <1>7, <1>10, <3>1 DEF Manager, SameRest
        <3> QED  BY <1>10, <2>1, <3>2
    <2>2. CASE p # n
        <3>1. q3 = [q2 EXCEPT !.suspended[s[p + 1]].prev = At(s, p - 1)]
            BY <1>3, <1>4, <1>6, <1>10, <2>2 DEF UnlinkNext
        <3> HIDE DEF q3
        <3> DEFINE d0 == s[p + 1]
                   v == At(s, p - 1)
        <3>2. d0 \in DOMAIN q2.suspended /\ v \in Callouts \cup {None}
            BY <1>6, <1>7, <1>10, <2>2
        <3> HIDE DEF d0, v
        <3>3. q3 = [q2 EXCEPT !.suspended[d0].prev = v]
            BY <3>1 DEF d0, v
        <3>4. /\ q3 \in Manager /\ SameRest(q3, q2) /\ DOMAIN q3.suspended = DOMAIN q2.suspended
              /\ q3.first_suspended = q2.first_suspended /\ q3.last_suspended = q2.last_suspended
              /\ \A d \in DOMAIN q2.suspended :
                    /\ q3.suspended[d].next = q2.suspended[d].next
                    /\ q3.suspended[d].relhandle = q2.suspended[d].relhandle
                    /\ q3.suspended[d].prev = IF d = d0 THEN v ELSE q2.suspended[d].prev
            <4>1. q2 \in Manager
                BY <1>10
            <4>2. PrevSet(q3, q2, d0, v)
                BY <3>2, <3>3, <4>1, SetPrev
            <4> QED  BY <4>2 DEF PrevSet
        <3> QED  BY <1>10, <2>2, <3>4 DEF d0, v
    <2> QED  BY <2>1, <2>2
<1>12. Pool(q3)
    BY <1>10, <1>11 DEF Pool, SameRest
<1> HIDE DEF q3
<1>13. /\ q \in Manager /\ SameRest(q, q3)
       /\ DOMAIN q.suspended = D \ {c}
       /\ q.first_suspended = q3.first_suspended /\ q.last_suspended = q3.last_suspended
       /\ \A d \in D \ {c} : q.suspended[d] = q3.suspended[d]
    BY <1>2, <1>3, <1>11, WithoutFields
<1>14. Pool(q)
    BY <1>12, <1>13 DEF Pool, SameRest
<1>15. LinkedBy(q, RemoveAt(s, p))
    <2>1. ASSUME NEW j \in 1 .. Len(s), j # p
          PROVE  /\ q.suspended[s[j]].next =
                        IF j = p - 1 THEN At(s, p + 1) ELSE r.suspended[s[j]].next
                 /\ q.suspended[s[j]].prev =
                        IF j = p + 1 THEN At(s, p - 1) ELSE r.suspended[s[j]].prev
        <3>1. s[j] \in D /\ s[j] # c
            BY <1>1, <2>1 DEF OneToOne, n
        <3>2. j = p - 1 <=> p # 1 /\ s[j] = s[p - 1]
            BY <1>1, <1>3, <1>5 DEF OneToOne, n
        <3>3. j = p + 1 <=> p # n /\ s[j] = s[p + 1]
            BY <1>1, <1>3, <1>6 DEF OneToOne, n
        <3> QED  BY <1>8, <1>10, <1>11, <1>13, <3>1, <3>2, <3>3
    <2>2. /\ DOMAIN q.suspended = DOMAIN r.suspended \ {s[p]}
          /\ q.first_suspended = IF p = 1 THEN At(s, 2) ELSE r.first_suspended
          /\ q.last_suspended = IF p = Len(s) THEN At(s, p - 1) ELSE r.last_suspended
        BY <1>8, <1>10, <1>11, <1>13 DEF D, n
    <2> QED  BY <2>1, <2>2, RemovedLinked
<1>16. ASSUME Unreleased(r)
       PROVE  Unreleased(q)
    <2>1. x.relhandle = 0
        BY <1>3, <1>16 DEF Unreleased, D, x
    <2> QED  BY <1>8, <1>10, <1>11, <1>13, <1>16, <2>1 DEF Unreleased, D
<1>17. SameFlags(q, r) /\ q.releases = q2.releases
    BY <1>10, <1>11, <1>13 DEF SameFlags, SameRest
<1> QED  BY <1>3, <1>10, <1>13, <1>14, <1>15, <1>16, <1>17 DEF D

---------------------------------------------------------------------------
(* Callouts are taken off the list, one or all of an object.               *)

RSound(r) == r \in Manager /\ Pool(r) /\ \E s : LinkedBy(r, s)

Enough(r) == Len(r.releases) >= Cardinality(DOMAIN r.suspended)

RemovedFrom(q, r, S) ==
    /\ RSound(q) /\ SameFlags(q, r)
    /\ DOMAIN q.suspended = DOMAIN r.suspended \ S
    /\ Unreleased(r) => Unreleased(q)
    /\ Enough(r) => Enough(q)

LEMMA CalloutsFinite ==
    /\ IsFiniteSet(Callouts) /\ IsFiniteSet(Handles) /\ MaxHandle \in Nat
    /\ \A S : S \subseteq Callouts => IsFiniteSet(S) /\ Cardinality(S) \in Nat
<1>1. MaxHandle \in Nat /\ IsFiniteSet(Objects)
    BY SuspensionAssumption
<1>2. IsFiniteSet(Handles)
    BY <1>1, FS_Interval DEF Handles
<1>3. IsFiniteSet(Callouts)
    BY <1>1, <1>2, FS_Product DEF Callouts
<1>4. ASSUME NEW S, S \subseteq Callouts
      PROVE  IsFiniteSet(S) /\ Cardinality(S) \in Nat
    BY <1>3, <1>4, FS_Subset, FS_CardinalityType
<1> QED  BY <1>1, <1>2, <1>3, <1>4

LEMMA RemoveCalloutSound ==
    ASSUME NEW r, RSound(r), NEW c \in Callouts
    PROVE  RemovedFrom(RemoveCallout(r, c), r, {c})
<1> DEFINE q == RemoveCallout(r, c)
<1>1. PICK s : LinkedBy(r, s)
    BY DEF RSound
<1>2. r \in Manager /\ Pool(r)
    BY DEF RSound
<1>3. CASE c \notin DOMAIN r.suspended
    <2>1. q = r /\ DOMAIN r.suspended = DOMAIN r.suspended \ {c}
        BY <1>3 DEF RemoveCallout
    <2> HIDE DEF q
    <2>2. RemovedFrom(q, r, {c})
        BY <2>1 DEF RemovedFrom, SameFlags
    <2> QED  BY <2>2 DEF q
<1>4. CASE c \in DOMAIN r.suspended
    <2>1. q = Unlink(r, c, r.suspended[c])
        BY <1>4 DEF RemoveCallout
    <2>2. PICK p \in 1 .. Len(s) : s[p] = c
        BY <1>1, <1>4 DEF LinkedBy
    <2> HIDE DEF q
    <2>3. /\ q \in Manager /\ Pool(q) /\ SameFlags(q, r)
          /\ LinkedBy(q, RemoveAt(s, p))
          /\ c \in DOMAIN r.suspended /\ DOMAIN q.suspended = DOMAIN r.suspended \ {c}
          /\ Len(r.releases) \in Nat /\ Len(q.releases) \in Nat
          /\ Len(q.releases) >= Len(r.releases) - 1
          /\ Unreleased(r) => Unreleased(q)
        BY <1>1, <1>2, <2>1, <2>2, UnlinkLinked
    <2>4. Enough(r) => Enough(q)
        <3>1. IsFiniteSet(DOMAIN r.suspended) /\ Cardinality(DOMAIN r.suspended) \in Nat
            BY <1>2, ManagerFields, CalloutsFinite
        <3>2. Cardinality(DOMAIN r.suspended \ {c}) = Cardinality(DOMAIN r.suspended) - 1
            BY <1>4, <3>1, FS_RemoveElement
        <3> QED  BY <2>3, <3>1, <3>2 DEF Enough
    <2>5. RemovedFrom(q, r, {c})
        BY <2>3, <2>4 DEF RemovedFrom, RSound
    <2> QED  BY <2>5 DEF q
<1> QED  BY <1>3, <1>4

LEMMA RemoveCalloutsSound ==
    ASSUME NEW r, RSound(r), NEW o \in Objects
    PROVE  RemovedFrom(RemoveCallouts(r, o), r, {c \in Callouts : c[1] = o})
<1> DEFINE N == MaxHandle
           co(k) == << o, N + 1 - k >>
           Step(q, k) == RemoveCallout(q, co(k))
           F(f, n) == [k \in 0 .. n |-> IF k = 0 THEN r ELSE Step(f[k - 1], k)]
           after == CHOOSE f : f = F(f, N)
           gone(k) == {c \in Callouts : c[1] = o /\ c[2] > N - k}
           S == {n \in 0 .. N : \E f : f = F(f, n)}
           T == {n \in 0 .. N : RemovedFrom(after[n], r, gone(n))}
<1>1. N \in Nat
    BY CalloutsFinite
<1>2. RemoveCallouts(r, o) = after[N]
    BY DEF RemoveCallouts
<1>3. ASSUME NEW k \in 1 .. N
      PROVE  co(k) \in Callouts /\ gone(k) = gone(k - 1) \cup {co(k)}
    <2>1. N + 1 - k \in Handles
        BY <1>1 DEF Handles
    <2>2. co(k) \in Callouts
        BY <2>1 DEF Callouts
    <2>3. ASSUME NEW c \in Callouts
          PROVE  c \in gone(k) <=> c \in gone(k - 1) \/ c = co(k)
        <3>1. c = << c[1], c[2] >> /\ c[2] \in Int /\ c[1] \in Objects
            BY DEF Callouts, Handles
        <3>2. c = co(k) <=> c[1] = o /\ c[2] = N + 1 - k
            BY <3>1
        <3>3. c[2] > N - k <=> c[2] > N - (k - 1) \/ c[2] = N + 1 - k
            BY <1>1, <3>1
        <3> HIDE DEF co
        <3> QED  BY <3>2, <3>3
    <2> HIDE DEF co
    <2> QED  BY <2>2, <2>3
<1>4. gone(0) = {} /\ gone(N) = {c \in Callouts : c[1] = o}
    BY <1>1 DEF Callouts, Handles
<1> HIDE DEF Step
<1>5. N \in S
    <2>1. 0 \in S
        <3>1. [k \in 0 .. 0 |-> r] = F([k \in 0 .. 0 |-> r], 0)
            OBVIOUS
        <3> HIDE DEF F
        <3> QED  BY <1>1, <3>1
    <2>2. ASSUME NEW n \in 1 .. N, n - 1 \in S
          PROVE  n \in S
        <3>1. PICK f : f = F(f, n - 1)
            BY <2>2
        <3> DEFINE g == [k \in 0 .. n |-> IF k = n THEN Step(f[n - 1], n) ELSE f[k]]
        <3>2. \A k \in 0 .. n : g[k] = IF k = 0 THEN r ELSE Step(g[k - 1], k)
            BY <1>1, <3>1
        <3>3. g = F(g, n)
            <4>1. g = [k \in 0 .. n |-> g[k]]
                OBVIOUS
            <4> HIDE DEF g
            <4> QED  BY <3>2, <4>1
        <3> HIDE DEF F, g
        <3> QED  BY <1>1, <3>3
    <2> HIDE DEF S
    <2>3. \A n \in 0 .. N : n \in S
        BY <1>1, <2>1, <2>2, StepByStep
    <2> QED  BY <1>1, <2>3
<1>6. after = F(after, N)
    <2>1. \E f : f = F(f, N)
        BY <1>5
    <2> HIDE DEF F
    <2> QED  BY <2>1
<1> HIDE DEF after, S
<1>7. after[0] = r /\ \A k \in 1 .. N : after[k] = Step(after[k - 1], k)
    BY <1>1, <1>6
<1> HIDE DEF F
<1>8. N \in T
    <2>1. 0 \in T
        <3>1. DOMAIN r.suspended = DOMAIN r.suspended \ gone(0)
            BY <1>4
        <3> HIDE DEF gone
        <3> QED  BY <1>1, <1>7, <3>1 DEF RemovedFrom, SameFlags
    <2>2. ASSUME NEW n \in 1 .. N, n - 1 \in T
          PROVE  n \in T
        <3>1. RemovedFrom(after[n - 1], r, gone(n - 1)) /\ RSound(after[n - 1])
            BY <2>2 DEF RemovedFrom
        <3>2. RemovedFrom(after[n], after[n - 1], {co(n)})
            <4>1. co(n) \in Callouts
                BY <1>3
            <4>2. after[n] = RemoveCallout(after[n - 1], co(n))
                BY <1>7 DEF Step
            <4> HIDE DEF co
            <4> QED  BY <3>1, <4>1, <4>2, RemoveCalloutSound
        <3>3. gone(n) = gone(n - 1) \cup {co(n)}
            BY <1>3
        <3> HIDE DEF gone, co
        <3>4. RemovedFrom(after[n], r, gone(n))
            BY <3>1, <3>2, <3>3 DEF RemovedFrom, SameFlags
        <3> QED  BY <3>4
    <2> HIDE DEF T
    <2>3. \A n \in 0 .. N : n \in T
        BY <1>1, <2>1, <2>2, StepByStep
    <2> QED  BY <1>1, <2>3
<1> HIDE DEF gone
<1> QED  BY <1>2, <1>4, <1>8

---------------------------------------------------------------------------
(* The whole list: suspended again, and released.                          *)

LEMMA LinkedSame ==
    ASSUME NEW r, NEW s, LinkedBy(r, s), NEW q, DOMAIN q.suspended = DOMAIN r.suspended,
           q.first_suspended = r.first_suspended, q.last_suspended = r.last_suspended,
           \A c \in DOMAIN r.suspended : /\ q.suspended[c].next = r.suspended[c].next
                                         /\ q.suspended[c].prev = r.suspended[c].prev
    PROVE  LinkedBy(q, s)
<1>1. \A i \in 1 .. Len(s) : s[i] \in DOMAIN r.suspended
    BY DEF LinkedBy
<1> QED  BY <1>1 DEF LinkedBy

LEMMA NoReleasesSame ==
    ASSUME NEW r, RSound(r)
    PROVE  /\ NoReleases(r) \in Manager /\ Pool(NoReleases(r))
           /\ SameList(NoReleases(r), r)
<1>1. PICK s : LinkedBy(r, s)
    BY DEF RSound
<1>2. r \in Manager /\ Pool(r) /\ Chain(r) = s
    BY <1>1, ChainIs DEF RSound
<1> DEFINE N == Len(s)
           Step(q, k) == RemoveRelease(q, r.suspended[s[k]].relhandle)
           F(f, n) == [k \in 0 .. n |-> IF k = 0 THEN r ELSE Step(f[k - 1], k)]
           after == CHOOSE f : f = F(f, N)
           S == {n \in 0 .. N : \E f : f = F(f, n)}
           Good(q) == q \in Manager /\ Pool(q) /\ SameList(q, r)
           T == {n \in 0 .. N : Good(after[n])}
<1>3. N \in Nat
    BY <1>1 DEF LinkedBy
<1>4. NoReleases(r) = after[N]
    BY <1>2 DEF NoReleases
<1> HIDE DEF Step, N
<1>5. N \in S
    <2>1. 0 \in S
        <3>1. [k \in 0 .. 0 |-> r] = F([k \in 0 .. 0 |-> r], 0)
            OBVIOUS
        <3> HIDE DEF F
        <3> QED  BY <1>3, <3>1
    <2>2. ASSUME NEW n \in 1 .. N, n - 1 \in S
          PROVE  n \in S
        <3>1. PICK f : f = F(f, n - 1)
            BY <2>2
        <3> DEFINE g == [k \in 0 .. n |-> IF k = n THEN Step(f[n - 1], n) ELSE f[k]]
        <3>2. \A k \in 0 .. n : g[k] = IF k = 0 THEN r ELSE Step(g[k - 1], k)
            BY <1>3, <3>1
        <3>3. g = F(g, n)
            <4>1. g = [k \in 0 .. n |-> g[k]]
                OBVIOUS
            <4> HIDE DEF g
            <4> QED  BY <3>2, <4>1
        <3> HIDE DEF F, g
        <3> QED  BY <1>3, <3>3
    <2> HIDE DEF S
    <2>3. \A n \in 0 .. N : n \in S
        BY <1>3, <2>1, <2>2, StepByStep
    <2> QED  BY <1>3, <2>3
<1>6. after = F(after, N)
    <2>1. \E f : f = F(f, N)
        BY <1>5
    <2> HIDE DEF F
    <2> QED  BY <2>1
<1> HIDE DEF after, S
<1>7. after[0] = r /\ \A k \in 1 .. N : after[k] = Step(after[k - 1], k)
    BY <1>3, <1>6
<1> HIDE DEF F
<1>8. N \in T
    <2>1. 0 \in T
        BY <1>2, <1>3, <1>7 DEF SameList
    <2>2. ASSUME NEW n \in 1 .. N, n - 1 \in T
          PROVE  n \in T
        <3>1. after[n - 1] \in Manager /\ Pool(after[n - 1]) /\ SameList(after[n - 1], r)
            BY <2>2
        <3>2. /\ after[n] \in Manager /\ Pool(after[n])
              /\ SameList(after[n], after[n - 1])
            <4>1. after[n] = RemoveRelease(after[n - 1], r.suspended[s[n]].relhandle)
                BY <1>7 DEF Step
            <4> QED  BY <3>1, <4>1, RemoveReleasePool
        <3>3. SameList(after[n], r)
            BY <3>1, <3>2 DEF SameList
        <3> QED  BY <3>2, <3>3
    <2> HIDE DEF T
    <2>3. \A n \in 0 .. N : n \in T
        BY <1>3, <2>1, <2>2, StepByStep
    <2> QED  BY <1>3, <2>3
<1> QED  BY <1>4, <1>8

(* One callout after the other is given its release.                       *)
LEMMA ReleasingAllSound ==
    ASSUME NEW r, RSound(r), Unreleased(r),
           Len(r.free) >= Cardinality(DOMAIN r.suspended)
    PROVE  LET q == ReleasingAll(r)
           IN  /\ q \in Manager /\ Pool(q) /\ SameFlags(q, r) /\ Enough(q)
               /\ q.first_suspended = r.first_suspended
               /\ DOMAIN q.suspended = DOMAIN r.suspended
               /\ \E s : LinkedBy(q, s)
<1>1. PICK s : LinkedBy(r, s)
    BY DEF RSound
<1>2. r \in Manager /\ Pool(r) /\ Chain(r) = s
    BY <1>1, ChainIs DEF RSound
<1> DEFINE N == Len(s)
           Step(q, k) == Releasing(q, s[k])
           F(f, n) == [k \in 0 .. n |-> IF k = 0 THEN r ELSE Step(f[k - 1], k)]
           after == CHOOSE f : f = F(f, N)
           S == {n \in 0 .. N : \E f : f = F(f, n)}
           Good(q, n) == /\ q \in Manager /\ Pool(q) /\ SameFlags(q, r)
                         /\ q.first_suspended = r.first_suspended
                         /\ DOMAIN q.suspended = DOMAIN r.suspended
                         /\ LinkedBy(q, s)
                         /\ Len(q.releases) \in Nat /\ Len(q.releases) >= n
                         /\ Len(q.free) \in Nat /\ Len(q.free) >= N - n
                         /\ \A j \in n + 1 .. N : q.suspended[s[j]].relhandle = 0
           T == {n \in 0 .. N : Good(after[n], n)}
<1>3. /\ s \in Seq(Callouts) /\ N \in Nat
      /\ \A i \in 1 .. N : s[i] \in DOMAIN r.suspended
      /\ \A i, j \in 1 .. N : s[i] = s[j] => i = j
    BY <1>1 DEF LinkedBy, OneToOne
<1>4. Cardinality(DOMAIN r.suspended) = N
    <2>1. s \in Bijection(1 .. N, DOMAIN r.suspended)
        <3>1. s \in [1 .. N -> DOMAIN r.suspended]
            BY <1>3
        <3>2. \A d \in DOMAIN r.suspended : \E i \in 1 .. N : s[i] = d
            BY <1>1 DEF LinkedBy
        <3> HIDE DEF N
        <3> QED  BY <1>3, <3>1, <3>2, Fun_IsBij
    <2> HIDE DEF N
    <2>2. IsFiniteSet(1 .. N) /\ Cardinality(1 .. N) = N
        BY <1>3, FS_Interval
    <2> QED  BY <2>1, <2>2, FS_Bijection DEF ExistsBijection
<1>5. ReleasingAll(r) = after[N]
    BY <1>2 DEF ReleasingAll
<1> HIDE DEF Step, N
<1>6. N \in S
    <2>1. 0 \in S
        <3>1. [k \in 0 .. 0 |-> r] = F([k \in 0 .. 0 |-> r], 0)
            OBVIOUS
        <3> HIDE DEF F
        <3> QED  BY <1>3, <3>1
    <2>2. ASSUME NEW n \in 1 .. N, n - 1 \in S
          PROVE  n \in S
        <3>1. PICK f : f = F(f, n - 1)
            BY <2>2
        <3> DEFINE g == [k \in 0 .. n |-> IF k = n THEN Step(f[n - 1], n) ELSE f[k]]
        <3>2. \A k \in 0 .. n : g[k] = IF k = 0 THEN r ELSE Step(g[k - 1], k)
            BY <1>3, <3>1
        <3>3. g = F(g, n)
            <4>1. g = [k \in 0 .. n |-> g[k]]
                OBVIOUS
            <4> HIDE DEF g
            <4> QED  BY <3>2, <4>1
        <3> HIDE DEF F, g
        <3> QED  BY <1>3, <3>3
    <2> HIDE DEF S
    <2>3. \A n \in 0 .. N : n \in S
        BY <1>3, <2>1, <2>2, StepByStep
    <2> QED  BY <1>3, <2>3
<1>7. after = F(after, N)
    <2>1. \E f : f = F(f, N)
        BY <1>6
    <2> HIDE DEF F
    <2> QED  BY <2>1
<1> HIDE DEF after, S
<1>8. after[0] = r /\ \A k \in 1 .. N : after[k] = Step(after[k - 1], k)
    BY <1>3, <1>7
<1> HIDE DEF F
<1>9. N \in T
    <2>1. 0 \in T
        <3>1. /\ r.releases \in Seq(RelHandles) /\ r.free \in Seq(RelHandles)
            BY <1>2, ManagerFields
        <3>2. Len(r.releases) \in Nat /\ Len(r.free) \in Nat
            BY <3>1
        <3>3. \A j \in 1 .. N : r.suspended[s[j]].relhandle = 0
            BY <1>3 DEF Unreleased
        <3>4. Good(r, 0)
            BY <1>1, <1>2, <1>3, <1>4, <3>2, <3>3 DEF SameFlags
        <3> QED  BY <1>3, <1>8, <3>4
    <2>2. ASSUME NEW n \in 1 .. N, n - 1 \in T
          PROVE  n \in T
        <3> DEFINE p == after[n - 1]
                   q == after[n]
                   h == Head(p.free)
                   x == CallRelease(p)
        <3>1. Good(p, n - 1)
            BY <2>2
        <3>2. /\ n \in Int /\ n - 1 >= 0 /\ n <= N /\ n \in 1 .. N
              /\ s[n] \in DOMAIN r.suspended
            BY <1>3
        <3> HIDE DEF p
        <3>3. p.suspended[s[n]].relhandle = 0
            <4>1. n \in (n - 1) + 1 .. N
                BY <1>3, <3>2
            <4> QED  BY <3>1, <4>1
        <3>4. q = [x EXCEPT !.suspended[s[n]].relhandle = h]
            BY <1>8, <3>3 DEF Step, Releasing, p
        <3>5. p.free # << >>
            BY <1>3, <3>1, <3>2
        <3>6. /\ x \in Manager /\ Pool(x) /\ SameList(x, p)
              /\ Len(x.releases) = Len(p.releases) + 1
              /\ Len(x.free) = Len(p.free) - 1
              /\ h \in RelHandles
            BY <3>1, <3>5, CallReleasePool
        <3>7. s[n] \in DOMAIN x.suspended
            BY <3>1, <3>2, <3>6 DEF SameList
        <3> HIDE DEF q, x, h
        <3>8. HandleSet(q, x, s[n], h)
            BY <3>4, <3>6, <3>7, SetRelhandle
        <3>9. /\ q \in Manager /\ q.releases = x.releases /\ q.free = x.free
              /\ Pool(q) /\ SameFlags(q, r)
              /\ q.first_suspended = r.first_suspended
              /\ DOMAIN q.suspended = DOMAIN r.suspended
            <4>1. q \in Manager /\ SameRest(q, x)
                BY <3>8 DEF HandleSet
            <4>2. Pool(q)
                BY <3>6, <4>1, PoolSame DEF SameRest
            <4>3. /\ DOMAIN q.suspended = DOMAIN x.suspended
                  /\ q.first_suspended = x.first_suspended
                BY <3>8 DEF HandleSet
            <4>4. /\ DOMAIN x.suspended = DOMAIN p.suspended
                  /\ x.first_suspended = p.first_suspended
                  /\ x.suspend = p.suspend /\ x.suspender = p.suspender
                BY <3>6 DEF SameList
            <4>5. /\ DOMAIN p.suspended = DOMAIN r.suspended
                  /\ p.first_suspended = r.first_suspended
                  /\ p.suspend = r.suspend /\ p.suspender = r.suspender
                BY <3>1 DEF SameFlags
            <4> HIDE DEF Good
            <4>6. SameFlags(q, r)
                BY <4>1, <4>4, <4>5 DEF SameRest, SameFlags
            <4> QED  BY <4>1, <4>2, <4>3, <4>4, <4>5, <4>6 DEF SameRest
        <3>10. LinkedBy(q, s)
            <4>1. /\ DOMAIN q.suspended = DOMAIN p.suspended
                  /\ q.first_suspended = p.first_suspended
                  /\ q.last_suspended = p.last_suspended
                  /\ \A c \in DOMAIN p.suspended :
                        /\ q.suspended[c].next = p.suspended[c].next
                        /\ q.suspended[c].prev = p.suspended[c].prev
                BY <3>6, <3>8 DEF HandleSet, SameList
            <4>2. LinkedBy(p, s)
                BY <3>1
            <4> HIDE DEF Good
            <4> QED  BY <4>1, <4>2, LinkedSame
        <3>11. \A j \in n + 1 .. N : q.suspended[s[j]].relhandle = 0
            <4> TAKE j \in n + 1 .. N
            <4>1. j \in 1 .. N /\ j # n /\ j \in (n - 1) + 1 .. N
                BY <1>3, <3>2
            <4>2. s[j] # s[n] /\ s[j] \in DOMAIN x.suspended
                BY <1>3, <3>1, <3>2, <3>6, <4>1 DEF SameList
            <4>3. q.suspended[s[j]].relhandle = x.suspended[s[j]].relhandle
                BY <3>8, <4>2 DEF HandleSet
            <4>4. p.suspended[s[j]].relhandle = 0
                BY <3>1, <4>1
            <4> QED  BY <3>6, <4>3, <4>4 DEF SameList
        <3>12. /\ Len(q.releases) \in Nat /\ Len(q.releases) >= n
               /\ Len(q.free) \in Nat /\ Len(q.free) >= N - n
            BY <1>3, <3>1, <3>2, <3>6, <3>9
        <3>13. Good(q, n)
            BY <3>1, <3>9, <3>10, <3>11, <3>12
        <3> HIDE DEF Good
        <3> QED  BY <1>3, <3>13 DEF q
    <2> HIDE DEF T
    <2>3. \A n \in 0 .. N : n \in T
        BY <1>3, <2>1, <2>2, StepByStep
    <2> QED  BY <1>3, <2>3
<1>10. Good(after[N], N)
    BY <1>9
<1> QED  BY <1>4, <1>5, <1>10 DEF Enough

---------------------------------------------------------------------------
(* Steps of the timers: one callout is held, or released.                  *)

LEMMA NoneLeft ==
    ASSUME NEW r, NEW s, LinkedBy(r, s)
    PROVE  /\ Len(s) \in Nat
           /\ r.first_suspended = None => Len(s) = 0
           /\ Len(s) = 0 => DOMAIN r.suspended = {}
           /\ r.first_suspended # None =>
                 /\ 1 \in 1 .. Len(s) /\ r.first_suspended = s[1]
                 /\ s[1] \in DOMAIN r.suspended
<1>1. /\ s \in Seq(Callouts) /\ Len(s) \in Nat /\ r.first_suspended = At(s, 1)
      /\ \A c : c \in DOMAIN r.suspended <=> \E i \in 1 .. Len(s) : s[i] = c
    BY DEF LinkedBy
<1>2. r.first_suspended # None <=> 1 \in 1 .. Len(s)
    BY <1>1, AtType
<1>3. ASSUME r.first_suspended # None
      PROVE  /\ 1 \in 1 .. Len(s) /\ r.first_suspended = s[1]
             /\ s[1] \in DOMAIN r.suspended
    <2>1. 1 \in 1 .. Len(s)
        BY <1>2, <1>3
    <2> QED  BY <1>1, <2>1 DEF At
<1>4. ASSUME r.first_suspended = None
      PROVE  Len(s) = 0
    BY <1>1, <1>2, <1>4
<1>5. ASSUME Len(s) = 0
      PROVE  DOMAIN r.suspended = {}
    BY <1>1, <1>5
<1> QED  BY <1>1, <1>3, <1>4, <1>5

LEMMA FiredIs ==
    ASSUME NEW r \in Manager, Pool(r), r.releases # << >>
    PROVE  /\ Fired(r) \in Manager /\ Pool(Fired(r)) /\ SameList(Fired(r), r)
           /\ Len(Fired(r).releases) \in Nat
           /\ Len(Fired(r).releases) >= Len(r.releases) - 1
<1> DEFINE a == r.releases
           h == Head(a)
<1>1. a \in Seq(RelHandles) /\ a # << >>
    BY ManagerFields
<1>2. /\ Tail(a) \in Seq(RelHandles) /\ h = a[1] /\ Len(a) \in Nat /\ Len(a) > 0
      /\ Len(Tail(a)) = Len(a) - 1
      /\ \A k \in 1 .. Len(a) - 1 : Tail(a)[k] = a[k + 1]
    BY <1>1, HeadTailElem
<1>3. 1 \in 1 .. Len(a) /\ DOMAIN a = 1 .. Len(a)
    BY <1>1, <1>2
<1>4. h \in ToSet(a)
    BY <1>2, <1>3 DEF ToSet
<1>5. (CHOOSE i \in DOMAIN a : a[i] = h) = 1
    BY <1>2, <1>3 DEF Pool, OneToOne
<1>6. RemoveAt(a, 1) = Tail(a)
    <2>1. /\ RemoveAt(a, 1) \in Seq(RelHandles) /\ Len(RemoveAt(a, 1)) = Len(a) - 1
          /\ \A k \in 1 .. Len(a) - 1 :
                RemoveAt(a, 1)[k] = IF k < 1 THEN a[k] ELSE a[k + 1]
        BY <1>1, <1>3, RemoveElem
    <2>2. \A k \in 1 .. Len(a) - 1 : RemoveAt(a, 1)[k] = Tail(a)[k]
        BY <1>2, <2>1
    <2> DEFINE x == RemoveAt(a, 1)
               y == Tail(a)
    <2>3. x \in Seq(RelHandles) /\ y \in Seq(RelHandles) /\ Len(x) = Len(y)
          /\ \A k \in 1 .. Len(x) : x[k] = y[k]
        BY <1>2, <2>1, <2>2
    <2> HIDE DEF x, y
    <2>4. x = y
        BY <2>3
    <2> QED  BY <2>4 DEF x, y
<1>7. Fired(r) = RemoveRelease(r, h)
    BY <1>4, <1>5, <1>6 DEF Fired, RemoveRelease
<1> QED  BY <1>7, RemoveReleasePool

(* Manager and mapping, consistent with each other in every state.         *)
ListInv(r, k) ==
    /\ RSound(r)
    /\ DOMAIN r.suspended = {c \in Callouts : k[c] = "held"}
    /\ r.suspend = 0 => DOMAIN r.suspended = {}
    /\ r.suspend < 0 => Unreleased(r)
    /\ r.suspend > 0 => Enough(r)

Kinds == {"none", "waiting", "held"}

LEMMA HoldSound ==
    ASSUME NEW r, NEW k \in [Callouts -> Kinds], ListInv(r, k), r.suspend # 0,
           NEW c \in Callouts, k[c] = "waiting", r.free # << >>
    PROVE  ListInv(Suspend(r, c), [k EXCEPT ![c] = "held"])
<1> DEFINE q == Suspend(r, c)
           k2 == [k EXCEPT ![c] = "held"]
           D == DOMAIN r.suspended
<1>1. PICK s : LinkedBy(r, s)
    BY DEF ListInv, RSound
<1>2. r \in Manager /\ Pool(r) /\ D = {d \in Callouts : k[d] = "held"} /\ c \notin D
    BY DEF ListInv, RSound
<1>3. D \cup {c} = {d \in Callouts : k2[d] = "held"}
    BY <1>2
<1>4. /\ IsFiniteSet(D) /\ Cardinality(D) \in Nat
      /\ Cardinality(D \cup {c}) = Cardinality(D) + 1
    <2>1. IsFiniteSet(D) /\ Cardinality(D) \in Nat
        BY <1>2, ManagerFields, CalloutsFinite
    <2> QED  BY <1>2, <2>1, FS_AddElement
<1> HIDE DEF k2
<1>7. r.suspend \in {-1, 0, 1}
    BY <1>2, ManagerFields
<1>5. CASE r.suspend > 0
    <2> DEFINE p == CallRelease(r)
               h == Head(r.free)
    <2>1. q = Listed(p, c, h)
        BY <1>5 DEF Suspend
    <2>2. /\ p \in Manager /\ Pool(p) /\ SameList(p, r) /\ h \in RelHandles
          /\ Len(r.releases) \in Nat /\ Len(p.releases) = Len(r.releases) + 1
        BY <1>2, CallReleasePool
    <2> HIDE DEF p, h, q
    <2>3. LinkedBy(p, s) /\ DOMAIN p.suspended = D
        BY <1>1, <2>2, LinkedSame DEF SameList
    <2>4. /\ q \in Manager /\ SameRest(q, p) /\ LinkedBy(q, Append(s, c))
          /\ DOMAIN q.suspended = D \cup {c}
        BY <1>2, <2>1, <2>2, <2>3, ListedLinked
    <2>5. Pool(q)
        BY <2>2, <2>4, PoolSame DEF SameRest
    <2>6. q.suspend = r.suspend
        BY <2>2, <2>4 DEF SameRest, SameList
    <2>7. Enough(q)
        <3>1. Len(r.releases) >= Cardinality(D)
            BY <1>5 DEF ListInv, Enough
        <3> QED  BY <1>4, <2>2, <2>4, <3>1 DEF Enough, SameRest
    <2> QED  BY <1>3, <1>5, <1>7, <2>4, <2>5, <2>6, <2>7 DEF ListInv, RSound, q, k2
<1>6. CASE ~(r.suspend > 0)
    <2>1. q = Listed(r, c, 0)
        BY <1>6 DEF Suspend
    <2> HIDE DEF q
    <2>2. /\ q \in Manager /\ SameRest(q, r) /\ LinkedBy(q, Append(s, c))
          /\ DOMAIN q.suspended = D \cup {c}
          /\ q.suspended[c].relhandle = 0
          /\ \A d \in D : q.suspended[d].relhandle = r.suspended[d].relhandle
        BY <1>1, <1>2, <2>1, ListedLinked
    <2>3. Pool(q)
        BY <1>2, <2>2, PoolSame DEF SameRest
    <2>4. q.suspend = r.suspend /\ r.suspend < 0
        BY <1>6, <1>7, <2>2 DEF SameRest
    <2>5. Unreleased(q)
        BY <2>2, <2>4 DEF ListInv, Unreleased
    <2> QED  BY <1>3, <1>6, <2>2, <2>3, <2>4, <2>5 DEF ListInv, RSound, q, k2
<1> QED  BY <1>5, <1>6

LEMMA ReleaseSound ==
    ASSUME NEW r, NEW k \in [Callouts -> Kinds], ListInv(r, k), r.releases # << >>,
           NEW c, c = r.first_suspended, c # None
    PROVE  /\ c \in Callouts /\ k[c] = "held"
           /\ ListInv(ReleaseFirst(Fired(r), c), [k EXCEPT ![c] = "none"])
<1> DEFINE f == Fired(r)
           q == ReleaseFirst(f, c)
           k2 == [k EXCEPT ![c] = "none"]
           D == DOMAIN r.suspended
<1>1. PICK s : LinkedBy(r, s)
    BY DEF ListInv, RSound
<1>2. r \in Manager /\ Pool(r) /\ D = {d \in Callouts : k[d] = "held"}
    BY DEF ListInv, RSound
<1>3. /\ f \in Manager /\ Pool(f) /\ SameList(f, r)
      /\ Len(f.releases) \in Nat /\ Len(f.releases) >= Len(r.releases) - 1
    BY <1>2, FiredIs
<1>4. Len(s) \in Nat /\ 1 \in 1 .. Len(s) /\ c = s[1] /\ c \in D
    BY <1>1, NoneLeft
<1>5. c \in Callouts /\ k[c] = "held"
    BY <1>2, <1>4
<1>6. D \ {c} = {d \in Callouts : k2[d] = "held"}
    BY <1>2, <1>5
<1>7. r.suspend \in {-1, 0, 1} /\ Len(r.releases) \in Nat
    <2>1. r.releases \in Seq(RelHandles)
        BY <1>2, ManagerFields
    <2>2. Len(r.releases) \in Nat
        BY <2>1
    <2>3. r.suspend \in {-1, 0, 1}
        BY <1>2, ManagerFields
    <2> QED  BY <2>2, <2>3
<1>8. /\ IsFiniteSet(D) /\ Cardinality(D) \in Nat
      /\ Cardinality(D \ {c}) = Cardinality(D) - 1
    <2>1. IsFiniteSet(D) /\ Cardinality(D) \in Nat
        BY <1>2, ManagerFields, CalloutsFinite
    <2> QED  BY <1>4, <2>1, FS_RemoveElement
<1> HIDE DEF f, k2
<1>9. LinkedBy(f, s) /\ DOMAIN f.suspended = D /\ f.suspended = r.suspended
    BY <1>1, <1>3, LinkedSame DEF SameList
<1> DEFINE v == f.suspended[c].next
<1>10. v = At(s, 2)
    <2>1. v = At(s, 1 + 1)
        BY <1>4, <1>9 DEF LinkedBy
    <2> QED  BY <2>1
<1>11. s \in Seq(Callouts) /\ OneToOne(s)
    BY <1>9 DEF LinkedBy
<1>12. CASE v # None
    <2> DEFINE w == Without(f, c)
               x == [w EXCEPT !.suspended[v].prev = None]
    <2>1. q = [x EXCEPT !.first_suspended = v]
        BY <1>12 DEF ReleaseFirst
    <2>2. /\ w \in Manager /\ SameRest(w, f)
          /\ DOMAIN w.suspended = D \ {c}
          /\ w.first_suspended = f.first_suspended /\ w.last_suspended = f.last_suspended
          /\ \A d \in D \ {c} : w.suspended[d] = f.suspended[d]
        BY <1>3, <1>4, <1>9, WithoutFields
    <2>3. 2 \in 1 .. Len(s) /\ v = s[2]
        BY <1>10, <1>11, <1>12, AtType DEF At
    <2>4. v \in D \ {c} /\ v \in Callouts
        <3>1. s[2] # s[1]
            BY <1>4, <1>11, <2>3 DEF OneToOne
        <3>2. s[2] \in D
            BY <1>9, <2>3 DEF LinkedBy
        <3>3. D \subseteq Callouts
            BY <1>2
        <3> QED  BY <1>4, <2>3, <3>1, <3>2, <3>3
    <2> HIDE DEF w, q, v
    <2>5. /\ x \in Manager /\ SameRest(x, w) /\ DOMAIN x.suspended = D \ {c}
          /\ x.first_suspended = w.first_suspended /\ x.last_suspended = w.last_suspended
          /\ \A d \in D \ {c} :
                /\ x.suspended[d].next = w.suspended[d].next
                /\ x.suspended[d].relhandle = w.suspended[d].relhandle
                /\ x.suspended[d].prev = IF d = v THEN None ELSE w.suspended[d].prev
        <3>1. v \in DOMAIN w.suspended /\ None \in Callouts \cup {None}
            BY <2>2, <2>4
        <3>3. x = [w EXCEPT !.suspended[v].prev = None]
            OBVIOUS
        <3> HIDE DEF x
        <3>2. /\ x \in Manager /\ SameRest(x, w)
              /\ DOMAIN x.suspended = DOMAIN w.suspended
              /\ x.first_suspended = w.first_suspended
              /\ x.last_suspended = w.last_suspended
              /\ \A d \in DOMAIN w.suspended :
                    /\ x.suspended[d].next = w.suspended[d].next
                    /\ x.suspended[d].relhandle = w.suspended[d].relhandle
                    /\ x.suspended[d].prev =
                           IF d = v THEN None ELSE w.suspended[d].prev
            <4>1. PrevSet(x, w, v, None)
                BY <2>2, <3>1, <3>3, SetPrev
            <4> QED  BY <4>1 DEF PrevSet
        <3> QED  BY <2>2, <3>2
    <2> HIDE DEF x
    <2>6. /\ q \in Manager /\ SameRest(q, x) /\ q.suspended = x.suspended
          /\ q.first_suspended = v /\ q.last_suspended = x.last_suspended
        BY <2>1, <2>4, <2>5 DEF Manager, SameRest
    <2>7. ASSUME NEW j \in 1 .. Len(s), j # 1
          PROVE  /\ s[j] \in D \ {c}
                 /\ q.suspended[s[j]].next = f.suspended[s[j]].next
                 /\ q.suspended[s[j]].prev =
                        IF j = 2 THEN None ELSE f.suspended[s[j]].prev
                 /\ q.suspended[s[j]].relhandle = f.suspended[s[j]].relhandle
        <3>1. s[j] # s[1] /\ (s[j] = s[2] <=> j = 2)
            BY <1>4, <1>11, <2>3, <2>7 DEF OneToOne
        <3>2. s[j] \in D \ {c}
            BY <1>4, <1>9, <3>1 DEF LinkedBy
        <3> QED  BY <2>2, <2>3, <2>5, <2>6, <3>1, <3>2
    <2>8. LinkedBy(q, RemoveAt(s, 1))
        <3>1. /\ DOMAIN q.suspended = DOMAIN f.suspended \ {s[1]}
              /\ q.first_suspended = At(s, 2)
            BY <1>4, <1>9, <1>10, <2>5, <2>6
        <3>2. q.last_suspended = IF 1 = Len(s) THEN At(s, 1 - 1) ELSE f.last_suspended
            BY <1>4, <2>2, <2>3, <2>5, <2>6
        <3>3. ASSUME NEW j \in 1 .. Len(s), j # 1
              PROVE  /\ q.suspended[s[j]].next =
                            IF j = 1 - 1 THEN At(s, 1 + 1) ELSE f.suspended[s[j]].next
                     /\ q.suspended[s[j]].prev =
                            IF j = 1 + 1 THEN At(s, 1 - 1) ELSE f.suspended[s[j]].prev
            <4>1. At(s, 1 - 1) = None
                BY <1>11, AtType
            <4>2. j # 1 - 1 /\ 1 + 1 = 2
                BY <1>4
            <4> QED  BY <2>7, <3>3, <4>1, <4>2
        <3> QED  BY <1>3, <1>4, <1>9, <3>1, <3>2, <3>3, RemovedLinked
    <2>9. Pool(q)
        BY <1>3, <2>2, <2>5, <2>6, PoolSame DEF SameRest
    <2>10. /\ q.suspend = r.suspend /\ q.releases = f.releases
           /\ DOMAIN q.suspended = D \ {c}
        BY <1>3, <2>2, <2>5, <2>6 DEF SameRest, SameList
    <2>11. r.suspend < 0 => Unreleased(q)
        <3>1. \A d \in D \ {c} : q.suspended[d].relhandle = r.suspended[d].relhandle
            BY <1>9, <2>2, <2>5, <2>6
        <3> QED  BY <2>10, <3>1 DEF ListInv, Unreleased
    <2>12. r.suspend > 0 => Enough(q)
        <3>1. r.suspend > 0 => Len(r.releases) >= Cardinality(D)
            BY DEF ListInv, Enough
        <3> QED  BY <1>3, <1>7, <1>8, <2>10, <3>1 DEF Enough
    <2>13. r.suspend = 0 => D \ {c} = {}
        BY DEF ListInv
    <2>14. ListInv(q, k2)
        BY <1>6, <2>6, <2>8, <2>9, <2>10, <2>11, <2>12, <2>13 DEF ListInv, RSound
    <2> QED  BY <1>5, <2>14 DEF q, k2, f
<1>13. CASE v = None
    <2>1. q = [f EXCEPT !.first_suspended = None, !.last_suspended = None,
                        !.suspended = << >>, !.suspend = 0]
        BY <1>13 DEF ReleaseFirst
    <2> HIDE DEF q, v
    <2>2. Len(s) = 1
        <3>1. ~(2 \in 1 .. Len(s))
            BY <1>10, <1>11, <1>13, AtType
        <3> DEFINE n == Len(s)
        <3>2. n \in Nat /\ 1 \in 1 .. n /\ ~(2 \in 1 .. n)
            BY <1>4, <3>1
        <3> HIDE DEF n
        <3>3. n = 1
            BY <3>2
        <3> QED  BY <3>3 DEF n
    <2>3. D \ {c} = {}
        BY <1>4, <1>9, <2>2 DEF LinkedBy
    <2>4. << >> \in Mapping
        BY EmptyMapping
    <2>5. /\ q \in Manager /\ q.suspended = << >> /\ q.suspend = 0
          /\ q.first_suspended = None /\ q.last_suspended = None
          /\ q.releases = f.releases /\ q.free = f.free
        BY <1>3, <2>1, <2>4 DEF Manager
    <2>6. DOMAIN q.suspended = {}
        BY <2>5
    <2>7. LinkedBy(q, << >>)
        BY <2>5, <2>6 DEF LinkedBy, OneToOne, At
    <2>8. Pool(q)
        BY <1>3, <2>5, PoolSame
    <2>9. ListInv(q, k2)
        BY <1>6, <2>3, <2>5, <2>6, <2>7, <2>8 DEF ListInv, RSound
    <2> QED  BY <1>5, <2>9 DEF q, k2, f
<1> QED  BY <1>12, <1>13

(* suspend_callouts(), release_callouts() and _F_destruct().               *)
LEMMA SuspendSound ==
    ASSUME NEW r, NEW k \in [Callouts -> Kinds], ListInv(r, k), NEW o \in Systems,
           NEW q, q = [NoReleases(r) EXCEPT
                         !.suspended = [c \in DOMAIN @ |-> [@[c] EXCEPT !.relhandle = 0]],
                         !.suspender = o, !.suspend = -1]
    PROVE  ListInv(q, k)
<1> DEFINE p == NoReleases(r)
           D == DOMAIN r.suspended
           m == [c \in D |-> [p.suspended[c] EXCEPT !.relhandle = 0]]
<1>1. PICK s : LinkedBy(r, s)
    BY DEF ListInv, RSound
<1>2. RSound(r) /\ D = {d \in Callouts : k[d] = "held"}
    BY DEF ListInv
<1>3. p \in Manager /\ Pool(p) /\ SameList(p, r)
    BY <1>2, NoReleasesSame
<1>4. q = [p EXCEPT !.suspended = m, !.suspender = o, !.suspend = -1]
    BY <1>3 DEF SameList
<1> HIDE DEF p
<1>5. D \subseteq Callouts /\ \A c \in D : p.suspended[c] \in Node
    BY <1>3, ManagerFields DEF SameList
<1>6. /\ DOMAIN m = D
      /\ \A c \in D : /\ m[c] \in Node /\ m[c].relhandle = 0
                      /\ m[c].next = p.suspended[c].next
                      /\ m[c].prev = p.suspended[c].prev
    BY <1>5 DEF Node
<1>7. m \in Mapping
    <2>1. m \in [D -> Node]
        BY <1>6
    <2> QED  BY <1>5, <2>1 DEF Mapping
<1> HIDE DEF m
<1>8. /\ q \in Manager /\ q.suspended = m /\ q.suspend = -1
      /\ q.first_suspended = p.first_suspended /\ q.last_suspended = p.last_suspended
      /\ q.releases = p.releases /\ q.free = p.free
    BY <1>3, <1>4, <1>7 DEF Manager
<1>9. LinkedBy(q, s)
    <2>1. /\ DOMAIN q.suspended = DOMAIN r.suspended
          /\ q.first_suspended = r.first_suspended /\ q.last_suspended = r.last_suspended
          /\ \A c \in DOMAIN r.suspended : /\ q.suspended[c].next = r.suspended[c].next
                                           /\ q.suspended[c].prev = r.suspended[c].prev
        BY <1>3, <1>6, <1>8 DEF SameList
    <2> QED  BY <1>1, <2>1, LinkedSame
<1>10. Pool(q)
    BY <1>3, <1>8, PoolSame
<1>11. Unreleased(q) /\ DOMAIN q.suspended = D
    BY <1>6, <1>8 DEF Unreleased
<1>12. RSound(q)
    BY <1>8, <1>9, <1>10 DEF RSound
<1>13. q.suspend = -1 /\ DOMAIN q.suspended = {d \in Callouts : k[d] = "held"}
    BY <1>2, <1>8, <1>11
<1> QED  BY <1>11, <1>12, <1>13 DEF ListInv

LEMMA ReleasingSound ==
    ASSUME NEW r, NEW k \in [Callouts -> Kinds], ListInv(r, k), r.suspend < 0,
           Len(r.free) >= Cardinality(DOMAIN r.suspended),
           NEW q, q = [ReleasingAll(r) EXCEPT
                         !.suspender = None,
                         !.suspend = IF r.first_suspended = None THEN 0 ELSE 1]
    PROVE  ListInv(q, k)
<1> DEFINE p == ReleasingAll(r)
           D == DOMAIN r.suspended
           flag == IF r.first_suspended = None THEN 0 ELSE 1
<1>1. PICK s : LinkedBy(r, s)
    BY DEF ListInv, RSound
<1>2. RSound(r) /\ D = {d \in Callouts : k[d] = "held"} /\ Unreleased(r)
    BY DEF ListInv
<1>3. /\ p \in Manager /\ Pool(p) /\ Enough(p)
      /\ DOMAIN p.suspended = D /\ \E t : LinkedBy(p, t)
    BY <1>2, ReleasingAllSound
<1>4. q = [p EXCEPT !.suspender = None, !.suspend = flag]
    OBVIOUS
<1>5. flag \in {0, 1} /\ (flag = 0 => D = {})
    BY <1>1, NoneLeft
<1> HIDE DEF p, flag
<1>6. /\ q \in Manager /\ q.suspended = p.suspended /\ q.suspend = flag
      /\ q.first_suspended = p.first_suspended /\ q.last_suspended = p.last_suspended
      /\ q.releases = p.releases /\ q.free = p.free
    BY <1>3, <1>4, <1>5 DEF Manager
<1>7. \E t : LinkedBy(q, t)
    <2>1. PICK t : LinkedBy(p, t)
        BY <1>3
    <2>2. LinkedBy(q, t)
        BY <1>6, <2>1, LinkedSame
    <2> QED  BY <2>2
<1>8. Pool(q) /\ Enough(q)
    BY <1>3, <1>6, PoolSame DEF Enough
<1>9. RSound(q)
    BY <1>6, <1>7, <1>8 DEF RSound
<1>10. DOMAIN q.suspended = D
    BY <1>3, <1>6
<1>11. q.suspend \in {0, 1} /\ (q.suspend = 0 => DOMAIN q.suspended = {})
    BY <1>5, <1>6, <1>10
<1>12. ~(q.suspend < 0)
    BY <1>11
<1>13. Enough(q) /\ DOMAIN q.suspended = {d \in Callouts : k[d] = "held"}
    BY <1>2, <1>8, <1>10
<1> HIDE DEF D
<1> QED  BY <1>9, <1>11, <1>12, <1>13 DEF ListInv

LEMMA RemovedInv ==
    ASSUME NEW r, NEW k \in [Callouts -> Kinds], ListInv(r, k), NEW S,
           NEW q, RemovedFrom(q, r, S),
           NEW k2, DOMAIN r.suspended \ S = {d \in Callouts : k2[d] = "held"}
    PROVE  ListInv(q, k2)
BY DEF ListInv, RemovedFrom, SameFlags

LEMMA SuspenderLeaves ==
    ASSUME NEW r, NEW k, ListInv(r, k), NEW o,
           NEW q, q = [r EXCEPT !.suspender = IF @ = o THEN None ELSE @]
    PROVE  ListInv(q, k)
<1> DEFINE u == IF r.suspender = o THEN None ELSE r.suspender
<1>1. q = [r EXCEPT !.suspender = u]
    OBVIOUS
<1>2. r \in Manager /\ Pool(r)
    BY DEF ListInv, RSound
<1>3. u \in Systems \cup {None}
    BY <1>2, ManagerFields
<1> HIDE DEF u
<1>4. /\ q \in Manager /\ q.suspended = r.suspended /\ q.suspend = r.suspend
      /\ q.first_suspended = r.first_suspended /\ q.last_suspended = r.last_suspended
      /\ q.releases = r.releases /\ q.free = r.free
    BY <1>1, <1>2, <1>3 DEF Manager
<1>5. Pool(q)
    BY <1>2, <1>4, PoolSame
<1>6. \E s : LinkedBy(q, s)
    <2>1. PICK s : LinkedBy(r, s)
        BY DEF ListInv, RSound
    <2>2. LinkedBy(q, s)
        BY <1>4, <2>1, LinkedSame
    <2> QED  BY <2>2
<1> QED  BY <1>4, <1>5, <1>6 DEF ListInv, RSound, Unreleased, Enough

---------------------------------------------------------------------------
(* The resource: what the owner and the objects are charged with.          *)

Running(k) == {c \in Callouts : k[c] # "none"}
RunningOf(k, o) == {h \in Handles : k[<< o, h >>] # "none"}

Counts(u, k) ==
    /\ k \in [Callouts -> Kinds]
    /\ u \in [owner : Nat, of : [Objects -> Nat]]
    /\ u.owner = Cardinality(Running(k))
    /\ \A o \in Objects : u.of[o] = Cardinality(RunningOf(k, o))

LEMMA IncrIs ==
    ASSUME NEW u \in [owner : Nat, of : [Objects -> Nat]], NEW o \in Objects, NEW n \in Int,
           NEW w, w = Incr(u, o, n)
    PROVE  /\ w.owner = u.owner + n
           /\ w = [owner |-> w.owner, of |-> w.of]
           /\ w.of = [d \in Objects |-> IF d = o THEN u.of[o] + n ELSE u.of[d]]
BY DEF Incr

LEMMA CountsKept ==
    ASSUME NEW u \in [owner : Nat, of : [Objects -> Nat]], NEW o \in Objects, NEW n \in Int,
           NEW w, w = Incr(u, o, n), NEW k \in [Callouts -> Kinds],
           u.owner + n \in Nat, u.owner + n = Cardinality(Running(k)),
           u.of[o] + n \in Nat, u.of[o] + n = Cardinality(RunningOf(k, o)),
           \A d \in Objects \ {o} : u.of[d] = Cardinality(RunningOf(k, d))
    PROVE  Counts(w, k) /\ w.owner = u.owner + n
<1>1. /\ w.owner = u.owner + n
      /\ w = [owner |-> w.owner, of |-> w.of]
      /\ w.of = [d \in Objects |-> IF d = o THEN u.of[o] + n ELSE u.of[d]]
    BY IncrIs
<1>2. \A d \in Objects : u.of[d] \in Nat
    OBVIOUS
<1>3. w.of \in [Objects -> Nat]
    BY <1>1, <1>2
<1>4. w \in [owner : Nat, of : [Objects -> Nat]]
    BY <1>1, <1>3
<1>5. \A d \in Objects : w.of[d] = Cardinality(RunningOf(k, d))
    BY <1>1
<1> QED  BY <1>1, <1>4, <1>5 DEF Counts

LEMMA RunningFinite ==
    ASSUME NEW k, NEW o
    PROVE  /\ IsFiniteSet(Running(k)) /\ Cardinality(Running(k)) \in Nat
           /\ IsFiniteSet(RunningOf(k, o)) /\ Cardinality(RunningOf(k, o)) \in 0 .. MaxHandle
<1>1. Running(k) \subseteq Callouts
    BY DEF Running
<1>2. RunningOf(k, o) \subseteq Handles
    BY DEF RunningOf
<1>3. MaxHandle \in Nat /\ IsFiniteSet(Handles) /\ Cardinality(Handles) = MaxHandle
    BY CalloutsFinite, FS_Interval DEF Handles
<1>4. /\ IsFiniteSet(RunningOf(k, o)) /\ Cardinality(RunningOf(k, o)) \in Nat
      /\ Cardinality(RunningOf(k, o)) <= MaxHandle
    BY <1>2, <1>3, FS_Subset, FS_CardinalityType
<1> QED  BY <1>1, <1>3, <1>4, CalloutsFinite

LEMMA WithElement ==
    ASSUME NEW T, IsFiniteSet(T), NEW x, x \notin T, NEW S, S = T \cup {x}
    PROVE  Cardinality(T) \in Nat /\ Cardinality(S) = Cardinality(T) + 1
BY FS_AddElement, FS_CardinalityType

(* One callout starts, ends or is held.                                    *)
LEMMA OneMore ==
    ASSUME NEW u, NEW k, Counts(u, k), NEW o \in Objects, NEW h \in Handles,
           k[<< o, h >>] = "none"
    PROVE  /\ Counts(Incr(u, o, 1), [k EXCEPT ![<< o, h >>] = "waiting"])
           /\ Incr(u, o, 1).owner = u.owner + 1
<1> DEFINE c == << o, h >>
           k2 == [k EXCEPT ![<< o, h >>] = "waiting"]
           w == Incr(u, o, 1)
<1>1. /\ k \in [Callouts -> Kinds] /\ u \in [owner : Nat, of : [Objects -> Nat]]
      /\ u.owner = Cardinality(Running(k))
      /\ \A d \in Objects : u.of[d] = Cardinality(RunningOf(k, d))
    BY DEF Counts
<1>2. c \in Callouts /\ \A d \in Objects, i \in Handles : << d, i >> \in Callouts
    BY DEF Callouts
<1>3. /\ k2 \in [Callouts -> Kinds]
      /\ \A d \in Callouts : k2[d] = IF d = c THEN "waiting" ELSE k[d]
    BY <1>1, <1>2 DEF Kinds
<1> HIDE DEF k2
<1>4. Running(k2) = Running(k) \cup {c} /\ c \notin Running(k)
    BY <1>2, <1>3 DEF Running
<1>5. RunningOf(k2, o) = RunningOf(k, o) \cup {h} /\ h \notin RunningOf(k, o)
    BY <1>2, <1>3 DEF RunningOf
<1>6. \A d \in Objects \ {o} : RunningOf(k2, d) = RunningOf(k, d)
    BY <1>2, <1>3 DEF RunningOf
<1>7. u.owner + 1 \in Nat /\ u.owner + 1 = Cardinality(Running(k2))
    <2>1. IsFiniteSet(Running(k))
        BY RunningFinite
    <2>2. /\ Cardinality(Running(k)) \in Nat
          /\ Cardinality(Running(k2)) = Cardinality(Running(k)) + 1
        BY <1>4, <2>1, WithElement
    <2> QED  BY <1>1, <2>2
<1>8. u.of[o] + 1 \in Nat /\ u.of[o] + 1 = Cardinality(RunningOf(k2, o))
    <2>1. IsFiniteSet(RunningOf(k, o))
        BY RunningFinite
    <2>2. /\ Cardinality(RunningOf(k, o)) \in Nat
          /\ Cardinality(RunningOf(k2, o)) = Cardinality(RunningOf(k, o)) + 1
        BY <1>5, <2>1, WithElement
    <2> QED  BY <1>1, <2>2
<1>9. Counts(w, k2) /\ w.owner = u.owner + 1
    <2>1. w = Incr(u, o, 1)
        OBVIOUS
    <2>2. \A d \in Objects \ {o} : u.of[d] = Cardinality(RunningOf(k2, d))
        BY <1>1, <1>6
    <2> HIDE DEF w
    <2> QED  BY <1>1, <1>3, <1>7, <1>8, <2>1, <2>2, CountsKept
<1> QED  BY <1>9 DEF k2

LEMMA OneFewer ==
    ASSUME NEW u, NEW k, Counts(u, k), NEW o \in Objects, NEW h \in Handles,
           k[<< o, h >>] # "none"
    PROVE  /\ Counts(Incr(u, o, -1), [k EXCEPT ![<< o, h >>] = "none"])
           /\ Incr(u, o, -1).owner = u.owner - 1
<1> DEFINE c == << o, h >>
           k2 == [k EXCEPT ![<< o, h >>] = "none"]
           w == Incr(u, o, -1)
<1>1. /\ k \in [Callouts -> Kinds] /\ u \in [owner : Nat, of : [Objects -> Nat]]
      /\ u.owner = Cardinality(Running(k))
      /\ \A d \in Objects : u.of[d] = Cardinality(RunningOf(k, d))
    BY DEF Counts
<1>2. c \in Callouts /\ \A d \in Objects, i \in Handles : << d, i >> \in Callouts
    BY DEF Callouts
<1>3. /\ k2 \in [Callouts -> Kinds]
      /\ \A d \in Callouts : k2[d] = IF d = c THEN "none" ELSE k[d]
    BY <1>1, <1>2 DEF Kinds
<1> HIDE DEF k2
<1>4. Running(k2) = Running(k) \ {c} /\ c \in Running(k)
    BY <1>2, <1>3 DEF Running
<1>5. RunningOf(k2, o) = RunningOf(k, o) \ {h} /\ h \in RunningOf(k, o)
    BY <1>2, <1>3 DEF RunningOf
<1>6. \A d \in Objects \ {o} : RunningOf(k2, d) = RunningOf(k, d)
    BY <1>2, <1>3 DEF RunningOf
<1>7. u.owner + (-1) \in Nat /\ u.owner + (-1) = Cardinality(Running(k2))
    <2>1. IsFiniteSet(Running(k2)) /\ c \notin Running(k2) /\ Running(k) = Running(k2) \cup {c}
        BY <1>4, RunningFinite
    <2>2. /\ Cardinality(Running(k2)) \in Nat
          /\ Cardinality(Running(k)) = Cardinality(Running(k2)) + 1
        BY <2>1, WithElement
    <2> QED  BY <1>1, <2>2
<1>8. u.of[o] + (-1) \in Nat /\ u.of[o] + (-1) = Cardinality(RunningOf(k2, o))
    <2>1. IsFiniteSet(RunningOf(k2, o)) /\ h \notin RunningOf(k2, o) /\ RunningOf(k, o) = RunningOf(k2, o) \cup {h}
        BY <1>5, RunningFinite
    <2>2. /\ Cardinality(RunningOf(k2, o)) \in Nat
          /\ Cardinality(RunningOf(k, o)) = Cardinality(RunningOf(k2, o)) + 1
        BY <2>1, WithElement
    <2> QED  BY <1>1, <2>2
<1>9. Counts(w, k2) /\ w.owner = u.owner + (-1)
    <2>1. w = Incr(u, o, -1)
        OBVIOUS
    <2>2. \A d \in Objects \ {o} : u.of[d] = Cardinality(RunningOf(k2, d))
        BY <1>1, <1>6
    <2> HIDE DEF w
    <2> QED  BY <1>1, <1>3, <1>7, <1>8, <2>1, <2>2, CountsKept
<1> QED  BY <1>1, <1>9 DEF k2

(* All those of an object end.                                             *)
LEMMA AllFewer ==
    ASSUME NEW u, NEW k, Counts(u, k), NEW o \in Objects
    PROVE  /\ Counts(Incr(u, o, -u.of[o]),
                     [c \in Callouts |-> IF c[1] = o THEN "none" ELSE k[c]])
           /\ Incr(u, o, -u.of[o]).owner <= u.owner
<1> DEFINE k2 == [c \in Callouts |-> IF c[1] = o THEN "none" ELSE k[c]]
           n == u.of[o]
           w == Incr(u, o, -n)
           mine == {c \in Running(k) : c[1] = o}
<1>1. /\ k \in [Callouts -> Kinds] /\ u \in [owner : Nat, of : [Objects -> Nat]]
      /\ u.owner = Cardinality(Running(k))
      /\ \A d \in Objects : u.of[d] = Cardinality(RunningOf(k, d))
    BY DEF Counts
<1>2. n \in Nat /\ u.owner \in Nat
    BY <1>1
<1>3. k2 \in [Callouts -> Kinds] /\ \A c \in Callouts : k2[c] = IF c[1] = o THEN "none" ELSE k[c]
    BY <1>1 DEF Kinds
<1>4. \A d \in Objects, i \in Handles : << d, i >> \in Callouts /\ << d, i >>[1] = d
    BY DEF Callouts
<1> HIDE DEF k2
<1>5. Running(k2) = Running(k) \ mine
    BY <1>3 DEF Running
<1>6. RunningOf(k2, o) = {}
    BY <1>3, <1>4 DEF RunningOf
<1>7. \A d \in Objects \ {o} : RunningOf(k2, d) = RunningOf(k, d)
    BY <1>3, <1>4 DEF RunningOf
<1>8. Cardinality(mine) = n /\ IsFiniteSet(mine)
    <2> DEFINE f == [h \in RunningOf(k, o) |-> << o, h >>]
    <2>1. f \in [RunningOf(k, o) -> mine]
        BY <1>4 DEF RunningOf, Running
    <2>2. \A h, i \in RunningOf(k, o) : f[h] = f[i] => h = i
        OBVIOUS
    <2>3. ASSUME NEW c \in mine
          PROVE  \E h \in RunningOf(k, o) : f[h] = c
        <3>1. c = << o, c[2] >> /\ c[2] \in Handles /\ k[c] # "none"
            BY DEF Running, Callouts
        <3>2. c[2] \in RunningOf(k, o)
            BY <3>1 DEF RunningOf
        <3> QED  BY <3>1, <3>2
    <2> HIDE DEF f, mine
    <2>4. f \in Bijection(RunningOf(k, o), mine)
        BY <2>1, <2>2, <2>3, Fun_IsBij
    <2>5. IsFiniteSet(RunningOf(k, o)) /\ n = Cardinality(RunningOf(k, o))
        BY <1>1, RunningFinite
    <2> HIDE DEF n
    <2> QED  BY <2>4, <2>5, FS_Bijection DEF ExistsBijection
<1>9. Cardinality(Running(k2)) = u.owner - n
    <2>1. IsFiniteSet(Running(k)) /\ Running(k) \cap mine = mine
        BY RunningFinite
    <2> HIDE DEF mine
    <2>2. Cardinality(Running(k) \ mine)
              = Cardinality(Running(k)) - Cardinality(Running(k) \cap mine)
        BY <2>1, FS_Difference
    <2> QED  BY <1>1, <1>5, <1>8, <2>1, <2>2
<1> DEFINE b == -n
<1>10. u.owner + b \in Nat /\ u.owner + b = Cardinality(Running(k2))
    <2>1. Cardinality(Running(k2)) \in Nat
        BY RunningFinite
    <2> HIDE DEF n
    <2> QED  BY <1>2, <1>9, <2>1
<1>11. n + b \in Nat /\ n + b = Cardinality(RunningOf(k2, o))
    <2>1. Cardinality({}) = 0
        BY FS_EmptySet
    <2> HIDE DEF n
    <2> QED  BY <1>2, <1>6, <2>1
<1>12. b \in Int /\ u.owner + b <= u.owner
    BY <1>2
<1>13. w = Incr(u, o, b)
    OBVIOUS
<1> HIDE DEF w, b
<1>14. Counts(w, k2) /\ w.owner = u.owner + b
    <2>1. \A d \in Objects \ {o} : u.of[d] = Cardinality(RunningOf(k2, d))
        BY <1>1, <1>7
    <2> QED  BY <1>1, <1>3, <1>10, <1>11, <1>12, <1>13, <2>1, CountsKept
<1> QED  BY <1>12, <1>14 DEF w, k2

LEMMA FiredSound ==
    ASSUME NEW r, NEW k, ListInv(r, k), r.releases # << >>, r.first_suspended = None
    PROVE  ListInv(Fired(r), k)
<1> DEFINE q == Fired(r)
<1>1. PICK s : LinkedBy(r, s)
    BY DEF ListInv, RSound
<1>2. r \in Manager /\ Pool(r)
    BY DEF ListInv, RSound
<1>3. q \in Manager /\ Pool(q) /\ SameList(q, r) /\ Len(q.releases) \in Nat
    BY <1>2, FiredIs
<1> HIDE DEF q
<1>4. LinkedBy(q, s)
    BY <1>1, <1>3, LinkedSame DEF SameList
<1>5. DOMAIN q.suspended = {}
    BY <1>1, <1>3, NoneLeft DEF SameList
<1>6. Cardinality({}) = 0
    BY FS_EmptySet
<1>7. RSound(q) /\ Enough(q) /\ Unreleased(q)
    BY <1>3, <1>4, <1>5, <1>6 DEF RSound, Enough, Unreleased
<1> QED  BY <1>3, <1>5, <1>7 DEF ListInv, SameList, q

---------------------------------------------------------------------------
(* The inductive invariant.                                                *)

IInv ==
    /\ Counts(usage, callout)
    /\ usage.owner <= MaxCallouts
    /\ ListInv(rsrcd, callout)
    /\ alive \subseteq Objects

LEMMA SameHeld ==
    ASSUME NEW r, NEW k, ListInv(r, k),
           NEW k2, \A c \in Callouts : k2[c] = "held" <=> k[c] = "held"
    PROVE  ListInv(r, k2)
<1>1. {c \in Callouts : k2[c] = "held"} = {c \in Callouts : k[c] = "held"}
    OBVIOUS
<1> QED  BY <1>1 DEF ListInv

LEMMA IInvInit == Init => IInv
<1> SUFFICES ASSUME Init  PROVE IInv
    OBVIOUS
<1>1. /\ callout = [c \in Callouts |-> "none"]
      /\ usage = [owner |-> 0, of |-> [o \in Objects |-> 0]]
      /\ rsrcd = [suspend |-> 0, suspender |-> None, suspended |-> << >>,
                  first_suspended |-> None, last_suspended |-> None,
                  releases |-> << >>, free |-> [h \in RelHandles |-> h]]
      /\ alive = Objects
    BY DEF Init
<1>2. Counts(usage, callout) /\ usage.owner <= MaxCallouts
    <2>1. Running(callout) = {} /\ \A o \in Objects : RunningOf(callout, o) = {}
        BY <1>1 DEF Running, RunningOf, Callouts
    <2>2. Cardinality({}) = 0
        BY FS_EmptySet
    <2>3. MaxCallouts \in Nat
        BY SuspensionAssumption
    <2>4. /\ usage.owner = 0 /\ \A o \in Objects : usage.of[o] = 0
          /\ usage \in [owner : Nat, of : [Objects -> Nat]]
          /\ callout \in [Callouts -> Kinds]
        BY <1>1 DEF Kinds
    <2> QED  BY <2>1, <2>2, <2>3, <2>4 DEF Counts
<1>3. ListInv(rsrcd, callout)
    <2> DEFINE f == [h \in RelHandles |-> h]
    <2>1. MaxReleases \in Nat /\ RelHandles = 1 .. MaxReleases
        BY SuspensionAssumption DEF RelHandles
    <2>2. f \in Seq(RelHandles) /\ Len(f) = MaxReleases /\ \A i \in 1 .. Len(f) : f[i] = i
        BY <2>1
    <2>3. /\ rsrcd.suspended = << >> /\ rsrcd.releases = << >> /\ rsrcd.free = f
          /\ rsrcd.suspend = 0
          /\ rsrcd.first_suspended = None /\ rsrcd.last_suspended = None
        BY <1>1
    <2> HIDE DEF f
    <2>4. rsrcd \in Manager
        BY <1>1, <2>2, <2>3, EmptyMapping DEF Manager, f
    <2>5. Pool(rsrcd)
        BY <2>1, <2>2, <2>3 DEF Pool, OneToOne
    <2>6. DOMAIN rsrcd.suspended = {}
        BY <2>3
    <2>7. LinkedBy(rsrcd, << >>)
        BY <2>3, <2>6 DEF LinkedBy, OneToOne, At
    <2>8. {c \in Callouts : callout[c] = "held"} = {}
        BY <1>1
    <2> QED  BY <2>3, <2>4, <2>5, <2>6, <2>7, <2>8 DEF ListInv, RSound
<1> QED  BY <1>1, <1>2, <1>3 DEF IInv

LEMMA IInvNext == IInv /\ [Next]_vars => IInv'
<1> SUFFICES ASSUME IInv, [Next]_vars  PROVE IInv'
    OBVIOUS
<1>1. /\ Counts(usage, callout) /\ usage.owner <= MaxCallouts
      /\ ListInv(rsrcd, callout) /\ alive \subseteq Objects
      /\ callout \in [Callouts -> Kinds]
      /\ usage.owner \in Nat /\ \A o \in Objects : usage.of[o] \in Nat
      /\ MaxCallouts \in Nat
    BY SuspensionAssumption DEF IInv, Counts
<1>2. /\ rsrcd \in Manager /\ RSound(rsrcd)
      /\ DOMAIN rsrcd.suspended = {c \in Callouts : callout[c] = "held"}
    BY <1>1 DEF ListInv, RSound
<1>3. \A o \in Objects, h \in Handles : << o, h >> \in Callouts
    BY DEF Callouts
<1>4. ASSUME NEW o \in Objects, NEW h \in Handles, CallOut(o, h)
      PROVE  IInv'
    <2> DEFINE k == [callout EXCEPT ![<< o, h >>] = "waiting"]
    <2>1. /\ callout[<< o, h >>] = "none" /\ usage.owner < MaxCallouts /\ callout' = k
          /\ usage' = Incr(usage, o, 1) /\ rsrcd' = rsrcd /\ alive' = alive
        BY <1>4 DEF CallOut
    <2>2. Counts(Incr(usage, o, 1), k) /\ Incr(usage, o, 1).owner = usage.owner + 1
        BY <1>1, <2>1, OneMore
    <2>3. \A c \in Callouts : k[c] = "held" <=> callout[c] = "held"
        BY <1>1, <1>3, <2>1
    <2> HIDE DEF k
    <2>4. ListInv(rsrcd, k)
        BY <1>1, <2>3, SameHeld
    <2> QED  BY <1>1, <2>1, <2>2, <2>4 DEF IInv
<1>5. ASSUME NEW o \in Objects, NEW h \in Handles, RemoveCallOut(o, h)
      PROVE  IInv'
    <2> DEFINE c == << o, h >>
               k == [callout EXCEPT ![<< o, h >>] = "none"]
               q == RemoveCallout(rsrcd, c)
    <2>1. /\ callout[<< o, h >>] # "none" /\ callout' = k
          /\ usage' = Incr(usage, o, -1) /\ rsrcd' = q /\ alive' = alive
        BY <1>5 DEF RemoveCallOut
    <2>2. Counts(Incr(usage, o, -1), k) /\ Incr(usage, o, -1).owner = usage.owner - 1
        BY <1>1, <2>1, OneFewer
    <2>3. c \in Callouts /\ {d \in Callouts : k[d] = "held"} = DOMAIN rsrcd.suspended \ {c}
        BY <1>1, <1>2, <1>3
    <2> HIDE DEF k, c, q
    <2>4. RemovedFrom(q, rsrcd, {c})
        BY <1>2, <2>3, RemoveCalloutSound DEF q
    <2>5. ListInv(q, k)
        BY <1>1, <2>3, <2>4, RemovedInv
    <2> QED  BY <1>1, <2>1, <2>2, <2>5 DEF IInv
<1>6. ASSUME NEW o \in Objects, NEW h \in Handles, Run(o, h)
      PROVE  IInv'
    <2> DEFINE k == [callout EXCEPT ![<< o, h >>] = "none"]
    <2>1. /\ callout[<< o, h >>] = "waiting" /\ callout' = k
          /\ usage' = Incr(usage, o, -1) /\ rsrcd' = rsrcd /\ alive' = alive
        BY <1>6 DEF Run
    <2>2. Counts(Incr(usage, o, -1), k) /\ Incr(usage, o, -1).owner = usage.owner - 1
        BY <1>1, <2>1, OneFewer
    <2>3. \A c \in Callouts : k[c] = "held" <=> callout[c] = "held"
        BY <1>1, <1>3, <2>1
    <2> HIDE DEF k
    <2>4. ListInv(rsrcd, k)
        BY <1>1, <2>3, SameHeld
    <2> QED  BY <1>1, <2>1, <2>2, <2>4 DEF IInv
<1>7. ASSUME NEW o \in Objects, NEW h \in Handles, Hold(o, h)
      PROVE  IInv'
    <2> DEFINE c == << o, h >>
               k == [callout EXCEPT ![c] = "held"]
    <2>1. /\ callout[c] = "waiting" /\ rsrcd.suspend # 0 /\ rsrcd.free # << >>
          /\ callout' = k /\ rsrcd' = Suspend(rsrcd, c)
          /\ usage' = usage /\ alive' = alive
        BY <1>7 DEF Hold, IsSuspended
    <2>2. c \in Callouts /\ k \in [Callouts -> Kinds]
        BY <1>1, <1>3 DEF Kinds
    <2>3. \A d \in Callouts : k[d] # "none" <=> callout[d] # "none"
        BY <1>1, <2>1
    <2>4. ListInv(Suspend(rsrcd, c), k)
        BY <1>1, <2>1, <2>2, HoldSound
    <2> HIDE DEF k, c
    <2>5. Running(k) = Running(callout) /\ \A d \in Objects : RunningOf(k, d) = RunningOf(callout, d)
        BY <1>3, <2>3 DEF Running, RunningOf
    <2>6. Counts(usage, k)
        BY <1>1, <2>2, <2>5 DEF Counts
    <2> QED  BY <1>1, <2>1, <2>4, <2>6 DEF IInv
<1>8. ASSUME NEW o \in Objects, Destruct(o)
      PROVE  IInv'
    <2> DEFINE S == {c \in Callouts : c[1] = o}
               k == [c \in Callouts |-> IF c[1] = o THEN "none" ELSE callout[c]]
               p == RemoveCallouts(rsrcd, o)
               q == [p EXCEPT !.suspender = IF @ = o THEN None ELSE @]
               w == Incr(usage, o, -usage.of[o])
    <2>1. /\ alive' = alive \ {o} /\ rsrcd' = q /\ usage' = w /\ callout' = k
        BY <1>8 DEF Destruct
    <2>2. Counts(w, k) /\ w.owner <= usage.owner
        BY <1>1, AllFewer
    <2>3. {c \in Callouts : k[c] = "held"} = DOMAIN rsrcd.suspended \ S
        BY <1>2
    <2>4. RemovedFrom(p, rsrcd, S)
        BY <1>2, RemoveCalloutsSound
    <2>5. q = [p EXCEPT !.suspender = IF @ = o THEN None ELSE @]
        OBVIOUS
    <2> HIDE DEF S, k, p, w, q
    <2>6. ListInv(p, k)
        BY <1>1, <2>3, <2>4, RemovedInv
    <2>7. ListInv(q, k)
        BY <2>5, <2>6, SuspenderLeaves
    <2>8. w.owner \in Nat
        BY <2>2 DEF Counts
    <2> QED  BY <1>1, <2>1, <2>2, <2>7, <2>8 DEF IInv
<1>9. ASSUME NEW o \in Objects, SuspendCallouts(o)
      PROVE  IInv'
    <2>1. /\ o \in Systems /\ callout' = callout /\ usage' = usage /\ alive' = alive
          /\ rsrcd' = [NoReleases(rsrcd) EXCEPT
                         !.suspended = [c \in DOMAIN @ |-> [@[c] EXCEPT !.relhandle = 0]],
                         !.suspender = o, !.suspend = -1]
        BY <1>9 DEF SuspendCallouts
    <2>2. ListInv(rsrcd', callout)
        BY <1>1, <2>1, SuspendSound
    <2> QED  BY <1>1, <2>1, <2>2 DEF IInv
<1>10. ASSUME ReleaseCallouts
       PROVE  IInv'
    <2>1. /\ rsrcd.suspend < 0 /\ callout' = callout /\ usage' = usage /\ alive' = alive
          /\ Len(rsrcd.free) >= Cardinality(DOMAIN rsrcd.suspended)
          /\ rsrcd' = [ReleasingAll(rsrcd) EXCEPT
                         !.suspender = None,
                         !.suspend = IF rsrcd.first_suspended = None THEN 0 ELSE 1]
        BY <1>10 DEF ReleaseCallouts
    <2>2. ListInv(rsrcd', callout)
        BY <1>1, <2>1, ReleasingSound
    <2> QED  BY <1>1, <2>1, <2>2 DEF IInv
<1>11. ASSUME Release
       PROVE  IInv'
    <2> DEFINE c == rsrcd.first_suspended
    <2>1. rsrcd.releases # << >> /\ alive' = alive
        BY <1>11 DEF Release
    <2>2. CASE c = None
        <3>1. rsrcd' = Fired(rsrcd) /\ callout' = callout /\ usage' = usage
            BY <1>11, <2>2 DEF Release
        <3>2. ListInv(Fired(rsrcd), callout)
            BY <1>1, <2>1, <2>2, FiredSound
        <3> QED  BY <1>1, <2>1, <3>1, <3>2 DEF IInv
    <2>3. CASE c # None
        <3> DEFINE k == [callout EXCEPT ![c] = "none"]
        <3>1. /\ rsrcd' = ReleaseFirst(Fired(rsrcd), c) /\ callout' = k
              /\ usage' = Incr(usage, c[1], -1)
            BY <1>11, <2>3 DEF Release
        <3>2. /\ c \in Callouts /\ callout[c] = "held"
              /\ ListInv(ReleaseFirst(Fired(rsrcd), c), k)
            BY <1>1, <2>1, <2>3, ReleaseSound
        <3>3. PICK o \in Objects, h \in Handles : c = << o, h >>
            BY <3>2 DEF Callouts
        <3>4. c[1] = o /\ callout[<< o, h >>] # "none" /\ k = [callout EXCEPT ![<< o, h >>] = "none"]
            BY <3>2, <3>3
        <3> HIDE DEF c, k
        <3>5. /\ Counts(Incr(usage, o, -1), k)
              /\ Incr(usage, o, -1).owner = usage.owner - 1
            BY <1>1, <3>4, OneFewer
        <3> QED  BY <1>1, <2>1, <3>1, <3>2, <3>4, <3>5 DEF IInv
    <2> QED  BY <2>2, <2>3
<1>12. CASE UNCHANGED vars
    BY <1>1, <1>12 DEF IInv, vars
<1> QED  BY <1>4, <1>5, <1>6, <1>7, <1>8, <1>9, <1>10, <1>11, <1>12 DEF Next

LEMMA IInvListSound == IInv => ListSound
<1> SUFFICES ASSUME IInv  PROVE ListSound
    OBVIOUS
<1>1. /\ Counts(usage, callout) /\ usage.owner <= MaxCallouts
      /\ ListInv(rsrcd, callout) /\ alive \subseteq Objects
      /\ rsrcd \in Manager /\ Pool(rsrcd) /\ MaxCallouts \in Nat
    BY SuspensionAssumption DEF IInv, ListInv, RSound
<1>2. PICK s : LinkedBy(rsrcd, s)
    BY <1>1 DEF ListInv, RSound
<1>3. Chain(rsrcd) = s
    BY <1>1, <1>2, ChainIs
<1>4. /\ s \in Seq(Callouts) /\ Len(s) \in Nat /\ DOMAIN s = 1 .. Len(s)
      /\ \A c : c \in DOMAIN rsrcd.suspended <=> \E i \in 1 .. Len(s) : s[i] = c
      /\ rsrcd.last_suspended = At(s, Len(s))
      /\ \A i \in 1 .. Len(s) : rsrcd.suspended[s[i]].prev = At(s, i - 1)
    <2>1. /\ s \in Seq(Callouts)
          /\ \A c : c \in DOMAIN rsrcd.suspended <=> \E i \in 1 .. Len(s) : s[i] = c
          /\ rsrcd.last_suspended = At(s, Len(s))
          /\ \A i \in 1 .. Len(s) : rsrcd.suspended[s[i]].prev = At(s, i - 1)
        BY <1>2 DEF LinkedBy
    <2>2. Len(s) \in Nat /\ DOMAIN s = 1 .. Len(s)
        BY <2>1
    <2> QED  BY <2>1, <2>2
<1>5. Linked
    <2>1. ToSet(s) = DOMAIN rsrcd.suspended
        BY <1>4 DEF ToSet
    <2>2. rsrcd.last_suspended = IF s = << >> THEN None ELSE Last(s)
        <3>1. s = << >> <=> ~(Len(s) \in 1 .. Len(s))
            BY <1>4
        <3> QED  BY <1>4, <3>1 DEF At, Last
    <2>3. \A i \in 1 .. Len(s) : At(s, i - 1) = IF i = 1 THEN None ELSE s[i - 1]
        BY <1>4 DEF At
    <2> QED  BY <1>3, <1>4, <2>1, <2>2, <2>3 DEF Linked
<1>6. Held
    BY <1>1 DEF Held, ListInv
<1>7. TypeOK
    <2>1. usage \in [owner : 0 .. MaxCallouts, of : [Objects -> 0 .. MaxHandle]]
        <3>1. usage \in [owner : Nat, of : [Objects -> Nat]]
            BY <1>1 DEF Counts
        <3>2. \A o \in Objects : usage.of[o] \in 0 .. MaxHandle
            BY <1>1, RunningFinite DEF Counts
        <3>3. usage.owner \in 0 .. MaxCallouts
            BY <1>1, <3>1
        <3>4. usage.of \in [Objects -> 0 .. MaxHandle]
            BY <3>1, <3>2
        <3> QED  BY <3>1, <3>3, <3>4
    <2>2. ToSet(rsrcd.releases \o rsrcd.free) = RelHandles
        <3> DEFINE a == rsrcd.releases
                   f == rsrcd.free
        <3>1. a \in Seq(RelHandles) /\ f \in Seq(RelHandles)
            BY <1>1, ManagerFields
        <3>2. /\ \A h \in RelHandles : \/ \E i \in 1 .. Len(a) : a[i] = h
                                       \/ \E j \in 1 .. Len(f) : f[j] = h
            BY <1>1 DEF Pool
        <3> HIDE DEF a, f
        <3> DEFINE b == a \o f
        <3>3. b \in Seq(RelHandles) /\ Joined(b, a, f)
            BY <3>1, ConcatElem
        <3> HIDE DEF b
        <3>4. DOMAIN b = 1 .. Len(b) /\ \A i \in 1 .. Len(b) : b[i] \in RelHandles
            BY <3>3
        <3>5. ASSUME NEW h \in RelHandles
              PROVE  \E i \in 1 .. Len(b) : b[i] = h
            <4>1. CASE \E i \in 1 .. Len(a) : a[i] = h
                <5>1. PICK i \in 1 .. Len(a) : a[i] = h
                    BY <4>1
                <5>2. i \in 1 .. Len(b) /\ b[i] = h
                    BY <3>3, <5>1 DEF Joined
                <5> QED  BY <5>2
            <4>2. CASE \E j \in 1 .. Len(f) : f[j] = h
                <5>1. PICK j \in 1 .. Len(f) : f[j] = h
                    BY <4>2
                <5>2. Len(a) + j \in 1 .. Len(b) /\ b[Len(a) + j] = h
                    BY <3>3, <5>1 DEF Joined
                <5> QED  BY <5>2
            <4> QED  BY <3>2, <4>1, <4>2
        <3>6. ToSet(b) = RelHandles
            BY <3>4, <3>5 DEF ToSet
        <3> QED  BY <3>6 DEF a, f, b
    <2>3. /\ rsrcd.suspend \in {-1, 0, 1} /\ rsrcd.suspender \in Systems \cup {None}
          /\ {rsrcd.first_suspended, rsrcd.last_suspended} \subseteq Callouts \cup {None}
          /\ DOMAIN rsrcd.suspended \subseteq Callouts
          /\ \A c \in DOMAIN rsrcd.suspended : rsrcd.suspended[c] \in Node
        BY <1>1, ManagerFields
    <2>4. callout \in [Callouts -> {"none", "waiting", "held"}]
        BY <1>1 DEF Counts, Kinds
    <2> QED  BY <1>1, <2>1, <2>2, <2>3, <2>4 DEF TypeOK
<1> QED  BY <1>5, <1>6, <1>7 DEF ListSound

LEMMA IInvAlways == Spec => []IInv
<1> QED  BY IInvInit, IInvNext, PTL DEF Spec

(* The callouts held are those of the list and of the mapping, which       *)
(* suspend(), release(), remove_callout(), suspend_callouts() and          *)
(* release_callouts() keep linked both ways, and destructing an object     *)
(* takes all of its callouts off both.                                     *)
THEOREM AlwaysListSound == Spec => []ListSound
<1> QED  BY IInvAlways, IInvListSound, PTL

(* What the owner, and each of its objects, is charged with is the number  *)
(* of their callouts, when _F_destruct() gives back the share of an object *)
(* as well.                                                                *)
THEOREM AlwaysCounted == Spec => []Counted
<1>1. IInv => Counted
    BY DEF IInv, Counts, Counted, Running, RunningOf
<1> QED  BY <1>1, IInvAlways, PTL

(* A callout that is released has a "release" to come, though removing one *)
(* from the list removes a "release" that was made for another.            *)
THEOREM AlwaysEnough == Spec => []EnoughReleases
<1>1. IInv => EnoughReleases
    BY DEF IInv, ListInv, Enough, EnoughReleases
<1> QED  BY <1>1, IInvAlways, PTL

===========================================================================
