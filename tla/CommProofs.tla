---------------------------- MODULE CommProofs ----------------------------
(***************************************************************************)
(* The steps of the communication manager keep its invariant, for every    *)
(* number of users and of connections, every size of the buffers and every *)
(* input: the counts and the ring of users stay right, what the peers get  *)
(* is what was written, once and in order, telnet echo is known to both    *)
(* sides, and what threads have changed is flushed.                        *)
(***************************************************************************)
EXTENDS Comm, FiniteSetTheorems, SequenceTheorems, WellFoundedInduction, TLAPS

(* Induction, with sets instead of predicates, and sequences.              *)

LEMMA LeastExists ==
    ASSUME NEW S \in SUBSET Nat, S # {}
    PROVE  \E x \in S : \A y \in S : x <= y
<1>1. PICK u \in S : \A v \in S : << v, u >> \notin OpToRel(<, Nat)
    BY NatLessThanWellFounded, WFMin
<1>2. ASSUME NEW y \in S
      PROVE  u <= y
    <2>1. << y, u >> \in Nat \X Nat /\ << y, u >> \notin OpToRel(<, Nat)
        BY <1>1
    <2>2. ~(y < u)
        BY <2>1 DEF OpToRel
    <2> QED  BY <2>2
<1> QED  BY <1>2

LEMMA StepByStep ==
    ASSUME NEW n \in Nat, NEW S, 0 \in S, \A k \in 1 .. n : k - 1 \in S => k \in S
    PROVE  \A k \in 0 .. n : k \in S
<1> DEFINE T == {k \in 0 .. n : k \notin S}
<1> SUFFICES ASSUME T # {}  PROVE FALSE
    OBVIOUS
<1>1. PICK k \in T : \A j \in T : k <= j
    <2>1. T \in SUBSET Nat
        OBVIOUS
    <2> HIDE DEF T
    <2> QED  BY <2>1, LeastExists
<1>2. k \in 1 .. n /\ k - 1 \in 0 .. n /\ ~(k <= k - 1)
    BY <1>1
<1>3. k - 1 \in S
    BY <1>1, <1>2
<1> QED  BY <1>1, <1>2, <1>3

LEMMA AppendElem ==
    ASSUME NEW S, NEW s \in Seq(S), NEW x \in S
    PROVE  /\ Append(s, x) \in Seq(S)
           /\ Len(s) \in Nat
           /\ Len(Append(s, x)) = Len(s) + 1
           /\ \A k \in 1 .. Len(s) : Append(s, x)[k] = s[k]
           /\ Append(s, x)[Len(s) + 1] = x
OBVIOUS

LEMMA HeadTailElem ==
    ASSUME NEW S, NEW s \in Seq(S), s # << >>
    PROVE  /\ Tail(s) \in Seq(S) /\ Head(s) = s[1] /\ s[1] \in S
           /\ Len(s) \in Nat /\ Len(s) > 0
           /\ Len(Tail(s)) = Len(s) - 1
           /\ \A k \in 1 .. Len(s) - 1 : Tail(s)[k] = s[k + 1]
OBVIOUS

(* r is s followed by t.                                                   *)
Joined(r, s, t) ==
    /\ Len(s) \in Nat /\ Len(t) \in Nat
    /\ Len(r) = Len(s) + Len(t)
    /\ \A k \in 1 .. Len(s) : r[k] = s[k]
    /\ \A k \in 1 .. Len(t) : r[Len(s) + k] = t[k]

LEMMA ConcatElem ==
    ASSUME NEW S, NEW s \in Seq(S), NEW t \in Seq(S)
    PROVE  s \o t \in Seq(S) /\ Joined(s \o t, s, t)
BY DEF Joined

LEMMA RemoveElem ==
    ASSUME NEW S, NEW s \in Seq(S), NEW i \in 1 .. Len(s)
    PROVE  /\ RemoveAt(s, i) \in Seq(S)
           /\ Len(s) \in Nat
           /\ Len(RemoveAt(s, i)) = Len(s) - 1
           /\ \A k \in 1 .. Len(s) - 1 :
                 RemoveAt(s, i)[k] = IF k < i THEN s[k] ELSE s[k + 1]
<1> DEFINE a == SubSeq(s, 1, i - 1)
           b == SubSeq(s, i + 1, Len(s))
<1>1. RemoveAt(s, i) = a \o b
    BY DEF RemoveAt
<1>2. a \in Seq(S) /\ Len(a) = i - 1 /\ \A k \in 1 .. i - 1 : a[k] = s[k]
    OBVIOUS
<1>3. b \in Seq(S) /\ Len(b) = Len(s) - i /\ \A k \in 1 .. Len(s) - i : b[k] = s[i + k]
    OBVIOUS
<1>4. Len(s) \in Nat /\ i \in Nat /\ i <= Len(s) /\ i >= 1
    OBVIOUS
<1> HIDE DEF a, b
<1>5. /\ a \o b \in Seq(S) /\ Len(a \o b) = Len(a) + Len(b)
      /\ \A k \in 1 .. Len(a) : (a \o b)[k] = a[k]
      /\ \A k \in 1 .. Len(b) : (a \o b)[Len(a) + k] = b[k]
    <2>1. a \o b \in Seq(S) /\ Joined(a \o b, a, b)
        BY <1>2, <1>3, ConcatElem
    <2> QED  BY <2>1 DEF Joined
<1>6. ASSUME NEW k \in 1 .. Len(s) - 1
      PROVE  (a \o b)[k] = IF k < i THEN s[k] ELSE s[k + 1]
    <2>1. CASE k < i
        BY <1>2, <1>4, <1>5, <2>1
    <2>2. CASE ~(k < i)
        <3>1. k - (i - 1) \in 1 .. Len(b) /\ k = Len(a) + (k - (i - 1))
            BY <1>2, <1>3, <1>4, <2>2
        <3>2. (a \o b)[k] = b[k - (i - 1)]
            BY <1>5, <3>1
        <3>3. b[k - (i - 1)] = s[i + (k - (i - 1))] /\ i + (k - (i - 1)) = k + 1
            BY <1>3, <1>4, <3>1
        <3> QED  BY <2>2, <3>2, <3>3
    <2> QED  BY <2>1, <2>2
<1> QED  BY <1>1, <1>2, <1>3, <1>4, <1>5, <1>6

(* f has the places of a walk of n steps Op from x on.                     *)
Walks(f, n, x, Op) ==
    f = [k \in 0 .. n |-> IF k = 0 THEN x ELSE Op[<< f[k - 1], k >>]]

(* A walk that stays in M has all its places.                              *)
LEMMA WalkExists ==
    ASSUME NEW n \in Nat, NEW M, NEW x \in M, NEW Op \in [M \X (1 .. n) -> M]
    PROVE  \E f \in [0 .. n -> M] : Walks(f, n, x, Op)
<1> DEFINE F(f, j) == [k \in 0 .. j |-> IF k = 0 THEN x ELSE Op[<< f[k - 1], k >>]]
           S == {j \in 0 .. n : \E f \in [0 .. j -> M] : f = F(f, j)}
<1>1. 0 \in S
    <2> DEFINE g == [k \in 0 .. 0 |-> x]
    <2>1. g \in [0 .. 0 -> M] /\ g = F(g, 0)
        OBVIOUS
    <2> HIDE DEF F, g
    <2> QED  BY <2>1
<1>2. ASSUME NEW j \in 1 .. n, j - 1 \in S
      PROVE  j \in S
    <2>1. PICK f \in [0 .. j - 1 -> M] : f = F(f, j - 1)
        BY <1>2
    <2> DEFINE g == [k \in 0 .. j |-> IF k = j THEN Op[<< f[j - 1], j >>] ELSE f[k]]
    <2>2. g \in [0 .. j -> M]
        <3>1. Op[<< f[j - 1], j >>] \in M
            <4>1. << f[j - 1], j >> \in M \X (1 .. n)
                OBVIOUS
            <4> QED  BY <4>1
        <3> QED  BY <3>1
    <2>3. \A k \in 0 .. j : g[k] = IF k = 0 THEN x ELSE Op[<< g[k - 1], k >>]
        <3>1. \A k \in 0 .. j - 1 : f[k] = IF k = 0 THEN x ELSE Op[<< f[k - 1], k >>]
            BY <2>1
        <3>2. j \in Nat /\ j > 0
            OBVIOUS
        <3>3. \A k \in 0 .. j - 1 : g[k] = f[k]
            BY <3>2
        <3>4. g[j] = Op[<< f[j - 1], j >>] /\ g[j - 1] = f[j - 1]
            BY <3>2, <3>3
        <3> HIDE DEF g
        <3> TAKE k \in 0 .. j
        <3>5. CASE k = j
            BY <3>2, <3>4, <3>5
        <3>6. CASE k \in 0 .. j - 1
            <4>1. k # 0 => k - 1 \in 0 .. j - 1
                BY <3>2, <3>6
            <4> QED  BY <3>1, <3>3, <3>6, <4>1
        <3> QED  BY <3>2, <3>5, <3>6
    <2>4. g = F(g, j)
        <3>1. g = [k \in 0 .. j |-> g[k]]
            OBVIOUS
        <3> HIDE DEF g
        <3> QED  BY <2>3, <3>1
    <2> HIDE DEF F, g
    <2> QED  BY <2>2, <2>4
<1> HIDE DEF S
<1>3. \A j \in 0 .. n : j \in S
    BY <1>1, <1>2, StepByStep
<1>4. n \in S
    BY <1>3
<1> QED  BY <1>4 DEF S, Walks

---------------------------------------------------------------------------
(* What a peer reads.                                                      *)

LEMMA ConstantsAre ==
    /\ maxusers \in Nat /\ maxusers > 0
    /\ INBUF_SIZE \in Nat /\ INBUF_SIZE > 0
    /\ MAX_STRLEN \in Nat /\ MAX_STRLEN > 0
    /\ MaxRead \in Nat /\ MaxSent \in Nat /\ MaxOps \in Nat
    /\ NoConn \notin Conns
    /\ Telnet \cap Binary = {} /\ Telnet \subseteq Conns
BY CommAssumption DEF Conns

LEMMA ReceivesType ==
    ASSUME NEW g \in Got, NEW b \in Output
    PROVE  Receives(g, b) \in Got
<1>1. /\ g.upto \in 0 .. MaxSent /\ g.wrong \in BOOLEAN /\ g.echo \in {WILL, WONT}
      /\ g = [upto |-> g.upto, wrong |-> g.wrong, echo |-> g.echo]
    BY DEF Got
<1>2. CASE b \in {WILL, WONT}
    BY <1>1, <1>2 DEF Got, Receives
<1>3. CASE b \notin {WILL, WONT} /\ b = REPLY
    BY <1>3 DEF Receives
<1>4. CASE b \notin {WILL, WONT} /\ b # REPLY /\ b = g.upto + 1
    <2>1. b \in 0 .. MaxSent
        BY <1>1, <1>4, ConstantsAre DEF Output, REPLY
    <2> QED  BY <1>1, <1>4, <2>1 DEF Got, Receives
<1>5. CASE b \notin {WILL, WONT} /\ b # REPLY /\ b # g.upto + 1
    BY <1>1, <1>5 DEF Got, Receives
<1> QED  BY <1>2, <1>3, <1>4, <1>5

LEMMA ReadsExists ==
    ASSUME NEW g \in Got, NEW bytes \in Seq(Output)
    PROVE  \E f \in [0 .. Len(bytes) -> Got] :
              /\ f[0] = g
              /\ \A k \in 1 .. Len(bytes) : f[k] = Receives(f[k - 1], bytes[k])
              /\ Reads(g, bytes) = f[Len(bytes)]
<1> DEFINE n == Len(bytes)
           F(f) == [k \in 0 .. n |-> IF k = 0 THEN g ELSE Receives(f[k - 1], bytes[k])]
           after == CHOOSE f : f = F(f)
           Op == [p \in Got \X (1 .. n) |-> Receives(p[1], bytes[p[2]])]
<1>1. n \in Nat /\ \A k \in 1 .. n : bytes[k] \in Output
    OBVIOUS
<1>2. Reads(g, bytes) = after[n]
    BY DEF Reads
<1> HIDE DEF n
<1>3. Op \in [Got \X (1 .. n) -> Got]
    BY <1>1, ReceivesType
<1>4. \E f : f = F(f)
    <2> HIDE DEF Op
    <2>1. PICK f \in [0 .. n -> Got] : Walks(f, n, g, Op)
        BY <1>1, <1>3, WalkExists
    <2>2. \A k \in 1 .. n : Op[<< f[k - 1], k >>] = Receives(f[k - 1], bytes[k])
        <3> TAKE k \in 1 .. n
        <3>1. << f[k - 1], k >> \in Got \X (1 .. n)
            BY <1>1
        <3> QED  BY <3>1 DEF Op
    <2>3. f = F(f)
        BY <2>1, <2>2 DEF Walks
    <2> QED  BY <2>3
<1>5. after = F(after)
    <2> HIDE DEF F
    <2> QED  BY <1>4
<1> HIDE DEF after
<1>6. after[0] = g /\ \A k \in 1 .. n : after[k] = Receives(after[k - 1], bytes[k])
    BY <1>1, <1>5
<1>7. after = [k \in 0 .. n |-> after[k]]
    BY <1>5
<1> HIDE DEF F
<1> DEFINE T == {k \in 0 .. n : after[k] \in Got}
<1>8. \A k \in 0 .. n : k \in T
    <2>1. 0 \in T
        BY <1>1, <1>6
    <2>2. ASSUME NEW k \in 1 .. n, k - 1 \in T
          PROVE  k \in T
        BY <1>1, <1>6, <2>2, ReceivesType
    <2> HIDE DEF T
    <2> QED  BY <1>1, <2>1, <2>2, StepByStep
<1>9. after \in [0 .. n -> Got]
    BY <1>7, <1>8
<1> QED  BY <1>2, <1>6, <1>9 DEF n

(* There is only one way to read.                                          *)
LEMMA ReadsIs ==
    ASSUME NEW g \in Got, NEW bytes \in Seq(Output), NEW f, f[0] = g,
           \A k \in 1 .. Len(bytes) : f[k] = Receives(f[k - 1], bytes[k])
    PROVE  Reads(g, bytes) = f[Len(bytes)]
<1>1. PICK h \in [0 .. Len(bytes) -> Got] :
              /\ h[0] = g
              /\ \A k \in 1 .. Len(bytes) : h[k] = Receives(h[k - 1], bytes[k])
              /\ Reads(g, bytes) = h[Len(bytes)]
    BY ReadsExists
<1> DEFINE n == Len(bytes)
           T == {k \in 0 .. n : f[k] = h[k]}
<1>2. n \in Nat
    OBVIOUS
<1>3. 0 \in T
    BY <1>1, <1>2
<1>4. ASSUME NEW k \in 1 .. n, k - 1 \in T
      PROVE  k \in T
    BY <1>1, <1>4
<1> HIDE DEF T
<1>5. \A k \in 0 .. n : k \in T
    BY <1>2, <1>3, <1>4, StepByStep
<1> QED  BY <1>1, <1>2, <1>5 DEF T

LEMMA ReadsNone ==
    ASSUME NEW g \in Got
    PROVE  Reads(g, << >>) = g
<1>1. << >> \in Seq(Output) /\ Len(<< >>) = 0
    OBVIOUS
<1> DEFINE e == << >>
<1> HIDE DEF e
<1>2. e \in Seq(Output) /\ Len(e) = 0
    BY <1>1 DEF e
<1>3. Reads(g, e) = g
    <2>1. PICK f \in [0 .. Len(e) -> Got] : f[0] = g /\ Reads(g, e) = f[Len(e)]
        BY <1>2, ReadsExists
    <2> QED  BY <1>2, <2>1
<1> QED  BY <1>3 DEF e

LEMMA ReadsType ==
    ASSUME NEW g \in Got, NEW bytes \in Seq(Output)
    PROVE  Reads(g, bytes) \in Got
<1>1. PICK f \in [0 .. Len(bytes) -> Got] : Reads(g, bytes) = f[Len(bytes)]
    BY ReadsExists
<1>2. Len(bytes) \in 0 .. Len(bytes)
    OBVIOUS
<1> QED  BY <1>1, <1>2

LEMMA ReadsAppend ==
    ASSUME NEW g \in Got, NEW bytes \in Seq(Output), NEW b \in Output
    PROVE  Reads(g, Append(bytes, b)) = Receives(Reads(g, bytes), b)
<1>1. PICK h \in [0 .. Len(bytes) -> Got] :
              /\ h[0] = g
              /\ \A k \in 1 .. Len(bytes) : h[k] = Receives(h[k - 1], bytes[k])
              /\ Reads(g, bytes) = h[Len(bytes)]
    BY ReadsExists
<1> DEFINE n == Len(bytes)
           s == Append(bytes, b)
           f == [k \in 0 .. n + 1 |-> IF k <= n THEN h[k] ELSE Receives(h[n], b)]
<1>2. /\ n \in Nat /\ s \in Seq(Output) /\ Len(s) = n + 1 /\ s[n + 1] = b
      /\ \A k \in 1 .. n : s[k] = bytes[k]
    BY AppendElem
<1> HIDE DEF s, n
<1>3. f[0] = g /\ \A k \in 1 .. n + 1 : f[k] = Receives(f[k - 1], s[k])
    BY <1>1, <1>2 DEF n
<1>4. f[n + 1] = Receives(h[n], b)
    BY <1>2
<1> HIDE DEF f
<1>5. Reads(g, s) = f[n + 1]
    BY <1>2, <1>3, ReadsIs
<1> QED  BY <1>1, <1>4, <1>5 DEF s, n

LEMMA SubSeqElem ==
    ASSUME NEW S, NEW s \in Seq(S), NEW i \in Nat, NEW n \in Nat, i <= n, n <= Len(s)
    PROVE  /\ SubSeq(s, i + 1, n) \in Seq(S)
           /\ Len(s) \in Nat
           /\ Len(SubSeq(s, i + 1, n)) = n - i
           /\ \A k \in 1 .. n - i : SubSeq(s, i + 1, n)[k] = s[i + k]
OBVIOUS

(* Reading goes on where it stopped.                                       *)
LEMMA ReadsOn ==
    ASSUME NEW g \in Got, NEW bytes \in Seq(Output), NEW i \in Nat, NEW n \in Nat,
           i <= n, n <= Len(bytes)
    PROVE  Reads(Reads(g, SubSeq(bytes, i + 1, n)), SubSeq(bytes, n + 1, Len(bytes)))
             = Reads(g, SubSeq(bytes, i + 1, Len(bytes)))
<1> DEFINE L == Len(bytes)
           a == SubSeq(bytes, i + 1, n)
           b == SubSeq(bytes, n + 1, L)
           s == SubSeq(bytes, i + 1, L)
<1>1. L \in Nat /\ n <= L
    OBVIOUS
<1>2. /\ a \in Seq(Output) /\ Len(a) = n - i
      /\ \A k \in 1 .. n - i : a[k] = bytes[i + k]
    BY SubSeqElem
<1>3. /\ b \in Seq(Output) /\ Len(b) = L - n
      /\ \A k \in 1 .. L - n : b[k] = bytes[n + k]
    BY <1>1, SubSeqElem
<1>4. /\ s \in Seq(Output) /\ Len(s) = L - i
      /\ \A k \in 1 .. L - i : s[k] = bytes[i + k]
    BY <1>1, SubSeqElem
<1> HIDE DEF a, b, s, L
<1>5. PICK f \in [0 .. Len(a) -> Got] :
              /\ f[0] = g
              /\ \A k \in 1 .. Len(a) : f[k] = Receives(f[k - 1], a[k])
              /\ Reads(g, a) = f[Len(a)]
    BY <1>2, ReadsExists
<1>6. Reads(g, a) \in Got
    BY <1>2, ReadsType
<1>7. PICK h \in [0 .. Len(b) -> Got] :
              /\ h[0] = Reads(g, a)
              /\ \A k \in 1 .. Len(b) : h[k] = Receives(h[k - 1], b[k])
              /\ Reads(Reads(g, a), b) = h[Len(b)]
    BY <1>3, <1>6, ReadsExists
<1> DEFINE w == [k \in 0 .. L - i |-> IF k <= n - i THEN f[k] ELSE h[k - (n - i)]]
<1>8. w[0] = g
    BY <1>1, <1>2, <1>5
<1>9. ASSUME NEW k \in 1 .. L - i
      PROVE  w[k] = Receives(w[k - 1], s[k])
    <2>1. CASE k <= n - i
        <3>1. w[k] = f[k] /\ w[k - 1] = f[k - 1] /\ s[k] = a[k]
            BY <1>1, <1>2, <1>4, <2>1
        <3>2. f[k] = Receives(f[k - 1], a[k])
            BY <1>1, <1>2, <1>5, <2>1
        <3> QED  BY <3>1, <3>2
    <2>2. CASE ~(k <= n - i)
        <3> DEFINE j == k - (n - i)
        <3>1. j \in 1 .. Len(b) /\ n + j = i + k
            BY <1>1, <1>3, <2>2
        <3>2. w[k] = h[j] /\ s[k] = b[j]
            BY <1>1, <1>3, <1>4, <2>2, <3>1
        <3>3. w[k - 1] = h[j - 1]
            <4>1. CASE j = 1
                <5>1. k - 1 = n - i /\ k - 1 \in 0 .. L - i
                    BY <1>1, <4>1
                <5>2. w[k - 1] = f[Len(a)]
                    BY <1>2, <5>1
                <5> QED  BY <1>5, <1>7, <4>1, <5>2
            <4>2. CASE j # 1
                <5>1. ~(k - 1 <= n - i) /\ k - 1 \in 0 .. L - i /\ k - 1 - (n - i) = j - 1
                    BY <1>1, <3>1, <4>2
                <5> QED  BY <5>1
            <4> QED  BY <4>1, <4>2
        <3>4. h[j] = Receives(h[j - 1], b[j])
            BY <1>7, <3>1
        <3> QED  BY <3>2, <3>3, <3>4
    <2> QED  BY <2>1, <2>2
<1>10. w[L - i] = h[Len(b)]
    <2>1. CASE n = L
        <3>1. w[L - i] = f[Len(a)] /\ Len(b) = 0
            BY <1>1, <1>2, <1>3, <2>1
        <3> QED  BY <1>5, <1>7, <3>1
    <2>2. CASE n # L
        BY <1>1, <1>2, <1>3, <2>2
    <2> QED  BY <2>1, <2>2
<1> HIDE DEF w
<1>11. Reads(g, s) = w[L - i]
    <2>1. \A k \in 1 .. Len(s) : w[k] = Receives(w[k - 1], s[k])
        BY <1>4, <1>9
    <2>2. s \in Seq(Output) /\ Len(s) = L - i
        BY <1>4
    <2>3. Reads(g, s) = w[Len(s)]
        BY <1>8, <2>1, <2>2, ReadsIs
    <2> QED  BY <2>2, <2>3
<1> QED  BY <1>7, <1>10, <1>11 DEF a, b, s, L

---------------------------------------------------------------------------
(* Counting.                                                               *)

D(b) == IF b THEN 1 ELSE 0

LEMMA SlotsFinite == IsFiniteSet(Slots)
BY ConstantsAre, FS_Interval DEF Slots

LEMMA SlotsCount == Cardinality(Slots) = maxusers
<1>1. 1 \in Int /\ maxusers \in Int /\ ~(1 > maxusers) /\ maxusers - 1 + 1 = maxusers
    BY ConstantsAre
<1>2. Cardinality(1 .. maxusers) = IF 1 > maxusers THEN 0 ELSE maxusers - 1 + 1
    BY <1>1, FS_Interval
<1> QED  BY <1>1, <1>2 DEF Slots

LEMMA PartFinite ==
    ASSUME NEW S \in SUBSET Slots
    PROVE  IsFiniteSet(S) /\ Cardinality(S) \in Nat
BY SlotsFinite, FS_Subset, FS_CardinalityType

LEMMA WithOne ==
    ASSUME NEW S \in SUBSET Slots, NEW s \in Slots
    PROVE  /\ Cardinality(S \cup {s}) = Cardinality(S) + D(s \notin S)
           /\ Cardinality(S \ {s}) = Cardinality(S) - D(s \in S)
           /\ s \in S => Cardinality(S) > 0
<1>1. IsFiniteSet(S) /\ Cardinality(S) \in Nat
    BY PartFinite
<1>2. Cardinality(S \cup {s}) = Cardinality(S) + D(s \notin S)
    BY <1>1, FS_AddElement DEF D
<1>3. Cardinality(S \ {s}) = Cardinality(S) - D(s \in S)
    <2>1. CASE s \in S
        BY <1>1, <2>1, FS_RemoveElement DEF D
    <2>2. CASE s \notin S
        <3>1. S \ {s} = S
            BY <2>2
        <3> QED  BY <1>1, <2>2, <3>1 DEF D
    <2> QED  BY <2>1, <2>2
<1>4. s \in S => Cardinality(S) > 0
    <2>1. IsFiniteSet(S \ {s}) /\ Cardinality(S \ {s}) \in Nat
        BY PartFinite
    <2> QED  BY <1>1, <1>3, <2>1 DEF D
<1> QED  BY <1>2, <1>3, <1>4

(* One boolean for each user: how many are true.                           *)
LEMMA CountOne ==
    ASSUME NEW S \in SUBSET Slots, NEW T \in SUBSET Slots, NEW s \in Slots,
           \A r \in Slots \ {s} : r \in S <=> r \in T
    PROVE  /\ Cardinality(T) = Cardinality(S) + D(s \in T) - D(s \in S)
           /\ Cardinality(S) >= D(s \in S)
           /\ Cardinality(S) \in Nat /\ Cardinality(T) \in Nat
<1>1. Cardinality(S) \in Nat /\ Cardinality(T) \in Nat
    BY PartFinite
<1>2. Cardinality(S) >= D(s \in S)
    <2>1. s \in S => Cardinality(S) > 0
        BY WithOne
    <2> QED  BY <1>1, <2>1 DEF D
<1>3. CASE s \in T /\ s \notin S
    <2>1. T = S \cup {s}
        BY <1>3
    <2> QED  BY <1>1, <1>2, <1>3, <2>1, WithOne DEF D
<1>4. CASE s \notin T /\ s \in S
    <2>1. T = S \ {s}
        BY <1>4
    <2> QED  BY <1>1, <1>2, <1>4, <2>1, WithOne DEF D
<1>5. CASE (s \in T) <=> (s \in S)
    <2>1. T = S
        BY <1>5
    <2> QED  BY <1>1, <1>2, <2>1 DEF D
<1> QED  BY <1>3, <1>4, <1>5

(* The sum of the lines of all users.                                      *)
LEMMA LinesExist ==
    ASSUME NEW m, \A s \in Slots : m.user[s].newlines \in Nat
    PROVE  \E f \in [0 .. maxusers -> Nat] :
              /\ f[0] = 0
              /\ \A k \in 1 .. maxusers : f[k] = f[k - 1] + m.user[k].newlines
              /\ Lines(m) = f[maxusers]
<1> DEFINE F(f) == [k \in 0 .. maxusers |-> IF k = 0 THEN 0 ELSE f[k - 1] + m.user[k].newlines]
           after == CHOOSE f : f = F(f)
           Op == [p \in Nat \X (1 .. maxusers) |-> p[1] + m.user[p[2]].newlines]
<1>1. maxusers \in Nat /\ \A k \in 1 .. maxusers : m.user[k].newlines \in Nat
    BY ConstantsAre DEF Slots
<1>2. Lines(m) = after[maxusers]
    BY DEF Lines
<1>3. Op \in [Nat \X (1 .. maxusers) -> Nat]
    BY <1>1
<1>4. \E f : f = F(f)
    <2> HIDE DEF Op
    <2>1. PICK f \in [0 .. maxusers -> Nat] : Walks(f, maxusers, 0, Op)
        BY <1>1, <1>3, WalkExists
    <2>2. \A k \in 1 .. maxusers : Op[<< f[k - 1], k >>] = f[k - 1] + m.user[k].newlines
        <3> TAKE k \in 1 .. maxusers
        <3>1. << f[k - 1], k >> \in Nat \X (1 .. maxusers)
            BY <1>1
        <3> QED  BY <3>1 DEF Op
    <2>3. f = F(f)
        BY <2>1, <2>2 DEF Walks
    <2> QED  BY <2>3
<1>5. after = F(after)
    <2> HIDE DEF F
    <2> QED  BY <1>4
<1> HIDE DEF after
<1>6. after[0] = 0 /\ \A k \in 1 .. maxusers : after[k] = after[k - 1] + m.user[k].newlines
    BY <1>1, <1>5
<1>7. after = [k \in 0 .. maxusers |-> after[k]]
    BY <1>5
<1> HIDE DEF F
<1> DEFINE T == {k \in 0 .. maxusers : after[k] \in Nat}
<1>8. \A k \in 0 .. maxusers : k \in T
    <2>1. 0 \in T
        BY <1>1, <1>6
    <2>2. ASSUME NEW k \in 1 .. maxusers, k - 1 \in T
          PROVE  k \in T
        BY <1>1, <1>6, <2>2
    <2> HIDE DEF T
    <2> QED  BY <1>1, <2>1, <2>2, StepByStep
<1>9. after \in [0 .. maxusers -> Nat]
    BY <1>7, <1>8
<1> QED  BY <1>2, <1>6, <1>9

LEMMA LinesType ==
    ASSUME NEW m, \A s \in Slots : m.user[s].newlines \in Nat
    PROVE  Lines(m) \in Nat
<1>1. PICK f \in [0 .. maxusers -> Nat] : Lines(m) = f[maxusers]
    BY LinesExist
<1> QED  BY <1>1, ConstantsAre

LEMMA LinesOne ==
    ASSUME NEW m, NEW q, NEW s \in Slots, NEW d \in Int,
           \A r \in Slots : m.user[r].newlines \in Nat,
           \A r \in Slots : q.user[r].newlines \in Nat,
           \A r \in Slots \ {s} : q.user[r].newlines = m.user[r].newlines,
           q.user[s].newlines = m.user[s].newlines + d
    PROVE  Lines(q) = Lines(m) + d /\ Lines(m) >= m.user[s].newlines
<1>1. PICK f \in [0 .. maxusers -> Nat] :
              /\ f[0] = 0
              /\ \A k \in 1 .. maxusers : f[k] = f[k - 1] + m.user[k].newlines
              /\ Lines(m) = f[maxusers]
    BY LinesExist
<1>2. PICK h \in [0 .. maxusers -> Nat] :
              /\ h[0] = 0
              /\ \A k \in 1 .. maxusers : h[k] = h[k - 1] + q.user[k].newlines
              /\ Lines(q) = h[maxusers]
    BY LinesExist
<1> DEFINE T == {k \in 0 .. maxusers :
                   /\ h[k] = f[k] + (IF k >= s THEN d ELSE 0)
                   /\ k >= s => f[k] >= m.user[s].newlines}
<1>3. maxusers \in Nat /\ s \in Nat /\ s > 0 /\ s <= maxusers /\ Slots = 1 .. maxusers
    BY ConstantsAre DEF Slots
<1>4. 0 \in T
    BY <1>1, <1>2, <1>3
<1>5. ASSUME NEW k \in 1 .. maxusers, k - 1 \in T
      PROVE  k \in T
    <2>1. /\ f[k] = f[k - 1] + m.user[k].newlines
          /\ h[k] = h[k - 1] + q.user[k].newlines
          /\ f[k - 1] \in Nat /\ h[k - 1] \in Nat
          /\ m.user[k].newlines \in Nat
        <3>1. k - 1 \in 0 .. maxusers /\ k \in Slots
            BY <1>3
        <3>2. f[k - 1] \in Nat /\ h[k - 1] \in Nat
            BY <3>1
        <3> QED  BY <1>1, <1>2, <3>1, <3>2
    <2>2. /\ h[k - 1] = f[k - 1] + (IF k - 1 >= s THEN d ELSE 0)
          /\ k - 1 >= s => f[k - 1] >= m.user[s].newlines
        BY <1>5
    <2> HIDE DEF T
    <2>3. CASE k = s
        <3>1. h[k - 1] = f[k - 1] /\ k >= s
            BY <1>3, <2>1, <2>2, <2>3
        <3>2. q.user[k].newlines = m.user[k].newlines + d
            BY <2>3
        <3>3. h[k] = f[k] + d
            BY <2>1, <3>1, <3>2
        <3>4. f[k] >= m.user[k].newlines
            BY <2>1
        <3>5. /\ h[k] = f[k] + (IF k >= s THEN d ELSE 0)
              /\ k >= s => f[k] >= m.user[s].newlines
            BY <2>3, <3>1, <3>3, <3>4
        <3> QED  BY <3>5 DEF T
    <2>4. CASE k # s
        <3>1. q.user[k].newlines = m.user[k].newlines
            BY <1>3, <2>4
        <3>2. (k >= s) <=> (k - 1 >= s)
            BY <1>3, <2>4
        <3>3. m.user[s].newlines \in Nat
            BY <1>3
        <3>4. h[k] = f[k] + (IF k >= s THEN d ELSE 0)
            BY <2>1, <2>2, <3>1, <3>2
        <3>5. k >= s => f[k] >= m.user[s].newlines
            <4>1. k >= s => f[k - 1] >= m.user[s].newlines
                BY <2>2, <3>2
            <4>2. f[k] >= f[k - 1] /\ f[k] \in Nat
                BY <2>1
            <4> QED  BY <2>1, <3>3, <4>1, <4>2
        <3> QED  BY <3>4, <3>5 DEF T
    <2> QED  BY <2>3, <2>4
<1>6. maxusers \in T
    <2> HIDE DEF T
    <2>1. \A k \in 0 .. maxusers : k \in T
        BY <1>3, <1>4, <1>5, StepByStep
    <2> QED  BY <1>3, <2>1
<1> QED  BY <1>1, <1>2, <1>3, <1>6

---------------------------------------------------------------------------
(* The lines in one input buffer.                                          *)

Inbuf == Seq({"char", "LF"})

LEMMA LFsFinite ==
    ASSUME NEW s \in Inbuf
    PROVE  /\ LFs(s) \subseteq 1 .. Len(s) /\ IsFiniteSet(LFs(s))
           /\ Cardinality(LFs(s)) \in Nat /\ Len(s) \in Nat
<1>1. Len(s) \in Nat /\ LFs(s) \subseteq 1 .. Len(s)
    BY DEF LFs, Inbuf
<1>2. IsFiniteSet(1 .. Len(s))
    BY <1>1, FS_Interval
<1>3. IsFiniteSet(LFs(s))
    BY <1>1, <1>2, FS_Subset
<1> QED  BY <1>1, <1>3, FS_CardinalityType

LEMMA LFsNone == Cardinality(LFs(<< >>)) = 0 /\ << >> \in Inbuf
<1>1. << >> \in Inbuf /\ LFs(<< >>) = {}
    BY DEF LFs, Inbuf
<1> QED  BY <1>1, FS_EmptySet

LEMMA LFsAppend ==
    ASSUME NEW s \in Inbuf, NEW b \in {"char", "LF"}
    PROVE  /\ Append(s, b) \in Inbuf /\ Len(Append(s, b)) = Len(s) + 1
           /\ Cardinality(LFs(Append(s, b))) = Cardinality(LFs(s)) + D(b = "LF")
<1> DEFINE t == Append(s, b)
<1>1. /\ t \in Inbuf /\ Len(s) \in Nat /\ Len(t) = Len(s) + 1 /\ t[Len(s) + 1] = b
      /\ \A k \in 1 .. Len(s) : t[k] = s[k]
    BY AppendElem DEF Inbuf
<1>2. DOMAIN t = 1 .. Len(s) + 1 /\ DOMAIN s = 1 .. Len(s)
    BY <1>1 DEF Inbuf
<1> HIDE DEF t
<1>3. CASE b = "LF"
    <2>1. LFs(t) = LFs(s) \cup {Len(s) + 1}
        BY <1>1, <1>2, <1>3 DEF LFs
    <2>2. Len(s) + 1 \notin LFs(s)
        BY <1>1, LFsFinite
    <2>3. Cardinality(LFs(s) \cup {Len(s) + 1}) = Cardinality(LFs(s)) + 1
        BY <2>2, LFsFinite, FS_AddElement
    <2> QED  BY <1>1, <1>3, <2>1, <2>3 DEF t, D
<1>4. CASE b # "LF"
    <2>1. LFs(t) = LFs(s)
        BY <1>1, <1>2, <1>4 DEF LFs
    <2> QED  BY <1>1, <1>4, <2>1, LFsFinite DEF t, D
<1> QED  BY <1>3, <1>4

LEMMA LFsFront ==
    ASSUME NEW s \in Inbuf, s # << >>, Last(s) # "LF"
    PROVE  /\ Front(s) \in Inbuf /\ Len(Front(s)) = Len(s) - 1
           /\ LFs(Front(s)) = LFs(s)
<1>1. Len(s) \in Nat /\ Len(s) > 0 /\ DOMAIN s = 1 .. Len(s) /\ Last(s) = s[Len(s)]
    BY DEF Inbuf, Last
<1>2. /\ Front(s) \in Inbuf /\ Len(Front(s)) = Len(s) - 1
      /\ DOMAIN Front(s) = 1 .. Len(s) - 1
      /\ \A k \in 1 .. Len(s) - 1 : Front(s)[k] = s[k]
    BY <1>1 DEF Inbuf, Front
<1>3. LFs(Front(s)) = LFs(s)
    BY <1>1, <1>2 DEF LFs
<1> QED  BY <1>2, <1>3

(* Without its first line, a buffer has one line less.                     *)
LEMMA LFsAfter ==
    ASSUME NEW s \in Inbuf, Cardinality(LFs(s)) # 0
    PROVE  /\ AfterLine(s) \in Inbuf /\ Len(AfterLine(s)) < Len(s)
           /\ Cardinality(LFs(AfterLine(s))) = Cardinality(LFs(s)) - 1
<1> DEFINE m == Min(LFs(s))
           t == AfterLine(s)
<1>1. /\ LFs(s) \subseteq 1 .. Len(s) /\ IsFiniteSet(LFs(s)) /\ Len(s) \in Nat
      /\ Cardinality(LFs(s)) \in Nat
    BY LFsFinite
<1>2. m \in LFs(s) /\ \A k \in LFs(s) : m <= k
    <2>1. LFs(s) # {}
        BY FS_EmptySet
    <2>2. LFs(s) \in SUBSET Nat
        BY <1>1
    <2>3. \E x \in LFs(s) : \A y \in LFs(s) : x <= y
        BY <2>1, <2>2, LeastExists
    <2> QED  BY <2>3 DEF Min
<1>3. m \in 1 .. Len(s) /\ t = SubSeq(s, m + 1, Len(s))
    BY <1>1, <1>2 DEF AfterLine
<1> HIDE DEF m, t
<1>4. /\ t \in Inbuf /\ Len(t) = Len(s) - m
      /\ DOMAIN t = 1 .. Len(s) - m
      /\ \A k \in 1 .. Len(s) - m : t[k] = s[m + k]
    BY <1>1, <1>3 DEF Inbuf
<1> DEFINE R == LFs(s) \ {m}
           f == [k \in LFs(t) |-> k + m]
<1>5. \A k \in LFs(t) : k \in 1 .. Len(s) - m /\ s[m + k] = "LF" /\ m + k \in DOMAIN s
    BY <1>1, <1>3, <1>4 DEF LFs, Inbuf
<1>6. \A k \in R : k \in 1 .. Len(s) /\ k - m \in 1 .. Len(s) - m /\ s[k] = "LF"
    BY <1>1, <1>2, <1>3 DEF LFs
<1>7. f \in Bijection(LFs(t), R)
    <2>1. f \in [LFs(t) -> R]
        BY <1>3, <1>4, <1>5 DEF LFs
    <2>2. \A a, b \in LFs(t) : f[a] = f[b] => a = b
        BY <1>3, <1>5
    <2>3. \A k \in R : \E a \in LFs(t) : f[a] = k
        <3> TAKE k \in R
        <3>1. k - m \in LFs(t)
            <4>1. k - m \in 1 .. Len(s) - m /\ m + (k - m) = k
                BY <1>3, <1>6
            <4>2. t[k - m] = s[k]
                BY <1>4, <4>1
            <4> QED  BY <1>4, <1>6, <4>1, <4>2 DEF LFs
        <3>2. f[k - m] = k
            BY <1>3, <1>6, <3>1
        <3> QED  BY <3>1, <3>2
    <2> HIDE DEF f, R
    <2>4. f \in Injection(LFs(t), R)
        BY <2>1, <2>2 DEF Injection, IsInjective
    <2>5. f \in Surjection(LFs(t), R)
        BY <2>1, <2>3 DEF Surjection
    <2> QED  BY <2>4, <2>5 DEF Bijection
<1>8. IsFiniteSet(R) /\ Cardinality(R) = Cardinality(LFs(s)) - 1
    BY <1>1, <1>2, FS_RemoveElement
<1>9. Cardinality(LFs(t)) = Cardinality(R)
    <2>1. IsFiniteSet(LFs(t))
        BY <1>4, LFsFinite
    <2> HIDE DEF R, f
    <2>2. ExistsBijection(LFs(t), R)
        BY <1>7 DEF ExistsBijection
    <2> QED  BY <1>8, <2>1, <2>2, FS_Bijection
<1> QED  BY <1>1, <1>3, <1>4, <1>8, <1>9 DEF t

---------------------------------------------------------------------------
(* The inductive invariant.                                                *)

Comms ==
    [user : [Slots -> User], ring : Seq(Slots), freeuser : Seq(Slots),
     flush : Seq(Slots), newlines : Nat, odone : Nat, nusers : 0 .. maxusers,
     wait : SUBSET Conns, obj : [Conns -> Object], got : [Conns -> Got]]

Used(m) == {s \in Slots : Conn(m, s) # NoConn}

(* Users and objects know one another.                                     *)
Linked(m) ==
    /\ \A s \in Used(m) : Arr(m, s).slot = s
    /\ \A s \in Slots \ Used(m) : m.user[s] = NoUser
    /\ \A c \in Conns :
          IF m.obj[c].slot = 0 THEN m.obj[c] = NoObject /\ m.got[c] = NoneGot
          ELSE Conn(m, m.obj[c].slot) = c

Shares(m) ==
    /\ IsInjective(m.ring) /\ ToSet(m.ring) = Used(m)
    /\ IsInjective(m.freeuser) /\ ToSet(m.freeuser) = Slots \ Used(m)
    /\ m.nusers = Cardinality(Used(m))

Sums(m) ==
    /\ m.newlines = Lines(m)
    /\ m.odone = Cardinality({s \in Slots : m.user[s].odone})

(* A complete line is taken from a full buffer at once.                    *)
InputSound(u) ==
    /\ u.newlines = Cardinality(LFs(u.inbuf))
    /\ Len(u.inbuf) <= INBUF_SIZE
    /\ u.newlines = 0 \/ Len(u.inbuf) < INBUF_SIZE

(* What comm_flush() will send of the buffer of object o for user u, whose *)
(* peer got g.                                                             *)
SentBy(u, o) == IF u.outbuf /\ ~o.first THEN 0 ELSE u.osdone

Rest(u, o) == SubSeq(o.buffer, SentBy(u, o) + 1, Len(o.buffer))

End(u, o, g) == Reads(g, Rest(u, o))

BufferSound(u, o) ==
    /\ Len(o.buffer) <= MAX_STRLEN
    /\ u.outbuf => u.flush /\ o.buffer # << >>
    /\ ~u.flush => o.first
    /\ SentBy(u, o) <= Len(o.buffer)
    /\ u.odone => o.buffer = << >>

FlushedSound(u, o) == ~u.flush => u.blocked = o.blocked /\ o.user

OrderSound(u, o, g) == ~End(u, o, g).wrong /\ End(u, o, g).upto = o.written

EchoSound(u, o, g) ==
    u.oindex \in Telnet => End(u, o, g).echo = (IF u.echo THEN WONT ELSE WILL)

OutputSound(u, o, g) ==
    BufferSound(u, o) /\ FlushedSound(u, o) /\ OrderSound(u, o, g) /\ EchoSound(u, o, g)

Sound(m) ==
    /\ m \in Comms
    /\ Linked(m) /\ Shares(m) /\ Sums(m)
    /\ \A s \in Slots : InputSound(m.user[s])
    /\ \A s \in Used(m) : OutputSound(m.user[s], Arr(m, s), m.got[Conn(m, s)])

(* The flush list.                                                         *)
ListSound(m) == IsInjective(m.flush) /\ ToSet(m.flush) = {s \in Slots : m.user[s].flush}

NewUnknown == \A c \in net.new : comm.obj[c].slot = 0

(* Nothing can be sent to user s before conn_select() is called again.     *)
Stuck(m, s) == Arr(m, s).buffer = << >> \/ Conn(m, s) \in m.wait \/ ~m.user[s].output

(* comm_receive() goes around the ring while users are in the flush list,  *)
(* and a thread that ends may have removed users: it may come to one that  *)
(* is in the list.  The buffer of that one must not be sent from osdone on *)
(* if it has been written to since.                                        *)
PcSound ==
    CASE pc.at \in {"loop", "callouts", "accept"} -> comm.flush = << >>
      [] pc.at = "thread" ->
            /\ pc.next \in {"loop", "callouts", "accept", "input"}
            /\ pc.next = "input" =>
                  /\ pc.usr \in Used(comm)
                  /\ ~comm.user[pc.usr].flush => Stuck(comm, pc.usr)
                  /\ pc.i \in Nat
      [] pc.at \in {"turns", "input"} ->
            /\ pc.i \in Nat
            /\ comm.ring # << >>
            /\ \A s \in Used(comm) : comm.user[s].outbuf => Stuck(comm, s)
            /\ pc.at = "input" => pc.usr \in Used(comm) /\ Stuck(comm, pc.usr)
      [] OTHER -> FALSE

IInv == TypeOK /\ Sound(comm) /\ ListSound(comm) /\ NewUnknown /\ PcSound

---------------------------------------------------------------------------
(* Writing to one buffer.                                                  *)

(* User u of object o after addtoflush().                                  *)
InFlush(u, o) ==
    IF u.flush THEN u ELSE [u EXCEPT !.flush = TRUE, !.outbuf = (o.buffer # << >>)]

UnsentBy(u, o) ==
    SubSeq(o.buffer, IF u.outbuf /\ o.first THEN u.osdone + 1 ELSE 1, Len(o.buffer))

RoomBy(u, o) == Len(UnsentBy(InFlush(u, o), o)) < MAX_STRLEN

(* Both after comm_write().                                                *)
WriteUser(u, o) ==
    IF o.buffer = << >> THEN [InFlush(u, o) EXCEPT !.odone = FALSE, !.output = TRUE]
    ELSE InFlush(u, o)

WriteObject(u, o, b) ==
    IF o.buffer = << >> THEN [o EXCEPT !.buffer = << b >>, !.first = FALSE]
    ELSE IF RoomBy(u, o)
         THEN [o EXCEPT !.buffer = Append(UnsentBy(InFlush(u, o), o), b), !.first = FALSE]
         ELSE o

LEMMA UserFields ==
    ASSUME NEW u \in User
    PROVE  /\ u.oindex \in Conns \cup {NoConn} /\ u.echo \in BOOLEAN /\ u.blocked \in BOOLEAN
           /\ u.flush \in BOOLEAN /\ u.output \in BOOLEAN /\ u.odone \in BOOLEAN
           /\ u.state \in States /\ u.newlines \in Nat /\ u.inbuf \in Inbuf
           /\ u.outbuf \in BOOLEAN /\ u.osdone \in 0 .. MAX_STRLEN /\ u.osdone \in Nat
BY ConstantsAre DEF User, Inbuf

LEMMA ObjectFields ==
    ASSUME NEW o \in Object
    PROVE  /\ o.slot \in Slots \cup {0} /\ o.user \in BOOLEAN /\ o.echo \in BOOLEAN
           /\ o.blocked \in BOOLEAN /\ o.buffer \in Seq(Output) /\ o.first \in BOOLEAN
           /\ o.written \in 0 .. MaxSent /\ Len(o.buffer) \in Nat
BY DEF Object

LEMMA InFlushIs ==
    ASSUME NEW u \in User, NEW o
    PROVE  /\ InFlush(u, o) \in User
           /\ InFlush(u, o).flush
           /\ InFlush(u, o).outbuf = (IF u.flush THEN u.outbuf ELSE o.buffer # << >>)
           /\ InFlush(u, o).osdone = u.osdone /\ InFlush(u, o).echo = u.echo
           /\ InFlush(u, o).oindex = u.oindex /\ InFlush(u, o).blocked = u.blocked
           /\ InFlush(u, o).odone = u.odone /\ InFlush(u, o).output = u.output
           /\ InFlush(u, o).newlines = u.newlines /\ InFlush(u, o).inbuf = u.inbuf
<1>1. CASE u.flush
    BY <1>1 DEF InFlush
<1>2. CASE ~u.flush
    <2> DEFINE v == [u EXCEPT !.flush = TRUE, !.outbuf = (o.buffer # << >>)]
    <2>1. /\ v \in User /\ v.flush /\ v.outbuf = (o.buffer # << >>)
          /\ v.osdone = u.osdone /\ v.echo = u.echo /\ v.oindex = u.oindex
          /\ v.blocked = u.blocked /\ v.odone = u.odone /\ v.output = u.output
          /\ v.newlines = u.newlines /\ v.inbuf = u.inbuf
        BY DEF User
    <2>2. InFlush(u, o) = v
        BY <1>2 DEF InFlush
    <2> HIDE DEF v
    <2> QED  BY <1>2, <2>1, <2>2
<1> QED  BY <1>1, <1>2, UserFields

(* addtoflush() changes nothing of what is still to be sent.               *)
LEMMA InFlushSound ==
    ASSUME NEW u \in User, NEW o \in Object, BufferSound(u, o)
    PROVE  BufferSound(InFlush(u, o), o) /\ Rest(InFlush(u, o), o) = Rest(u, o)
<1> DEFINE v == InFlush(u, o)
<1>1. /\ v.flush /\ v.outbuf = (IF u.flush THEN u.outbuf ELSE o.buffer # << >>)
      /\ v.osdone = u.osdone /\ v.odone = u.odone
    BY InFlushIs
<1> HIDE DEF v
<1>2. SentBy(v, o) = SentBy(u, o)
    BY <1>1, UserFields, ObjectFields DEF SentBy, BufferSound
<1>3. BufferSound(v, o)
    BY <1>1, <1>2 DEF BufferSound
<1> QED  BY <1>2, <1>3 DEF Rest, v

LEMMA RestIs ==
    ASSUME NEW u \in User, NEW o \in Object, BufferSound(u, o)
    PROVE  /\ Rest(u, o) \in Seq(Output)
           /\ SentBy(u, o) \in Nat
           /\ Len(Rest(u, o)) = Len(o.buffer) - SentBy(u, o)
           /\ \A k \in 1 .. Len(o.buffer) - SentBy(u, o) :
                 Rest(u, o)[k] = o.buffer[SentBy(u, o) + k]
<1>1. SentBy(u, o) \in Nat /\ SentBy(u, o) <= Len(o.buffer)
    BY UserFields DEF SentBy, BufferSound
<1>2. o.buffer \in Seq(Output) /\ Len(o.buffer) \in Nat
    BY ObjectFields
<1> QED  BY <1>1, <1>2, SubSeqElem DEF Rest

(* What comm_write() would copy of a buffer.                               *)
LEMMA UnsentIs ==
    ASSUME NEW u \in User, NEW o \in Object, BufferSound(u, o)
    PROVE  /\ UnsentBy(u, o) \in Seq(Output)
           /\ Len(UnsentBy(u, o)) \in Nat
           /\ u.outbuf => UnsentBy(u, o) = Rest(u, o)
           /\ ~u.outbuf => UnsentBy(u, o) = o.buffer
<1>1. /\ u.osdone \in Nat /\ o.buffer \in Seq(Output) /\ Len(o.buffer) \in Nat
      /\ u.outbuf \in BOOLEAN /\ o.first \in BOOLEAN
    BY UserFields, ObjectFields
<1>2. CASE u.outbuf
    <2>1. (IF u.outbuf /\ o.first THEN u.osdone + 1 ELSE 1) = SentBy(u, o) + 1
        BY <1>1, <1>2 DEF SentBy
    <2>2. UnsentBy(u, o) = Rest(u, o)
        BY <2>1 DEF UnsentBy, Rest
    <2> QED  BY <1>2, <2>2, RestIs
<1>3. CASE ~u.outbuf
    <2>1. UnsentBy(u, o) = SubSeq(o.buffer, 1, Len(o.buffer))
        BY <1>3 DEF UnsentBy
    <2>2. SubSeq(o.buffer, 1, Len(o.buffer)) = o.buffer
        BY <1>1
    <2> QED  BY <1>1, <1>3, <2>1, <2>2
<1> QED  BY <1>1, <1>2, <1>3

LEMMA SeqSame ==
    ASSUME NEW S, NEW s \in Seq(S), NEW t \in Seq(S), Len(s) = Len(t),
           \A k \in 1 .. Len(s) : s[k] = t[k]
    PROVE  s = t
<1>1. /\ s = [k \in 1 .. Len(s) |-> s[k]] /\ t = [k \in 1 .. Len(t) |-> t[k]]
    OBVIOUS
<1> QED  BY <1>1

LEMMA WriteUserIs ==
    ASSUME NEW u \in User, NEW o
    PROVE  LET v == WriteUser(u, o)
           IN /\ v \in User /\ v.flush
              /\ v.outbuf = InFlush(u, o).outbuf
              /\ v.osdone = u.osdone /\ v.echo = u.echo
              /\ v.oindex = u.oindex /\ v.blocked = u.blocked
              /\ v.newlines = u.newlines /\ v.inbuf = u.inbuf
              /\ v.odone = (u.odone /\ o.buffer # << >>)
              /\ v.output = (u.output \/ o.buffer = << >>)
<1> DEFINE f == InFlush(u, o)
           w == [f EXCEPT !.odone = FALSE, !.output = TRUE]
<1>1. /\ f \in User /\ f.flush
      /\ f.osdone = u.osdone /\ f.echo = u.echo
      /\ f.oindex = u.oindex /\ f.blocked = u.blocked
      /\ f.odone = u.odone /\ f.output = u.output
      /\ f.newlines = u.newlines /\ f.inbuf = u.inbuf
    BY InFlushIs
<1> HIDE DEF f
<1>2. /\ w \in User /\ w.flush = f.flush /\ w.outbuf = f.outbuf
      /\ w.osdone = f.osdone /\ w.echo = f.echo
      /\ w.oindex = f.oindex /\ w.blocked = f.blocked
      /\ w.newlines = f.newlines /\ w.inbuf = f.inbuf
      /\ w.odone = FALSE /\ w.output = TRUE
    BY <1>1 DEF User
<1> HIDE DEF w
<1>3. WriteUser(u, o) = IF o.buffer = << >> THEN w ELSE f
    BY DEF WriteUser, w, f
<1>4. u.odone \in BOOLEAN /\ u.output \in BOOLEAN
    BY UserFields
<1>5. CASE o.buffer = << >>
    BY <1>1, <1>2, <1>3, <1>5 DEF f
<1>6. CASE o.buffer # << >>
    BY <1>1, <1>3, <1>4, <1>6 DEF f
<1> QED  BY <1>5, <1>6

LEMMA BufferOf ==
    ASSUME NEW o \in Object, NEW bytes \in Seq(Output)
    PROVE  LET p == [o EXCEPT !.buffer = bytes, !.first = FALSE]
           IN /\ p \in Object /\ p.buffer = bytes /\ p.first = FALSE
              /\ p.slot = o.slot /\ p.user = o.user /\ p.echo = o.echo
              /\ p.blocked = o.blocked /\ p.written = o.written
BY DEF Object

(* Byte b is the last one to be sent now, if there is room for it.         *)
LEMMA WriteSound ==
    ASSUME NEW u \in User, NEW o \in Object, NEW b \in Output, BufferSound(u, o)
    PROVE  LET v == WriteUser(u, o)
               p == WriteObject(u, o, b)
           IN /\ p \in Object /\ BufferSound(v, p)
              /\ p.slot = o.slot /\ p.user = o.user /\ p.echo = o.echo
              /\ p.blocked = o.blocked /\ p.written = o.written
              /\ p.buffer # << >>
              /\ Rest(v, p) = IF RoomBy(u, o) THEN Append(Rest(u, o), b) ELSE Rest(u, o)
<1> DEFINE f == InFlush(u, o)
           v == WriteUser(u, o)
           p == WriteObject(u, o, b)
           x == UnsentBy(f, o)
           y == Append(x, b)
<1>1. f \in User /\ f.flush /\ f.osdone = u.osdone /\ f.odone = u.odone
    BY InFlushIs
<1>2. BufferSound(f, o) /\ Rest(f, o) = Rest(u, o)
    BY InFlushSound
<1>3. /\ v \in User /\ v.flush /\ v.outbuf = f.outbuf /\ v.osdone = f.osdone
      /\ v.odone = (u.odone /\ o.buffer # << >>)
    BY <1>1, WriteUserIs
<1>0. ~v.odone
    <2>1. u.odone => o.buffer = << >>
        BY DEF BufferSound
    <2> QED  BY <1>3, <2>1
<1>4. RoomBy(u, o) <=> Len(x) < MAX_STRLEN
    BY DEF RoomBy
<1>5. /\ x \in Seq(Output) /\ Len(x) \in Nat
      /\ f.outbuf => x = Rest(f, o)
      /\ ~f.outbuf => x = o.buffer
    BY <1>1, <1>2, UnsentIs
<1>6. /\ o.buffer \in Seq(Output) /\ Len(o.buffer) \in Nat /\ f.outbuf \in BOOLEAN
      /\ f.osdone \in Nat /\ o.first \in BOOLEAN
    BY <1>1, UserFields, ObjectFields
<1>7. /\ y \in Seq(Output) /\ Len(y) = Len(x) + 1 /\ y # << >>
      /\ y[Len(x) + 1] = b /\ \A k \in 1 .. Len(x) : y[k] = x[k]
    BY <1>5, AppendElem
<1>8. o.buffer = << >> => x = << >> /\ y = << b >> /\ ~f.outbuf
    <2> SUFFICES ASSUME o.buffer = << >>  PROVE x = << >> /\ y = << b >> /\ ~f.outbuf
        OBVIOUS
    <2>1. ~f.outbuf
        BY <1>2 DEF BufferSound
    <2>2. x = << >>
        BY <1>5, <2>1
    <2> HIDE DEF x
    <2> QED  BY <2>1, <2>2
<1>9. p = IF RoomBy(u, o) THEN [o EXCEPT !.buffer = y, !.first = FALSE] ELSE o
    <2>1. CASE o.buffer = << >>
        <3>1. Len(x) = 0
            BY <1>8, <2>1
        <3>2. RoomBy(u, o)
            BY <1>4, <3>1, ConstantsAre
        <3> HIDE DEF x, y
        <3> QED  BY <1>8, <2>1, <3>2 DEF WriteObject
    <2>2. CASE o.buffer # << >>
        BY <2>2 DEF WriteObject
    <2> QED  BY <2>1, <2>2
<1> HIDE DEF f, v, p, x, y
<1>10. CASE ~RoomBy(u, o)
    <2>1. p = o /\ o.buffer # << >>
        <3>1. o.buffer # << >>
            <4>1. o.buffer = << >> => Len(x) = 0
                BY <1>8
            <4> QED  BY <1>4, <1>10, <4>1, ConstantsAre
        <3> QED  BY <1>9, <1>10, <3>1
    <2>2. SentBy(v, o) = SentBy(f, o)
        BY <1>3 DEF SentBy
    <2>3. BufferSound(v, o) /\ Rest(v, o) = Rest(f, o)
        BY <1>0, <1>2, <1>3, <2>1, <2>2 DEF BufferSound, Rest
    <2> QED  BY <1>2, <1>10, <2>1, <2>3 DEF v, p
<1>11. CASE RoomBy(u, o)
    <2>1. /\ p \in Object /\ p.buffer = y /\ p.first = FALSE
          /\ p.slot = o.slot /\ p.user = o.user /\ p.echo = o.echo
          /\ p.blocked = o.blocked /\ p.written = o.written
        BY <1>7, <1>9, <1>11, BufferOf
    <2>2. Len(y) <= MAX_STRLEN
        BY <1>4, <1>5, <1>7, <1>11, ConstantsAre
    <2>3. SentBy(v, p) = IF f.outbuf THEN 0 ELSE f.osdone
        BY <1>3, <2>1 DEF SentBy
    <2>4. CASE f.outbuf
        <3>1. SentBy(v, p) = 0 /\ x = Rest(f, o)
            BY <1>5, <2>3, <2>4
        <3>2. BufferSound(v, p)
            BY <1>0, <1>3, <1>5, <1>7, <2>1, <2>2, <3>1 DEF BufferSound
        <3>3. Rest(v, p) = y
            <4>1. Rest(v, p) = SubSeq(y, 0 + 1, Len(y))
                BY <2>1, <3>1 DEF Rest
            <4>2. SubSeq(y, 0 + 1, Len(y)) = y
                BY <1>7
            <4> QED  BY <4>1, <4>2
        <3>4. y = Append(Rest(u, o), b)
            BY <1>2, <3>1 DEF y
        <3> QED  BY <1>7, <1>11, <2>1, <3>2, <3>3, <3>4 DEF v, p
    <2>5. CASE ~f.outbuf
        <3>1. SentBy(v, p) = f.osdone /\ x = o.buffer /\ SentBy(f, o) = f.osdone
            BY <1>5, <2>3, <2>5 DEF SentBy
        <3>2. f.osdone <= Len(x)
            BY <1>2, <3>1 DEF BufferSound
        <3>3. BufferSound(v, p)
            <4>1. f.osdone <= Len(y)
                BY <1>5, <1>6, <1>7, <3>2
            <4> QED  BY <1>0, <1>3, <2>1, <2>2, <2>5, <3>1, <4>1 DEF BufferSound
        <3> DEFINE r == Rest(f, o)
        <3>4. /\ r \in Seq(Output) /\ Len(r) = Len(x) - f.osdone
              /\ \A k \in 1 .. Len(x) - f.osdone : r[k] = x[f.osdone + k]
            BY <1>1, <1>2, <3>1, RestIs
        <3>5. /\ Rest(v, p) \in Seq(Output) /\ Len(Rest(v, p)) = Len(y) - f.osdone
              /\ \A k \in 1 .. Len(y) - f.osdone : Rest(v, p)[k] = y[f.osdone + k]
            BY <1>3, <2>1, <3>1, <3>3, RestIs
        <3> HIDE DEF r
        <3>6. /\ Append(r, b) \in Seq(Output) /\ Len(Append(r, b)) = Len(r) + 1
              /\ Append(r, b)[Len(r) + 1] = b
              /\ \A k \in 1 .. Len(r) : Append(r, b)[k] = r[k]
            BY <3>4, AppendElem
        <3> DEFINE n == Len(y) - f.osdone
        <3>7. Len(Rest(v, p)) = n /\ Len(Append(r, b)) = n /\ n \in Int
            BY <1>5, <1>6, <1>7, <3>4, <3>5, <3>6
        <3>8. ASSUME NEW k \in 1 .. n
              PROVE  Rest(v, p)[k] = Append(r, b)[k]
            <4>1. k \in 1 .. Len(x) + 1 - f.osdone
                BY <1>5, <1>6, <1>7
            <4>2. Rest(v, p)[k] = y[f.osdone + k]
                BY <3>5
            <4>3. CASE k = Len(r) + 1
                <5>1. f.osdone + k = Len(x) + 1
                    BY <1>5, <1>6, <3>4, <4>3
                <5> QED  BY <1>7, <3>6, <4>2, <4>3, <5>1
            <4>4. CASE k # Len(r) + 1
                <5>1. k \in Int /\ 1 <= k /\ k <= Len(x) + 1 - f.osdone
                    BY <1>5, <1>6, <4>1
                <5>2. Len(r) = Len(x) - f.osdone
                    BY <3>4
                <5>3. k <= Len(x) - f.osdone
                    BY <1>5, <1>6, <4>4, <5>1, <5>2
                <5>4. k \in 1 .. Len(x) - f.osdone
                    BY <1>5, <1>6, <5>1, <5>3
                <5>5. f.osdone + k \in 1 .. Len(x)
                    BY <1>5, <1>6, <5>1, <5>3
                <5>6. Append(r, b)[k] = r[k]
                    BY <3>6, <5>2, <5>4
                <5>7. y[f.osdone + k] = x[f.osdone + k]
                    BY <1>7, <5>5
                <5> QED  BY <3>4, <4>2, <5>4, <5>6, <5>7
            <4> QED  BY <4>3, <4>4
        <3>9. Rest(v, p) = Append(r, b)
            <4> HIDE DEF n
            <4> QED  BY <3>5, <3>6, <3>7, <3>8, SeqSame
        <3> QED  BY <1>2, <1>7, <1>11, <2>1, <3>3, <3>9 DEF v, p, r
    <2> QED  BY <1>6, <2>4, <2>5
<1> QED  BY <1>10, <1>11

(* What the peer has got in the end, after one more byte.                  *)
LEMMA WriteEnd ==
    ASSUME NEW u \in User, NEW o \in Object, NEW g \in Got, NEW b \in Output,
           BufferSound(u, o)
    PROVE  /\ End(u, o, g) \in Got
           /\ End(WriteUser(u, o), WriteObject(u, o, b), g) =
                IF RoomBy(u, o) THEN Receives(End(u, o, g), b) ELSE End(u, o, g)
<1>1. Rest(u, o) \in Seq(Output)
    BY RestIs
<1>2. Rest(WriteUser(u, o), WriteObject(u, o, b))
        = IF RoomBy(u, o) THEN Append(Rest(u, o), b) ELSE Rest(u, o)
    BY WriteSound
<1>3. End(u, o, g) \in Got
    BY <1>1, ReadsType DEF End
<1>4. Reads(g, Append(Rest(u, o), b)) = Receives(Reads(g, Rest(u, o)), b)
    BY <1>1, ReadsAppend
<1> QED  BY <1>2, <1>3, <1>4 DEF End

---------------------------------------------------------------------------
(* What operations on one user do to all of comm.                          *)

(* Comms, but for a count that is still to be shown to be one.             *)
Counting ==
    [user : [Slots -> User], ring : Seq(Slots), freeuser : Seq(Slots),
     flush : Seq(Slots), newlines : Nat, odone : Int, nusers : 0 .. maxusers,
     wait : SUBSET Conns, obj : [Conns -> Object], got : [Conns -> Got]]

(* Only user s and its object are different in q, and not their input.     *)
Affects(q, m, s) ==
    /\ q \in Counting
    /\ q.ring = m.ring /\ q.freeuser = m.freeuser
    /\ q.nusers = m.nusers /\ q.newlines = m.newlines
    /\ \A r \in Slots \ {s} : q.user[r] = m.user[r]
    /\ \A c \in Conns \ {Conn(m, s)} :
          q.obj[c] = m.obj[c] /\ q.got[c] = m.got[c] /\ (c \in q.wait <=> c \in m.wait)
    /\ Conn(q, s) = Conn(m, s)
    /\ q.obj[Conn(m, s)].slot = m.obj[Conn(m, s)].slot
    /\ q.user[s].newlines = m.user[s].newlines /\ q.user[s].inbuf = m.user[s].inbuf
    /\ q.odone = m.odone + D(q.user[s].odone) - D(m.user[s].odone)

LEMMA CountingFields ==
    ASSUME NEW m \in Counting
    PROVE  /\ m.user \in [Slots -> User] /\ m.ring \in Seq(Slots) /\ m.freeuser \in Seq(Slots)
           /\ m.flush \in Seq(Slots) /\ m.newlines \in Nat /\ m.odone \in Int
           /\ m.nusers \in 0 .. maxusers /\ m.wait \in SUBSET Conns
           /\ m.obj \in [Conns -> Object] /\ m.got \in [Conns -> Got]
BY DEF Counting

LEMMA CommsCounting == \A m : m \in Comms <=> m \in Counting /\ m.odone \in Nat
BY DEF Comms, Counting

LEMMA UsedIs ==
    ASSUME NEW m \in Counting, NEW s \in Used(m)
    PROVE  /\ s \in Slots /\ Conn(m, s) \in Conns
           /\ m.user[s] \in User /\ Arr(m, s) \in Object /\ m.got[Conn(m, s)] \in Got
<1>1. s \in Slots /\ Conn(m, s) # NoConn
    BY DEF Used
<1>2. m.user[s] \in User
    BY <1>1, CommsCounting, CountingFields
<1>3. Conn(m, s) \in Conns
    BY <1>1, <1>2, UserFields DEF Conn
<1> QED  BY <1>1, <1>2, <1>3, CommsCounting, CountingFields DEF Arr

LEMMA AffectsNone ==
    ASSUME NEW m \in Counting, NEW s \in Used(m)
    PROVE  Affects(m, m, s)
BY UsedIs, CountingFields DEF Affects, D

LEMMA AffectsMore ==
    ASSUME NEW m \in Counting, NEW s \in Used(m), NEW q, NEW r, Affects(q, m, s), Affects(r, q, s)
    PROVE  Affects(r, m, s) /\ s \in Used(q)
<1>1. Conn(q, s) = Conn(m, s)
    BY DEF Affects
<1>2. r.odone = m.odone + D(r.user[s].odone) - D(m.user[s].odone)
    <2>1. q \in Counting /\ q.odone \in Int /\ m.odone \in Int
        BY CountingFields DEF Affects
    <2>2. D(r.user[s].odone) \in Int /\ D(q.user[s].odone) \in Int /\ D(m.user[s].odone) \in Int
        BY DEF D
    <2>3. /\ r.odone = q.odone + D(r.user[s].odone) - D(q.user[s].odone)
          /\ q.odone = m.odone + D(q.user[s].odone) - D(m.user[s].odone)
        BY DEF Affects
    <2> QED  BY <2>1, <2>2, <2>3
<1>3. s \in Used(q)
    BY <1>1 DEF Used
<1> QED  BY <1>1, <1>2, <1>3 DEF Affects

(* The input of user s may be different as well.                           *)
Alters(q, m, s) ==
    /\ q \in Counting
    /\ q.ring = m.ring /\ q.freeuser = m.freeuser
    /\ q.nusers = m.nusers
    /\ \A r \in Slots \ {s} : q.user[r] = m.user[r]
    /\ \A c \in Conns \ {Conn(m, s)} :
          q.obj[c] = m.obj[c] /\ q.got[c] = m.got[c] /\ (c \in q.wait <=> c \in m.wait)
    /\ Conn(q, s) = Conn(m, s)
    /\ q.obj[Conn(m, s)].slot = m.obj[Conn(m, s)].slot
    /\ q.newlines = m.newlines + q.user[s].newlines - m.user[s].newlines
    /\ q.odone = m.odone + D(q.user[s].odone) - D(m.user[s].odone)

LEMMA AffectsAlters ==
    ASSUME NEW m \in Counting, NEW s \in Used(m), NEW q, Affects(q, m, s)
    PROVE  Alters(q, m, s)
<1>1. m.newlines \in Nat /\ m.user[s].newlines \in Nat
    BY UsedIs, UserFields, CountingFields
<1>2. q.newlines = m.newlines /\ q.user[s].newlines = m.user[s].newlines
    BY DEF Affects
<1>3. q.newlines = m.newlines + q.user[s].newlines - m.user[s].newlines
    BY <1>1, <1>2
<1> QED  BY <1>3 DEF Affects, Alters

LEMMA AltersMore ==
    ASSUME NEW m \in Counting, NEW s \in Used(m), NEW q, NEW r, Alters(q, m, s), Alters(r, q, s)
    PROVE  Alters(r, m, s) /\ s \in Used(q)
<1>1. Conn(q, s) = Conn(m, s)
    BY DEF Alters
<1>2. s \in Used(q)
    BY <1>1 DEF Used
<1>3. q \in Counting /\ r \in Counting
    BY DEF Alters
<1>4. r.odone = m.odone + D(r.user[s].odone) - D(m.user[s].odone)
    <2>1. q.odone \in Int /\ m.odone \in Int
        BY <1>3, CountingFields
    <2>2. D(r.user[s].odone) \in Int /\ D(q.user[s].odone) \in Int /\ D(m.user[s].odone) \in Int
        BY DEF D
    <2>3. /\ r.odone = q.odone + D(r.user[s].odone) - D(q.user[s].odone)
          /\ q.odone = m.odone + D(q.user[s].odone) - D(m.user[s].odone)
        BY DEF Alters
    <2> QED  BY <2>1, <2>2, <2>3
<1>5. r.newlines = m.newlines + r.user[s].newlines - m.user[s].newlines
    <2>1. q.newlines \in Int /\ m.newlines \in Int
        BY <1>3, CountingFields
    <2>2. m.user[s].newlines \in Nat /\ q.user[s].newlines \in Nat /\ r.user[s].newlines \in Nat
        <3>1. s \in Slots
            BY DEF Used
        <3>2. m.user[s] \in User /\ q.user[s] \in User /\ r.user[s] \in User
            BY <1>3, <3>1, CountingFields
        <3> QED  BY <3>2, UserFields
    <2>3. /\ r.newlines = q.newlines + r.user[s].newlines - q.user[s].newlines
          /\ q.newlines = m.newlines + q.user[s].newlines - m.user[s].newlines
        BY DEF Alters
    <2> QED  BY <2>1, <2>2, <2>3
<1> QED  BY <1>1, <1>2, <1>4, <1>5 DEF Alters

(* Users and objects stay with one another, and the counts stay right.     *)
LEMMA AltersUsed ==
    ASSUME NEW m \in Comms, NEW s \in Used(m), NEW q, Alters(q, m, s), Linked(m)
    PROVE  /\ Used(q) = Used(m)
           /\ \A r \in Slots : Conn(q, r) = Conn(m, r)
           /\ \A r \in Used(m) \ {s} : /\ Conn(m, r) # Conn(m, s)
                                       /\ Arr(q, r) = Arr(m, r)
                                       /\ q.got[Conn(q, r)] = m.got[Conn(m, r)]
<1>1. \A r \in Slots : Conn(q, r) = Conn(m, r)
    BY DEF Alters, Conn
<1>2. Used(q) = Used(m)
    BY <1>1 DEF Used
<1>3. ASSUME NEW r \in Used(m) \ {s}
      PROVE  /\ Conn(m, r) # Conn(m, s)
             /\ Arr(q, r) = Arr(m, r)
             /\ q.got[Conn(q, r)] = m.got[Conn(m, r)]
    <2>1. r \in Slots /\ Conn(m, r) \in Conns /\ Conn(q, r) = Conn(m, r)
        BY <1>1, UsedIs, CommsCounting
    <2>2. Conn(m, r) # Conn(m, s)
        BY DEF Linked, Arr
    <2> QED  BY <2>1, <2>2 DEF Alters, Arr
<1> QED  BY <1>1, <1>2, <1>3

LEMMA AffectsUsed ==
    ASSUME NEW m \in Comms, NEW s \in Used(m), NEW q, Affects(q, m, s), Linked(m)
    PROVE  /\ Used(q) = Used(m)
           /\ \A r \in Slots : Conn(q, r) = Conn(m, r)
           /\ \A r \in Used(m) \ {s} : /\ Conn(m, r) # Conn(m, s)
                                       /\ Arr(q, r) = Arr(m, r)
                                       /\ q.got[Conn(q, r)] = m.got[Conn(m, r)]
<1>1. m \in Counting
    BY CommsCounting
<1>2. Alters(q, m, s)
    BY <1>1, AffectsAlters
<1> QED  BY <1>2, AltersUsed

(* All is sound, but perhaps the output of user s.                         *)
SoundBut(m, s) ==
    /\ m \in Comms
    /\ Linked(m) /\ Shares(m) /\ Sums(m)
    /\ \A r \in Slots : InputSound(m.user[r])
    /\ \A r \in Used(m) \ {s} : OutputSound(m.user[r], Arr(m, r), m.got[Conn(m, r)])

LEMMA AltersSoundBut ==
    ASSUME NEW m, Sound(m), NEW s \in Used(m), NEW q, Alters(q, m, s),
           InputSound(q.user[s])
    PROVE  SoundBut(q, s)
<1>1. /\ m \in Comms /\ m \in Counting /\ m.odone \in Nat /\ Linked(m) /\ Shares(m) /\ Sums(m)
      /\ q \in Counting /\ s \in Slots /\ Conn(m, s) \in Conns
    BY UsedIs, CommsCounting DEF Sound, Alters
<1>2. /\ Used(q) = Used(m) /\ \A r \in Slots : Conn(q, r) = Conn(m, r)
      /\ \A r \in Used(m) \ {s} : /\ Conn(m, r) # Conn(m, s)
                                  /\ Arr(q, r) = Arr(m, r)
                                  /\ q.got[Conn(q, r)] = m.got[Conn(m, r)]
    BY <1>1, AltersUsed
<1>3. Linked(q)
    <2>1. ASSUME NEW r \in Used(q)
          PROVE  Arr(q, r).slot = r
        <3>1. Arr(q, s).slot = Arr(m, s).slot
            BY <1>1, <1>2 DEF Alters, Arr
        <3> QED  BY <1>1, <1>2, <3>1 DEF Linked
    <2>2. \A r \in Slots \ Used(q) : q.user[r] = NoUser
        BY <1>1, <1>2 DEF Linked, Alters
    <2>3. ASSUME NEW c \in Conns
          PROVE  IF q.obj[c].slot = 0 THEN q.obj[c] = NoObject /\ q.got[c] = NoneGot
                 ELSE Conn(q, q.obj[c].slot) = c
        <3>1. CASE c # Conn(m, s)
            <4>1. q.obj[c] = m.obj[c] /\ q.got[c] = m.got[c]
                BY <3>1 DEF Alters
            <4>2. m.obj[c] \in Object
                BY <1>1, CountingFields
            <4>3. m.obj[c].slot = 0 \/ m.obj[c].slot \in Slots
                BY <4>2, ObjectFields
            <4> QED  BY <1>1, <1>2, <4>1, <4>3 DEF Linked
        <3>2. CASE c = Conn(m, s)
            <4>1. q.obj[c].slot = s
                BY <1>1, <3>2 DEF Linked, Alters, Arr
            <4>2. s # 0
                BY <1>1, ConstantsAre DEF Slots
            <4> QED  BY <1>1, <1>2, <3>2, <4>1, <4>2
        <3> QED  BY <3>1, <3>2
    <2> QED  BY <2>1, <2>2, <2>3 DEF Linked
<1>4. Shares(q)
    BY <1>1, <1>2 DEF Shares, Alters
<1>5. Sums(q) /\ q.odone \in Nat
    <2> DEFINE d == q.user[s].newlines - m.user[s].newlines
    <2>0. \A r \in Slots : m.user[r].newlines \in Nat /\ q.user[r].newlines \in Nat
        <3>1. \A r \in Slots : m.user[r] \in User /\ q.user[r] \in User
            BY <1>1, CountingFields
        <3> QED  BY <3>1, UserFields
    <2>1. Lines(q) = Lines(m) + d
        <3>1. /\ \A r \in Slots \ {s} : q.user[r].newlines = m.user[r].newlines
              /\ q.user[s].newlines = m.user[s].newlines + d /\ d \in Int
            BY <1>1, <2>0 DEF Alters
        <3> HIDE DEF d
        <3> QED  BY <1>1, <2>0, <3>1, LinesOne
    <2>2. Lines(m) \in Nat
        BY <2>0, LinesType
    <2> DEFINE S == {r \in Slots : m.user[r].odone}
               T == {r \in Slots : q.user[r].odone}
    <2>3. /\ Cardinality(T) = Cardinality(S) + D(s \in T) - D(s \in S)
          /\ Cardinality(T) \in Nat
        <3>1. S \subseteq Slots /\ T \subseteq Slots /\ \A r \in Slots \ {s} : r \in S <=> r \in T
            BY DEF Alters
        <3> HIDE DEF S, T
        <3> QED  BY <1>1, <3>1, CountOne
    <2>4. D(s \in T) = D(q.user[s].odone) /\ D(s \in S) = D(m.user[s].odone)
        BY <1>1 DEF D
    <2>5. q.odone = Cardinality(T)
        <3>1. m.odone = Cardinality(S)
            BY <1>1 DEF Sums
        <3>2. q.odone = m.odone + D(q.user[s].odone) - D(m.user[s].odone)
            BY DEF Alters
        <3> HIDE DEF S, T
        <3> QED  BY <2>3, <2>4, <3>1, <3>2
    <2>6. q.newlines = Lines(q)
        <3>1. q.newlines = m.newlines + q.user[s].newlines - m.user[s].newlines
            BY DEF Alters
        <3>2. m.newlines = Lines(m) /\ s \in Slots
            BY <1>1 DEF Sums
        <3>3. m.user[s].newlines \in Nat /\ q.user[s].newlines \in Nat
            BY <2>0, <3>2
        <3> QED  BY <2>1, <2>2, <3>1, <3>2, <3>3
    <2> QED  BY <2>3, <2>5, <2>6 DEF Sums
<1>6. \A r \in Slots : InputSound(q.user[r])
    BY DEF Sound, Alters
<1>7. ASSUME NEW r \in Used(q) \ {s}
      PROVE  OutputSound(q.user[r], Arr(q, r), q.got[Conn(q, r)])
    <2>1. q.user[r] = m.user[r]
        BY <1>1 DEF Alters, Used
    <2> QED  BY <1>2, <2>1 DEF Sound
<1>8. q \in Comms
    BY <1>1, <1>5, CommsCounting
<1> QED  BY <1>3, <1>4, <1>5, <1>6, <1>7, <1>8 DEF SoundBut

LEMMA AltersSound ==
    ASSUME NEW m, Sound(m), NEW s \in Used(m), NEW q, Alters(q, m, s), InputSound(q.user[s]),
           OutputSound(q.user[s], Arr(q, s), q.got[Conn(q, s)])
    PROVE  Sound(q)
<1>1. SoundBut(q, s)
    BY AltersSoundBut
<1>2. \A r \in Used(q) : OutputSound(q.user[r], Arr(q, r), q.got[Conn(q, r)])
    BY <1>1 DEF SoundBut
<1> QED  BY <1>1, <1>2 DEF SoundBut, Sound

LEMMA AffectsSoundBut ==
    ASSUME NEW m, Sound(m), NEW s \in Used(m), NEW q, Affects(q, m, s)
    PROVE  SoundBut(q, s)
<1>1. m \in Counting /\ s \in Slots
    BY CommsCounting DEF Sound, Used
<1>2. Alters(q, m, s)
    BY <1>1, AffectsAlters
<1>3. InputSound(q.user[s])
    <2>1. InputSound(m.user[s])
        BY <1>1 DEF Sound
    <2>2. q.user[s].newlines = m.user[s].newlines /\ q.user[s].inbuf = m.user[s].inbuf
        BY DEF Affects
    <2> QED  BY <2>1, <2>2 DEF InputSound
<1> QED  BY <1>2, <1>3, AltersSoundBut

LEMMA AffectsSound ==
    ASSUME NEW m, Sound(m), NEW s \in Used(m), NEW q, Affects(q, m, s),
           OutputSound(q.user[s], Arr(q, s), q.got[Conn(q, s)])
    PROVE  Sound(q)
<1>1. SoundBut(q, s)
    BY AffectsSoundBut
<1>2. \A r \in Used(q) : OutputSound(q.user[r], Arr(q, r), q.got[Conn(q, r)])
    BY <1>1 DEF SoundBut
<1> QED  BY <1>1, <1>2 DEF SoundBut, Sound

---------------------------------------------------------------------------
(* addtoflush() and comm_write().                                          *)

LEMMA AddToFlushIs ==
    ASSUME NEW m \in Counting, NEW s \in Used(m)
    PROVE  LET q == AddToFlush(m, s)
           IN /\ Affects(q, m, s)
              /\ q.user[s] = InFlush(m.user[s], Arr(m, s))
              /\ q.obj = m.obj /\ q.got = m.got /\ q.wait = m.wait /\ q.odone = m.odone
              /\ q.flush = IF m.user[s].flush THEN m.flush ELSE << s >> \o m.flush
<1> DEFINE q == AddToFlush(m, s)
           v == InFlush(m.user[s], Arr(m, s))
<1>1. /\ s \in Slots /\ m.user[s] \in User /\ m.user \in [Slots -> User]
      /\ m.flush \in Seq(Slots)
    BY UsedIs, CountingFields
<1>2. CASE m.user[s].flush
    BY <1>1, <1>2, AffectsNone DEF AddToFlush, InFlush
<1>3. CASE ~m.user[s].flush
    <2>1. v = [m.user[s] EXCEPT !.flush = TRUE, !.outbuf = (Arr(m, s).buffer # << >>)]
        BY <1>3 DEF InFlush
    <2>2. q = [m EXCEPT !.flush = << s >> \o m.flush, !.user = [m.user EXCEPT ![s] = v]]
        BY <1>1, <1>3, <2>1 DEF AddToFlush, Counting
    <2>3. << s >> \o m.flush \in Seq(Slots)
        BY <1>1
    <2>4. /\ v \in User /\ v.oindex = m.user[s].oindex /\ v.odone = m.user[s].odone
          /\ v.newlines = m.user[s].newlines /\ v.inbuf = m.user[s].inbuf
        <3> DEFINE u == m.user[s]
                   o == Arr(m, s)
        <3>1. u \in User
            BY <1>1
        <3> HIDE DEF u, o
        <3>2. /\ InFlush(u, o) \in User /\ InFlush(u, o).oindex = u.oindex
              /\ InFlush(u, o).odone = u.odone
              /\ InFlush(u, o).newlines = u.newlines /\ InFlush(u, o).inbuf = u.inbuf
            BY <3>1, InFlushIs
        <3> QED  BY <3>2 DEF u, o
    <2> HIDE DEF v, q
    <2>5. /\ q \in Counting
          /\ q.user = [m.user EXCEPT ![s] = v] /\ q.flush = << s >> \o m.flush
          /\ q.ring = m.ring /\ q.freeuser = m.freeuser /\ q.newlines = m.newlines
          /\ q.odone = m.odone /\ q.nusers = m.nusers /\ q.wait = m.wait
          /\ q.obj = m.obj /\ q.got = m.got
        BY <1>1, <2>2, <2>3, <2>4 DEF Counting
    <2>6. q.user[s] = v /\ \A r \in Slots \ {s} : q.user[r] = m.user[r]
        BY <1>1, <2>5
    <2>7. m.odone \in Int /\ D(m.user[s].odone) \in Int
        BY CountingFields DEF D
    <2>8. Affects(q, m, s)
        BY <2>4, <2>5, <2>6, <2>7 DEF Affects, Conn
    <2> QED  BY <1>3, <2>5, <2>6, <2>8 DEF q, v
<1> QED  BY <1>1, <1>2, <1>3, UserFields

BufferIs(q, m, s, bytes) ==
    /\ Affects(q, m, s)
    /\ Arr(q, s) = [Arr(m, s) EXCEPT !.buffer = bytes, !.first = FALSE]
    /\ q.user = m.user /\ q.got = m.got /\ q.wait = m.wait /\ q.odone = m.odone
    /\ q.flush = m.flush

LEMMA PutBufferIs ==
    ASSUME NEW m \in Counting, NEW s \in Used(m), NEW bytes \in Seq(Output)
    PROVE  BufferIs(PutBuffer(m, s, bytes), m, s, bytes)
<1> DEFINE q == PutBuffer(m, s, bytes)
           c == Conn(m, s)
           p == [Arr(m, s) EXCEPT !.buffer = bytes, !.first = FALSE]
<1>1. s \in Slots /\ c \in Conns /\ Arr(m, s) \in Object /\ m.obj \in [Conns -> Object]
      /\ Arr(m, s) = m.obj[c]
    BY UsedIs, CountingFields DEF Arr
<1>2. p \in Object /\ p.slot = Arr(m, s).slot
    BY <1>1, BufferOf
<1>3. q = [m EXCEPT !.obj = [m.obj EXCEPT ![c] = p]]
    BY <1>1 DEF PutBuffer, Counting
<1> HIDE DEF p, q, c
<1>4. /\ q \in Counting /\ q.obj = [m.obj EXCEPT ![c] = p]
      /\ q.user = m.user /\ q.flush = m.flush
      /\ q.ring = m.ring /\ q.freeuser = m.freeuser /\ q.newlines = m.newlines
      /\ q.odone = m.odone /\ q.nusers = m.nusers /\ q.wait = m.wait /\ q.got = m.got
    BY <1>1, <1>2, <1>3 DEF Counting
<1>5. q.obj[c] = p /\ \A d \in Conns \ {c} : q.obj[d] = m.obj[d]
    BY <1>1, <1>4
<1>6. Conn(q, s) = c
    BY <1>4 DEF c, Conn
<1>7. m.odone \in Int /\ D(m.user[s].odone) \in Int
    BY CountingFields DEF D
<1>8. Affects(q, m, s)
    BY <1>1, <1>2, <1>4, <1>5, <1>6, <1>7 DEF Affects, c
<1> QED  BY <1>4, <1>5, <1>6, <1>8 DEF q, p, Arr, BufferIs

BufferIsNew(q, m, s, b) ==
    /\ Affects(q, m, s)
    /\ Arr(q, s) = [Arr(m, s) EXCEPT !.buffer = << b >>, !.first = FALSE]
    /\ q.user[s] = [m.user[s] EXCEPT !.odone = FALSE, !.output = TRUE]
    /\ q.got = m.got /\ q.wait = m.wait
    /\ q.flush = m.flush

LEMMA NewBufferIs ==
    ASSUME NEW m \in Counting, NEW s \in Used(m), NEW b \in Output
    PROVE  BufferIsNew(NewBuffer(m, s, b), m, s, b)
<1> DEFINE v == [m.user[s] EXCEPT !.odone = FALSE, !.output = TRUE]
           r == [m EXCEPT !.user[s].odone = FALSE,
                          !.odone = IF m.user[s].odone THEN @ - 1 ELSE @,
                          !.user[s].output = TRUE]
           n == IF m.user[s].odone THEN m.odone - 1 ELSE m.odone
<1>1. /\ s \in Slots /\ m.user[s] \in User /\ m.user \in [Slots -> User]
      /\ m.odone \in Int /\ m.user[s].odone \in BOOLEAN
    BY UsedIs, CountingFields, UserFields
<1>2. /\ v \in User /\ v.oindex = m.user[s].oindex /\ v.odone = FALSE
      /\ v.newlines = m.user[s].newlines /\ v.inbuf = m.user[s].inbuf
    BY <1>1 DEF User
<1>3. r = [m EXCEPT !.odone = n, !.user = [m.user EXCEPT ![s] = v]]
    BY <1>1 DEF Counting
<1>4. n \in Int /\ n = m.odone + D(FALSE) - D(m.user[s].odone)
    BY <1>1 DEF D
<1> HIDE DEF r, v, n
<1>5. /\ r \in Counting /\ r.user = [m.user EXCEPT ![s] = v] /\ r.odone = n
      /\ r.flush = m.flush
      /\ r.ring = m.ring /\ r.freeuser = m.freeuser /\ r.newlines = m.newlines
      /\ r.nusers = m.nusers /\ r.wait = m.wait /\ r.got = m.got /\ r.obj = m.obj
    BY <1>1, <1>2, <1>3, <1>4 DEF Counting
<1>6. r.user[s] = v /\ \A x \in Slots \ {s} : r.user[x] = m.user[x]
    BY <1>1, <1>5
<1>7. Conn(r, s) = Conn(m, s)
    BY <1>2, <1>6 DEF Conn
<1>8. Affects(r, m, s)
    BY <1>2, <1>4, <1>5, <1>6, <1>7 DEF Affects
<1>9. s \in Used(r) /\ Arr(r, s) = Arr(m, s)
    BY <1>1, <1>5, <1>7 DEF Used, Arr
<1> DEFINE bytes == << b >>
<1>10. bytes \in Seq(Output)
    OBVIOUS
<1> HIDE DEF bytes
<1> DEFINE q == PutBuffer(r, s, bytes)
<1>11. NewBuffer(m, s, b) = q
    BY DEF NewBuffer, r, bytes
<1>12. /\ Affects(q, r, s)
       /\ Arr(q, s) = [Arr(r, s) EXCEPT !.buffer = bytes, !.first = FALSE]
       /\ q.user = r.user /\ q.got = r.got /\ q.wait = r.wait /\ q.flush = r.flush
    <2>1. r \in Counting
        BY <1>5
    <2>2. BufferIs(q, r, s, bytes)
        BY <1>9, <1>10, <2>1, PutBufferIs
    <2> HIDE DEF q
    <2> QED  BY <2>2 DEF BufferIs
<1> HIDE DEF q
<1>13. Affects(q, m, s)
    BY <1>8, <1>12, AffectsMore
<1> QED  BY <1>5, <1>6, <1>9, <1>11, <1>12, <1>13 DEF v, bytes, BufferIsNew

(* comm_write()                                                            *)
WriteIsDone(q, m, s, b) ==
    /\ Affects(q, m, s)
    /\ q.user[s] = WriteUser(m.user[s], Arr(m, s))
    /\ Arr(q, s) = WriteObject(m.user[s], Arr(m, s), b)
    /\ q.got = m.got /\ q.wait = m.wait
    /\ q.flush = IF m.user[s].flush THEN m.flush ELSE << s >> \o m.flush

LEMMA WriteIs ==
    ASSUME NEW m \in Counting, NEW s \in Used(m), NEW b \in Output,
           BufferSound(m.user[s], Arr(m, s))
    PROVE  /\ WriteIsDone(Write(m, s, b), m, s, b)
           /\ IsWritten(m, s) <=> RoomBy(m.user[s], Arr(m, s))
<1> DEFINE a == AddToFlush(m, s)
           q == Buffered(a, s, b)
           u == m.user[s]
           o == Arr(m, s)
<1>1. /\ Affects(a, m, s) /\ a.user[s] = InFlush(u, o)
      /\ a.obj = m.obj /\ a.got = m.got /\ a.wait = m.wait
      /\ a.flush = IF m.user[s].flush THEN m.flush ELSE << s >> \o m.flush
    BY AddToFlushIs
<1>2. Write(m, s, b) = q
    BY DEF Write
<1>3. u \in User /\ o \in Object /\ BufferSound(u, o) /\ s \in Slots
    BY UsedIs
<1> HIDE DEF a, u, o
<1>4. Conn(a, s) = Conn(m, s) /\ a \in Counting /\ s \in Used(a) /\ Arr(a, s) = o
    <2>1. Conn(a, s) = Conn(m, s) /\ a \in Counting
        BY <1>1 DEF Affects
    <2> QED  BY <1>1, <1>3, <2>1 DEF Used, Arr, o
<1>5. Unsent(a, s) = UnsentBy(InFlush(u, o), o)
    BY <1>1, <1>4 DEF Unsent, IsFirst, UnsentBy
<1>6. HasRoom(a, s) <=> RoomBy(u, o)
    BY <1>5 DEF HasRoom, RoomBy
<1>7. InFlush(u, o) \in User /\ BufferSound(InFlush(u, o), o)
    BY <1>3, InFlushIs, InFlushSound
<1> DEFINE x == UnsentBy(InFlush(u, o), o)
           y == Append(x, b)
<1>8. y \in Seq(Output)
    <2>1. x \in Seq(Output)
        BY <1>3, <1>7, UnsentIs
    <2> QED  BY <2>1
<1> HIDE DEF x, y
<1>9. /\ Affects(q, a, s) /\ q.user[s] = WriteUser(u, o)
      /\ Arr(q, s) = WriteObject(u, o, b)
      /\ q.got = a.got /\ q.wait = a.wait /\ q.flush = a.flush
    <2>1. CASE o.buffer = << >>
        <3>1. q = NewBuffer(a, s, b)
            BY <1>4, <2>1 DEF Buffered
        <3>2. BufferIsNew(q, a, s, b)
            BY <1>4, <3>1, NewBufferIs
        <3> HIDE DEF q
        <3> QED  BY <1>1, <1>4, <2>1, <3>2 DEF WriteUser, WriteObject, BufferIsNew
    <2>2. CASE o.buffer # << >> /\ RoomBy(u, o)
        <3>1. q = PutBuffer(a, s, y)
            BY <1>4, <1>5, <1>6, <2>2 DEF Buffered, x, y
        <3>2. BufferIs(q, a, s, y)
            BY <1>4, <1>8, <3>1, PutBufferIs
        <3> HIDE DEF q
        <3>3. /\ Affects(q, a, s)
              /\ Arr(q, s) = [o EXCEPT !.buffer = y, !.first = FALSE]
              /\ q.user = a.user /\ q.got = a.got /\ q.wait = a.wait /\ q.flush = a.flush
            BY <1>4, <3>2 DEF BufferIs
        <3> QED  BY <1>1, <2>2, <3>3 DEF WriteUser, WriteObject, x, y
    <2>3. CASE o.buffer # << >> /\ ~RoomBy(u, o)
        <3>1. q = a
            BY <1>4, <1>6, <2>3 DEF Buffered
        <3>2. Affects(a, a, s)
            BY <1>4, AffectsNone
        <3> QED  BY <1>1, <1>4, <2>3, <3>1, <3>2 DEF WriteUser, WriteObject
    <2> QED  BY <2>1, <2>2, <2>3
<1> HIDE DEF q
<1>10. Affects(q, m, s)
    BY <1>1, <1>9, AffectsMore
<1>11. WriteIsDone(q, m, s, b)
    BY <1>1, <1>9, <1>10 DEF WriteIsDone, u, o
<1>12. IsWritten(m, s) <=> RoomBy(u, o)
    BY <1>6 DEF IsWritten, a
<1> QED  BY <1>2, <1>11, <1>12 DEF u, o

---------------------------------------------------------------------------
(* One user and its object changed at once.                                *)

Put(m, s, v, p, g, W) ==
    [m EXCEPT !.user = [m.user EXCEPT ![s] = v],
              !.obj = [m.obj EXCEPT ![Conn(m, s)] = p],
              !.got = [m.got EXCEPT ![Conn(m, s)] = g],
              !.wait = W,
              !.odone = m.odone + D(v.odone) - D(m.user[s].odone)]

PutIsDone(q, m, s, v, p, g, W) ==
    /\ Affects(q, m, s) /\ q.user[s] = v /\ Arr(q, s) = p /\ q.got[Conn(m, s)] = g
    /\ q.wait = W /\ q.flush = m.flush

(* v and p may come after u and o.                                         *)
Follows(v, p, u, o) ==
    /\ v \in User /\ p \in Object
    /\ v.oindex = u.oindex /\ v.newlines = u.newlines /\ v.inbuf = u.inbuf
    /\ p.slot = o.slot

LEMMA PutIs ==
    ASSUME NEW m \in Counting, NEW s \in Used(m), NEW v, NEW p, NEW g \in Got,
           NEW W \in SUBSET Conns,
           Follows(v, p, m.user[s], Arr(m, s)),
           \A d \in Conns \ {Conn(m, s)} : d \in W <=> d \in m.wait
    PROVE  PutIsDone(Put(m, s, v, p, g, W), m, s, v, p, g, W)
<1> DEFINE q == Put(m, s, v, p, g, W)
           c == Conn(m, s)
           n == m.odone + D(v.odone) - D(m.user[s].odone)
<1>1. /\ s \in Slots /\ c \in Conns /\ Arr(m, s) = m.obj[c]
      /\ m.user \in [Slots -> User] /\ m.obj \in [Conns -> Object] /\ m.got \in [Conns -> Got]
    BY UsedIs, CountingFields DEF Arr
<1>2. /\ v \in User /\ p \in Object /\ v.oindex = c
      /\ v.newlines = m.user[s].newlines /\ v.inbuf = m.user[s].inbuf
      /\ p.slot = m.obj[c].slot
    BY <1>1 DEF Follows, Conn
<1>3. n \in Int
    <2>1. m.odone \in Int /\ D(v.odone) \in Int /\ D(m.user[s].odone) \in Int
        BY CountingFields DEF D
    <2> QED  BY <2>1
<1>4. q = [m EXCEPT !.user = [m.user EXCEPT ![s] = v], !.obj = [m.obj EXCEPT ![c] = p],
                    !.got = [m.got EXCEPT ![c] = g], !.wait = W, !.odone = n]
    BY DEF Put
<1> HIDE DEF q, n
<1>5. /\ q \in Counting
      /\ q.user = [m.user EXCEPT ![s] = v] /\ q.obj = [m.obj EXCEPT ![c] = p]
      /\ q.got = [m.got EXCEPT ![c] = g] /\ q.wait = W /\ q.odone = n
      /\ q.flush = m.flush /\ q.ring = m.ring /\ q.freeuser = m.freeuser
      /\ q.newlines = m.newlines /\ q.nusers = m.nusers
    <2> HIDE DEF c
    <2> QED  BY <1>1, <1>2, <1>3, <1>4 DEF Counting
<1>6. /\ q.user[s] = v /\ \A r \in Slots \ {s} : q.user[r] = m.user[r]
      /\ q.obj[c] = p /\ q.got[c] = g
      /\ \A d \in Conns \ {c} : q.obj[d] = m.obj[d] /\ q.got[d] = m.got[d]
    <2> HIDE DEF c
    <2> QED  BY <1>1, <1>5
<1>7. Conn(q, s) = c
    BY <1>2, <1>6 DEF Conn
<1>8. Affects(q, m, s)
    BY <1>2, <1>5, <1>6, <1>7 DEF Affects, n
<1> QED  BY <1>5, <1>6, <1>7, <1>8 DEF PutIsDone, q, Arr

(* What stays as it is is put back.                                        *)
LEMMA Same ==
    ASSUME NEW m \in Counting, NEW s \in Used(m)
    PROVE  /\ [m.user EXCEPT ![s] = m.user[s]] = m.user
           /\ [m.obj EXCEPT ![Conn(m, s)] = Arr(m, s)] = m.obj
           /\ [m.got EXCEPT ![Conn(m, s)] = m.got[Conn(m, s)]] = m.got
           /\ m.odone + D(m.user[s].odone) - D(m.user[s].odone) = m.odone
<1>1. /\ m.user \in [Slots -> User] /\ m.obj \in [Conns -> Object] /\ m.got \in [Conns -> Got]
      /\ m.odone \in Int
    BY CountingFields
<1>2. D(m.user[s].odone) \in Int
    BY DEF D
<1> QED  BY <1>1, <1>2, UsedIs DEF Arr

---------------------------------------------------------------------------
(* comm_uflush(), on one user.                                             *)

(* u and o, whose peer got g, become v and p, and the peer got h.          *)
Sends(v, p, h, u, o) ==
    /\ Follows(v, p, u, o) /\ h \in Got /\ OutputSound(v, p, h)
    /\ v.flush = u.flush /\ v.outbuf = u.outbuf /\ v.echo = u.echo /\ v.blocked = u.blocked
    /\ p.user = o.user /\ p.echo = o.echo /\ p.blocked = o.blocked /\ p.first = o.first

SendUser(u, n) == [u EXCEPT !.osdone = n]

DrainUser(u) == [u EXCEPT !.osdone = 0, !.output = FALSE, !.odone = TRUE]

QuietUser(u) == [u EXCEPT !.output = FALSE]

EmptyObject(o) == [o EXCEPT !.buffer = << >>]

LEMMA MinTwo ==
    ASSUME NEW a \in Nat, NEW b \in Nat
    PROVE  Min({a, b}) = IF a <= b THEN a ELSE b
<1> DEFINE x == IF a <= b THEN a ELSE b
<1>1. x \in {a, b} /\ \A y \in {a, b} : x <= y
    OBVIOUS
<1>2. \A z \in {a, b} : (\A y \in {a, b} : z <= y) => z = x
    OBVIOUS
<1> HIDE DEF x
<1>3. Min({a, b}) = x
    BY <1>1, <1>2 DEF Min
<1> QED  BY <1>3 DEF x

LEMMA SendSound ==
    ASSUME NEW u \in User, NEW o \in Object, NEW g \in Got, OutputSound(u, o, g), ~u.outbuf,
           NEW n \in Nat, u.osdone <= n, n < Len(o.buffer)
    PROVE  Sends(SendUser(u, n), o, Reads(g, SubSeq(o.buffer, u.osdone + 1, n)), u, o)
<1> DEFINE v == SendUser(u, n)
           h == Reads(g, SubSeq(o.buffer, u.osdone + 1, n))
<1>1. /\ u.osdone \in Nat /\ o.buffer \in Seq(Output) /\ Len(o.buffer) \in Nat
      /\ Len(o.buffer) <= MAX_STRLEN
    BY UserFields, ObjectFields DEF OutputSound, BufferSound
<1>2. n \in 0 .. MAX_STRLEN
    BY <1>1, ConstantsAre
<1>3. /\ v \in User /\ v.oindex = u.oindex /\ v.newlines = u.newlines /\ v.inbuf = u.inbuf
      /\ v.flush = u.flush /\ v.outbuf = u.outbuf /\ v.echo = u.echo /\ v.blocked = u.blocked
      /\ v.odone = u.odone /\ v.osdone = n
    BY <1>2 DEF User, SendUser
<1>4. SubSeq(o.buffer, u.osdone + 1, n) \in Seq(Output)
    BY <1>1, SubSeqElem
<1>5. h \in Got
    BY <1>4, ReadsType
<1>6. SentBy(u, o) = u.osdone /\ SentBy(v, o) = n
    BY <1>3 DEF SentBy
<1>7. End(v, o, h) = End(u, o, g)
    BY <1>1, <1>6, ReadsOn DEF End, Rest
<1> HIDE DEF v, h
<1>8. BufferSound(v, o)
    BY <1>1, <1>3, <1>6 DEF OutputSound, BufferSound
<1>9. OutputSound(v, o, h)
    BY <1>3, <1>7, <1>8 DEF OutputSound, FlushedSound, OrderSound, EchoSound
<1> QED  BY <1>3, <1>5, <1>9 DEF Sends, Follows, v, h

LEMMA DrainSound ==
    ASSUME NEW u \in User, NEW o \in Object, NEW g \in Got, OutputSound(u, o, g), ~u.outbuf
    PROVE  Sends(DrainUser(u), EmptyObject(o),
                 Reads(g, SubSeq(o.buffer, u.osdone + 1, Len(o.buffer))), u, o)
<1> DEFINE v == DrainUser(u)
           p == EmptyObject(o)
           h == Reads(g, SubSeq(o.buffer, u.osdone + 1, Len(o.buffer)))
           e == << >>
<1>1. /\ u.osdone \in Nat /\ o.buffer \in Seq(Output) /\ Len(o.buffer) \in Nat
      /\ u.osdone <= Len(o.buffer)
    BY UserFields, ObjectFields DEF OutputSound, BufferSound, SentBy
<1>2. 0 \in 0 .. MAX_STRLEN
    BY ConstantsAre
<1>3. /\ v \in User /\ v.oindex = u.oindex /\ v.newlines = u.newlines /\ v.inbuf = u.inbuf
      /\ v.flush = u.flush /\ v.outbuf = u.outbuf /\ v.echo = u.echo /\ v.blocked = u.blocked
      /\ v.osdone = 0
    BY <1>2 DEF User, DrainUser
<1>4. SubSeq(o.buffer, u.osdone + 1, Len(o.buffer)) \in Seq(Output)
    BY <1>1, SubSeqElem
<1>5. h \in Got
    BY <1>4, ReadsType
<1>6. e \in Seq(Output) /\ Len(e) = 0
    OBVIOUS
<1>7. /\ p \in Object /\ p.slot = o.slot /\ p.user = o.user /\ p.echo = o.echo
      /\ p.blocked = o.blocked /\ p.first = o.first /\ p.written = o.written /\ p.buffer = e
    BY <1>6 DEF Object, EmptyObject
<1>8. SentBy(u, o) = u.osdone /\ SentBy(v, p) = 0
    BY <1>3 DEF SentBy
<1>9. h = End(u, o, g)
    BY <1>8 DEF End, Rest
<1> HIDE DEF v, h, p, e
<1>10. End(v, p, h) = h
    <2>1. SubSeq(e, 0 + 1, 0) = e
        BY <1>6 DEF e
    <2>2. Rest(v, p) = e
        BY <1>6, <1>7, <1>8, <2>1 DEF Rest
    <2>3. Reads(h, e) = h
        BY <1>5, ReadsNone DEF e
    <2> QED  BY <2>2, <2>3 DEF End
<1>11. BufferSound(v, p)
    <2>1. Len(p.buffer) <= MAX_STRLEN
        BY <1>6, <1>7, ConstantsAre
    <2>2. ~v.flush => p.first
        BY <1>3, <1>7 DEF OutputSound, BufferSound
    <2>3. SentBy(v, p) <= Len(p.buffer)
        BY <1>6, <1>7, <1>8
    <2> QED  BY <1>3, <1>7, <2>1, <2>2, <2>3 DEF BufferSound, e
<1>12. OutputSound(v, p, h)
    BY <1>3, <1>7, <1>9, <1>10, <1>11 DEF OutputSound, FlushedSound, OrderSound, EchoSound
<1> QED  BY <1>3, <1>5, <1>7, <1>12 DEF Sends, Follows, v, h, p

LEMMA QuietSound ==
    ASSUME NEW u \in User, NEW o \in Object, NEW g \in Got, OutputSound(u, o, g)
    PROVE  Sends(QuietUser(u), o, g, u, o)
<1> DEFINE v == QuietUser(u)
<1>1. /\ v \in User /\ v.oindex = u.oindex /\ v.newlines = u.newlines /\ v.inbuf = u.inbuf
      /\ v.flush = u.flush /\ v.outbuf = u.outbuf /\ v.echo = u.echo /\ v.blocked = u.blocked
      /\ v.osdone = u.osdone /\ v.odone = u.odone
    BY DEF User, QuietUser
<1> HIDE DEF v
<1>2. SentBy(v, o) = SentBy(u, o)
    BY <1>1 DEF SentBy
<1>3. End(v, o, g) = End(u, o, g) /\ BufferSound(v, o)
    BY <1>1, <1>2 DEF End, Rest, BufferSound, OutputSound
<1>4. OutputSound(v, o, g)
    BY <1>1, <1>3 DEF OutputSound, FlushedSound, OrderSound, EchoSound
<1> QED  BY <1>1, <1>4 DEF Sends, Follows, v

(* comm_uflush() has done for user s what the connection takes now.        *)
OutputIs(q, m, s) ==
    /\ Affects(q, m, s) /\ Sound(q) /\ q.flush = m.flush
    /\ q.user[s].flush = m.user[s].flush /\ q.user[s].outbuf = m.user[s].outbuf
    /\ q.user[s].echo = m.user[s].echo /\ q.user[s].blocked = m.user[s].blocked
    /\ Arr(q, s).user = Arr(m, s).user /\ Arr(q, s).echo = Arr(m, s).echo
    /\ Arr(q, s).blocked = Arr(m, s).blocked /\ Arr(q, s).first = Arr(m, s).first
    /\ Stuck(q, s)

LEMMA SoundIs ==
    ASSUME NEW m, Sound(m), NEW s \in Used(m)
    PROVE  /\ m \in Comms /\ m \in Counting /\ Linked(m) /\ Shares(m) /\ Sums(m)
           /\ s \in Slots /\ Conn(m, s) \in Conns
           /\ m.user[s] \in User /\ Arr(m, s) \in Object /\ m.got[Conn(m, s)] \in Got
           /\ OutputSound(m.user[s], Arr(m, s), m.got[Conn(m, s)])
BY UsedIs, CommsCounting DEF Sound

LEMMA PutSends ==
    ASSUME NEW m, Sound(m), NEW s \in Used(m), NEW v, NEW p, NEW h, NEW W \in SUBSET Conns,
           \A d \in Conns \ {Conn(m, s)} : d \in W <=> d \in m.wait,
           Sends(v, p, h, m.user[s], Arr(m, s)),
           p.buffer = << >> \/ Conn(m, s) \in W \/ ~v.output
    PROVE  OutputIs(Put(m, s, v, p, h, W), m, s)
<1> DEFINE q == Put(m, s, v, p, h, W)
<1>1. m \in Counting /\ s \in Slots
    BY SoundIs
<1>2. PutIsDone(q, m, s, v, p, h, W)
    <2>1. Follows(v, p, m.user[s], Arr(m, s)) /\ h \in Got
        BY DEF Sends
    <2> QED  BY <1>1, <2>1, PutIs
<1> HIDE DEF q
<1>3. Conn(q, s) = Conn(m, s)
    BY <1>2 DEF PutIsDone, Affects
<1>4. Sound(q)
    <2>1. OutputSound(q.user[s], Arr(q, s), q.got[Conn(q, s)])
        BY <1>2, <1>3 DEF PutIsDone, Sends
    <2>2. Affects(q, m, s)
        BY <1>2 DEF PutIsDone
    <2> QED  BY <2>1, <2>2, AffectsSound
<1>5. Stuck(q, s)
    BY <1>2, <1>3 DEF PutIsDone, Stuck
<1> QED  BY <1>2, <1>4, <1>5 DEF PutIsDone, OutputIs, Sends, q

DrainedOf(r, s, c) ==
    [r EXCEPT !.user[s].osdone = 0, !.user[s].output = FALSE, !.user[s].odone = TRUE,
              !.odone = @ + 1, !.obj[c].buffer = << >>]

LEMMA DrainedIs ==
    ASSUME NEW r \in Counting, NEW s \in Slots, NEW c \in Conns
    PROVE  DrainedOf(r, s, c)
             = [r EXCEPT !.user = [r.user EXCEPT ![s] = DrainUser(r.user[s])],
                         !.odone = r.odone + 1,
                         !.obj = [r.obj EXCEPT ![c] = EmptyObject(r.obj[c])]]
<1> DEFINE a == [r EXCEPT !.user[s].osdone = 0]
           b == [a EXCEPT !.user[s].output = FALSE]
           d == [b EXCEPT !.user[s].odone = TRUE]
           e == << >>
<1>1. 0 \in 0 .. MAX_STRLEN /\ e \in Seq(Output)
    BY ConstantsAre
<1>2. r.user[s] \in User /\ r.user \in [Slots -> User] /\ r.obj \in [Conns -> Object]
    BY CountingFields
<1> DEFINE u == [r.user[s] EXCEPT !.osdone = 0]
           v == [u EXCEPT !.output = FALSE]
           w == [v EXCEPT !.odone = TRUE]
<1>3. u \in User /\ v \in User /\ w \in User /\ w = DrainUser(r.user[s])
    BY <1>1, <1>2 DEF User, DrainUser
<1> HIDE DEF u, v, w
<1>4. a \in Counting /\ a = [r EXCEPT !.user = [r.user EXCEPT ![s] = u]]
    BY <1>2, <1>3 DEF Counting, u
<1> HIDE DEF a
<1>5. a.user = [r.user EXCEPT ![s] = u] /\ a.user[s] = u
    BY <1>2, <1>4 DEF Counting
<1>6. b \in Counting /\ b = [a EXCEPT !.user = [a.user EXCEPT ![s] = v]]
    BY <1>3, <1>4, <1>5 DEF Counting, v
<1> HIDE DEF b
<1>7. b.user = [a.user EXCEPT ![s] = v] /\ b.user[s] = v
    BY <1>4, <1>5, <1>6 DEF Counting
<1>8. d \in Counting /\ d = [b EXCEPT !.user = [b.user EXCEPT ![s] = w]]
    BY <1>3, <1>6, <1>7 DEF Counting, w
<1> HIDE DEF d
<1>9. [b.user EXCEPT ![s] = w] = [r.user EXCEPT ![s] = w]
    BY <1>2, <1>3, <1>5, <1>7
<1>10. d = [r EXCEPT !.user = [r.user EXCEPT ![s] = w]]
    BY <1>4, <1>6, <1>8, <1>9 DEF Counting
<1>11. d.odone = r.odone /\ d.obj = r.obj /\ d.user = [r.user EXCEPT ![s] = w]
    BY <1>2, <1>3, <1>10 DEF Counting
<1>12. [d EXCEPT !.odone = @ + 1, !.obj[c].buffer = << >>]
         = [d EXCEPT !.odone = r.odone + 1, !.obj = [r.obj EXCEPT ![c] = EmptyObject(r.obj[c])]]
    BY <1>1, <1>2, <1>8, <1>11 DEF Counting, EmptyObject
<1>13. DrainedOf(r, s, c) = [d EXCEPT !.odone = @ + 1, !.obj[c].buffer = << >>]
    BY DEF d, b, a, DrainedOf
<1>14. [d EXCEPT !.odone = r.odone + 1, !.obj = [r.obj EXCEPT ![c] = EmptyObject(r.obj[c])]]
         = [r EXCEPT !.user = [r.user EXCEPT ![s] = w], !.odone = r.odone + 1,
                     !.obj = [r.obj EXCEPT ![c] = EmptyObject(r.obj[c])]]
    BY <1>8, <1>10 DEF Counting
<1> QED  BY <1>3, <1>12, <1>13, <1>14

LEMMA FlushOutputIs ==
    ASSUME NEW m, Sound(m), NEW s \in Used(m), NEW take \in 0 .. MAX_STRLEN, NEW fails \in BOOLEAN,
           m.user[s].outbuf => Stuck(m, s)
    PROVE  OutputIs(FlushOutput(m, s, take, fails), m, s)
<1> DEFINE u == m.user[s]
           o == Arr(m, s)
           g == m.got[Conn(m, s)]
           c == Conn(m, s)
           q == FlushOutput(m, s, take, fails)
<1> SUFFICES OutputIs(q, m, s)
    OBVIOUS
<1>1. /\ m \in Counting /\ s \in Slots /\ c \in Conns
      /\ u \in User /\ o \in Object /\ g \in Got /\ OutputSound(u, o, g)
    BY SoundIs
<1>2. /\ m.user \in [Slots -> User] /\ m.obj \in [Conns -> Object] /\ m.got \in [Conns -> Got]
      /\ m.wait \in SUBSET Conns /\ m.odone \in Int
    BY <1>1, CountingFields
<1>3. /\ [m.user EXCEPT ![s] = u] = m.user /\ [m.obj EXCEPT ![c] = o] = m.obj
      /\ [m.got EXCEPT ![c] = g] = m.got
      /\ m.odone + D(u.odone) - D(u.odone) = m.odone
    BY <1>1, Same
<1>4. ASSUME Stuck(m, s), q = m
      PROVE  OutputIs(q, m, s)
    <2>1. Affects(m, m, s)
        BY <1>1, AffectsNone
    <2> HIDE DEF q
    <2> QED  BY <1>4, <2>1 DEF OutputIs
<1>5. CASE ~u.output
    <2>1. q = m
        BY <1>5 DEF FlushOutput
    <2>2. Stuck(m, s)
        BY <1>5 DEF Stuck
    <2> QED  BY <1>4, <2>1, <2>2
<1>6. CASE u.output /\ o.buffer # << >> /\ c \in m.wait
    <2>1. q = m
        BY <1>6 DEF FlushOutput, Uflush
    <2>2. Stuck(m, s)
        BY <1>6 DEF Stuck
    <2> QED  BY <1>4, <2>1, <2>2
<1>7. CASE u.output /\ ~(o.buffer # << >> /\ c \in m.wait) /\ (o.buffer = << >> \/ fails)
    <2>1. q = [m EXCEPT !.user[s].output = FALSE]
        BY <1>7 DEF FlushOutput, Uflush
    <2>2. q = Put(m, s, QuietUser(u), o, g, m.wait)
        <3>1. D(QuietUser(u).odone) = D(u.odone)
            BY <1>1 DEF QuietUser, User
        <3> QED  BY <1>1, <1>2, <1>3, <2>1, <3>1 DEF Put, QuietUser, Counting
    <2>3. Sends(QuietUser(u), o, g, u, o) /\ ~QuietUser(u).output
        <3>1. ~QuietUser(u).output
            BY <1>1 DEF QuietUser, User
        <3> QED  BY <1>1, <3>1, QuietSound
    <2> HIDE DEF q, u, o, g, c
    <2> QED  BY <1>2, <2>2, <2>3, PutSends DEF u, o, g, c
<1> DEFINE n == Min({u.osdone + take, Len(o.buffer)})
           h == Reads(g, SubSeq(o.buffer, u.osdone + 1, n))
<1>8. CASE u.output /\ o.buffer # << >> /\ c \notin m.wait /\ ~fails
    <2>1. q = UflushBuffer(m, s, o.buffer, n)
        BY <1>8 DEF FlushOutput, Uflush
    <2>2. ~u.outbuf /\ ~u.odone
        <3>1. ~Stuck(m, s)
            BY <1>8 DEF Stuck
        <3> QED  BY <1>1, <1>8, <3>1 DEF OutputSound, BufferSound
    <2>3. u.osdone \in Nat /\ Len(o.buffer) \in Nat /\ u.osdone <= Len(o.buffer)
        BY <1>1, <2>2, UserFields, ObjectFields DEF OutputSound, BufferSound, SentBy
    <2>4. n \in Nat /\ u.osdone <= n /\ n <= Len(o.buffer)
        <3>1. u.osdone + take \in Nat /\ u.osdone <= u.osdone + take
            BY <2>3, ConstantsAre
        <3>2. n = IF u.osdone + take <= Len(o.buffer) THEN u.osdone + take ELSE Len(o.buffer)
            BY <2>3, <3>1, MinTwo
        <3> HIDE DEF n
        <3> QED  BY <2>3, <3>1, <3>2
    <2> HIDE DEF n
    <2> DEFINE r == Sent(m, s, o.buffer, n)
    <2>5. r = [m EXCEPT !.got = [m.got EXCEPT ![c] = h],
                        !.user = [m.user EXCEPT ![s] = SendUser(u, n)]]
        BY <1>1, <1>2 DEF Sent, SendUser, Counting
    <2>6. CASE n = Len(o.buffer)
        <3>1. q = Drained(r, s)
            BY <2>1, <2>6 DEF UflushBuffer
        <3>2. Conn(r, s) = c
            BY <1>1, <1>2, <2>5 DEF Counting, Conn, SendUser, User
        <3>3. q = [m EXCEPT !.got = [m.got EXCEPT ![c] = h],
                            !.user = [m.user EXCEPT ![s] = DrainUser(u)],
                            !.odone = m.odone + 1,
                            !.obj = [m.obj EXCEPT ![c] = EmptyObject(o)]]
            <4>1. q = DrainedOf(r, s, c)
                BY <3>1, <3>2 DEF Drained, DrainedOf
            <4> HIDE DEF r, q
            <4>2. /\ r.user = [m.user EXCEPT ![s] = SendUser(u, n)]
                  /\ r.odone = m.odone /\ r.obj = m.obj
                BY <2>5, <1>1, <1>2 DEF Counting
            <4>4. q = [r EXCEPT !.user = [r.user EXCEPT ![s] = DrainUser(u)],
                                !.odone = m.odone + 1,
                                !.obj = [m.obj EXCEPT ![c] = EmptyObject(o)]]
                <5>1. r \in Counting
                    <6>1. SendUser(u, n) \in User
                        <7>1. n \in 0 .. MAX_STRLEN
                            BY <1>1, <2>3, <2>4, ConstantsAre DEF OutputSound, BufferSound
                        <7> QED  BY <1>1, <7>1 DEF SendUser, User
                    <6>2. h \in Got
                        <7>1. o.buffer \in Seq(Output)
                            BY <1>1, ObjectFields
                        <7>2. SubSeq(o.buffer, u.osdone + 1, n) \in Seq(Output)
                            BY <2>3, <2>4, <7>1, SubSeqElem
                        <7> QED  BY <1>1, <7>2, ReadsType
                    <6> HIDE DEF h
                    <6> QED  BY <1>1, <1>2, <2>5, <6>1, <6>2 DEF Counting
                <5>2. DrainUser(r.user[s]) = DrainUser(u)
                    BY <1>1, <1>2, <4>2 DEF DrainUser, SendUser, User
                <5>3. r.obj[c] = o /\ r.odone = m.odone /\ r.obj = m.obj
                    BY <1>1, <4>2 DEF Arr
                <5> HIDE DEF u, o, c
                <5>4. q = [r EXCEPT !.user = [r.user EXCEPT ![s] = DrainUser(r.user[s])],
                                    !.odone = r.odone + 1,
                                    !.obj = [r.obj EXCEPT ![c] = EmptyObject(r.obj[c])]]
                    BY <1>1, <4>1, <5>1, DrainedIs
                <5> QED  BY <5>2, <5>3, <5>4
            <4>5. [r.user EXCEPT ![s] = DrainUser(u)] = [m.user EXCEPT ![s] = DrainUser(u)]
                BY <1>1, <1>2, <4>2
            <4> QED  BY <1>1, <2>5, <4>4, <4>5 DEF Counting
        <3>4. m.odone + D(DrainUser(u).odone) - D(u.odone) = m.odone + 1
            BY <1>1, <1>2, <2>2 DEF D, DrainUser, User
        <3>5. q = Put(m, s, DrainUser(u), EmptyObject(o), h, m.wait)
            <4> HIDE DEF q, r, h
            <4> QED  BY <1>1, <1>2, <3>3, <3>4 DEF Put, Counting
        <3>6. Sends(DrainUser(u), EmptyObject(o), h, u, o)
            BY <1>1, <2>2, <2>6, DrainSound
        <3>7. ~DrainUser(u).output
            BY <1>1 DEF DrainUser, User
        <3> HIDE DEF q, h, r, u, o, g, c
        <3> QED  BY <1>2, <3>5, <3>6, <3>7, PutSends DEF u, o, g, c
    <2>7. CASE n # Len(o.buffer)
        <3> DEFINE W == m.wait \cup {c}
        <3>1. q = Waiting(r, s)
            BY <2>1, <2>7 DEF UflushBuffer
        <3>2. Conn(r, s) = c
            BY <1>1, <1>2, <2>5 DEF Counting, Conn, SendUser, User
        <3>3. q = [m EXCEPT !.got = [m.got EXCEPT ![c] = h],
                            !.user = [m.user EXCEPT ![s] = SendUser(u, n)],
                            !.wait = W]
            BY <1>1, <2>5, <3>1, <3>2 DEF Waiting, Counting
        <3>4. D(SendUser(u, n).odone) = D(u.odone)
            BY <1>1 DEF SendUser, User
        <3>5. q = Put(m, s, SendUser(u, n), o, h, W)
            <4> HIDE DEF q, r, h
            <4> QED  BY <1>1, <1>2, <1>3, <3>3, <3>4 DEF Put, Counting
        <3>6. Sends(SendUser(u, n), o, h, u, o)
            <4>1. n < Len(o.buffer)
                BY <2>3, <2>4, <2>7
            <4> QED  BY <1>1, <2>2, <2>4, <4>1, SendSound
        <3>7. W \in SUBSET Conns /\ c \in W /\ \A d \in Conns \ {c} : d \in W <=> d \in m.wait
            BY <1>1, <1>2
        <3> HIDE DEF q, h, W, r, u, o, g, c
        <3> QED  BY <3>5, <3>6, <3>7, PutSends DEF u, o, g, c
    <2> QED  BY <2>6, <2>7
<1> QED  BY <1>1, <1>5, <1>6, <1>7, <1>8, UserFields

(* Lists without repetition.                                               *)

LEMMA RemoveInjective ==
    ASSUME NEW S, NEW f \in Seq(S), IsInjective(f), NEW i \in 1 .. Len(f)
    PROVE  /\ RemoveAt(f, i) \in Seq(S)
           /\ IsInjective(RemoveAt(f, i))
           /\ ToSet(RemoveAt(f, i)) = ToSet(f) \ {f[i]}
<1> DEFINE g == RemoveAt(f, i)
<1>1. /\ g \in Seq(S) /\ Len(f) \in Nat /\ Len(g) = Len(f) - 1
      /\ \A k \in 1 .. Len(f) - 1 : g[k] = IF k < i THEN f[k] ELSE f[k + 1]
    BY RemoveElem
<1> HIDE DEF g
<1>2. DOMAIN f = 1 .. Len(f) /\ DOMAIN g = 1 .. Len(f) - 1
    BY <1>1
<1>3. \A a, b \in 1 .. Len(f) : f[a] = f[b] => a = b
    BY <1>2 DEF IsInjective
<1>4. IsInjective(g)
    <2> SUFFICES ASSUME NEW a \in 1 .. Len(f) - 1, NEW b \in 1 .. Len(f) - 1, g[a] = g[b]
                 PROVE  a = b
        BY <1>2 DEF IsInjective
    <2> DEFINE x == IF a < i THEN a ELSE a + 1
               y == IF b < i THEN b ELSE b + 1
    <2>1. x \in 1 .. Len(f) /\ y \in 1 .. Len(f)
        BY <1>1
    <2>2. g[a] = f[x] /\ g[b] = f[y]
        BY <1>1
    <2>3. x = y
        BY <1>3, <2>1, <2>2
    <2> QED  BY <1>1, <2>3
<1>5. ASSUME NEW x \in ToSet(g)
      PROVE  x \in ToSet(f) \ {f[i]}
    <2>1. PICK k \in 1 .. Len(f) - 1 : x = g[k]
        BY <1>2 DEF ToSet
    <2> DEFINE j == IF k < i THEN k ELSE k + 1
    <2>2. j \in 1 .. Len(f) /\ j # i /\ x = f[j]
        BY <1>1, <2>1
    <2> HIDE DEF j
    <2> QED  BY <1>2, <1>3, <2>2 DEF ToSet
<1>6. ASSUME NEW x \in ToSet(f) \ {f[i]}
      PROVE  x \in ToSet(g)
    <2>1. PICK j \in 1 .. Len(f) : x = f[j] /\ j # i
        BY <1>2 DEF ToSet
    <2> DEFINE k == IF j < i THEN j ELSE j - 1
    <2>2. k \in 1 .. Len(f) - 1
        BY <1>1, <2>1
    <2>3. (IF k < i THEN k ELSE k + 1) = j
        BY <1>1, <2>1
    <2>4. g[k] = x
        BY <1>1, <2>1, <2>2, <2>3
    <2> HIDE DEF k
    <2> QED  BY <1>2, <2>2, <2>4 DEF ToSet
<1> QED  BY <1>1, <1>4, <1>5, <1>6 DEF g

LEMMA PushInjective ==
    ASSUME NEW S, NEW f \in Seq(S), IsInjective(f), NEW x \in S, x \notin ToSet(f)
    PROVE  /\ << x >> \o f \in Seq(S)
           /\ IsInjective(<< x >> \o f)
           /\ ToSet(<< x >> \o f) = ToSet(f) \cup {x}
<1> DEFINE e == << x >>
           g == e \o f
<1>1. e \in Seq(S) /\ Len(e) = 1 /\ e[1] = x
    OBVIOUS
<1> HIDE DEF e
<1>2. /\ g \in Seq(S) /\ Len(f) \in Nat /\ Len(g) = 1 + Len(f) /\ g[1] = x
      /\ \A k \in 1 .. Len(f) : g[1 + k] = f[k]
    <2>1. g \in Seq(S) /\ Joined(g, e, f)
        BY <1>1, ConcatElem
    <2> HIDE DEF g
    <2> QED  BY <1>1, <2>1 DEF Joined
<1> HIDE DEF g
<1>3. DOMAIN f = 1 .. Len(f) /\ DOMAIN g = 1 .. 1 + Len(f)
    BY <1>2
<1>4. \A k \in 1 .. 1 + Len(f) : k # 1 => k - 1 \in 1 .. Len(f) /\ g[k] = f[k - 1]
    <2> TAKE k \in 1 .. 1 + Len(f)
    <2> HAVE k # 1
    <2>1. k - 1 \in 1 .. Len(f) /\ 1 + (k - 1) = k
        BY <1>2
    <2> QED  BY <1>2, <2>1
<1>5. ToSet(g) = ToSet(f) \cup {x}
    <2>1. ASSUME NEW y \in ToSet(g)
          PROVE  y \in ToSet(f) \cup {x}
        <3>1. PICK k \in 1 .. 1 + Len(f) : y = g[k]
            BY <1>3 DEF ToSet
        <3>2. CASE k = 1
            BY <1>2, <3>1, <3>2
        <3>3. CASE k # 1
            <4>1. k - 1 \in DOMAIN f /\ y = f[k - 1]
                BY <1>3, <1>4, <3>1, <3>3
            <4> QED  BY <4>1 DEF ToSet
        <3> QED  BY <3>2, <3>3
    <2>2. x \in ToSet(g)
        BY <1>2, <1>3 DEF ToSet
    <2>3. ASSUME NEW y \in ToSet(f)
          PROVE  y \in ToSet(g)
        <3>1. PICK k \in 1 .. Len(f) : y = f[k]
            BY <1>3 DEF ToSet
        <3>2. 1 + k \in 1 .. 1 + Len(f) /\ g[1 + k] = y
            BY <1>2, <3>1
        <3> QED  BY <1>3, <3>2 DEF ToSet
    <2> QED  BY <2>1, <2>2, <2>3
<1>6. IsInjective(g)
    <2> SUFFICES ASSUME NEW a \in 1 .. 1 + Len(f), NEW b \in 1 .. 1 + Len(f), g[a] = g[b]
                 PROVE  a = b
        BY <1>3 DEF IsInjective
    <2>1. \A k \in 1 .. Len(f) : f[k] # x
        BY <1>3 DEF ToSet
    <2>2. \A j, k \in 1 .. Len(f) : f[j] = f[k] => j = k
        BY <1>3 DEF IsInjective
    <2>3. CASE a # 1 /\ b # 1
        <3>1. a - 1 = b - 1
            BY <1>4, <2>2, <2>3
        <3> QED  BY <1>2, <3>1
    <2>4. CASE a = 1 \/ b = 1
        BY <1>2, <1>4, <2>1, <2>4
    <2> QED  BY <2>3, <2>4
<1> QED  BY <1>2, <1>5, <1>6 DEF g, e

LEMMA AddedInjective ==
    ASSUME NEW S, NEW f \in Seq(S), IsInjective(f), NEW x \in S, x \notin ToSet(f)
    PROVE  /\ Append(f, x) \in Seq(S)
           /\ IsInjective(Append(f, x))
           /\ ToSet(Append(f, x)) = ToSet(f) \cup {x}
<1> DEFINE g == Append(f, x)
<1>1. /\ g \in Seq(S) /\ Len(f) \in Nat /\ Len(g) = Len(f) + 1 /\ g[Len(f) + 1] = x
      /\ \A k \in 1 .. Len(f) : g[k] = f[k]
    BY AppendElem
<1> HIDE DEF g
<1>2. DOMAIN f = 1 .. Len(f) /\ DOMAIN g = 1 .. Len(f) + 1
    BY <1>1
<1>3. \A k \in 1 .. Len(f) + 1 : k # Len(f) + 1 => k \in 1 .. Len(f)
    BY <1>1
<1>4. Len(f) + 1 \in 1 .. Len(f) + 1 /\ \A k \in 1 .. Len(f) : k \in 1 .. Len(f) + 1
    BY <1>1
<1>5. ToSet(g) = ToSet(f) \cup {x}
    <2>1. ASSUME NEW y \in ToSet(g)
          PROVE  y \in ToSet(f) \cup {x}
        <3>1. PICK k \in 1 .. Len(f) + 1 : y = g[k]
            BY <1>2 DEF ToSet
        <3> QED  BY <1>1, <1>2, <1>3, <3>1 DEF ToSet
    <2>2. ASSUME NEW y \in ToSet(f)
          PROVE  y \in ToSet(g)
        <3>1. PICK k \in 1 .. Len(f) : y = f[k]
            BY <1>2 DEF ToSet
        <3> QED  BY <1>1, <1>2, <1>4, <3>1 DEF ToSet
    <2>3. x \in ToSet(g)
        BY <1>1, <1>2, <1>4 DEF ToSet
    <2> QED  BY <2>1, <2>2, <2>3
<1>6. \A k \in 1 .. Len(f) : f[k] # x
    BY <1>2 DEF ToSet
<1>7. \A j, k \in 1 .. Len(f) : f[j] = f[k] => j = k
    BY <1>2 DEF IsInjective
<1>8. IsInjective(g)
    <2> SUFFICES ASSUME NEW a \in 1 .. Len(f) + 1, NEW b \in 1 .. Len(f) + 1, g[a] = g[b]
                 PROVE  a = b
        BY <1>2 DEF IsInjective
    <2>1. CASE a = Len(f) + 1 \/ b = Len(f) + 1
        BY <1>1, <1>3, <1>6, <2>1
    <2>2. CASE a # Len(f) + 1 /\ b # Len(f) + 1
        BY <1>1, <1>3, <1>7, <2>2
    <2> QED  BY <2>1, <2>2
<1> QED  BY <1>1, <1>5, <1>8 DEF g

LEMMA TailInjective ==
    ASSUME NEW S, NEW f \in Seq(S), IsInjective(f), f # << >>
    PROVE  /\ Tail(f) \in Seq(S) /\ Head(f) \in S
           /\ IsInjective(Tail(f))
           /\ Head(f) \in ToSet(f)
           /\ ToSet(Tail(f)) = ToSet(f) \ {Head(f)}
<1> DEFINE g == Tail(f)
<1>1. /\ g \in Seq(S) /\ Head(f) = f[1] /\ f[1] \in S /\ Len(f) \in Nat /\ Len(f) > 0
      /\ Len(g) = Len(f) - 1
      /\ \A k \in 1 .. Len(f) - 1 : g[k] = f[k + 1]
    BY HeadTailElem
<1> HIDE DEF g
<1>2. DOMAIN f = 1 .. Len(f) /\ DOMAIN g = 1 .. Len(f) - 1 /\ 1 \in 1 .. Len(f)
    BY <1>1
<1>3. \A j, k \in 1 .. Len(f) : f[j] = f[k] => j = k
    BY <1>2 DEF IsInjective
<1>4. \A k \in 1 .. Len(f) - 1 : k + 1 \in 1 .. Len(f) /\ k + 1 # 1
    BY <1>1
<1>5. \A k \in 1 .. Len(f) : k # 1 => k - 1 \in 1 .. Len(f) - 1 /\ (k - 1) + 1 = k
    BY <1>1
<1>6. IsInjective(g)
    <2> SUFFICES ASSUME NEW a \in 1 .. Len(f) - 1, NEW b \in 1 .. Len(f) - 1, g[a] = g[b]
                 PROVE  a = b
        BY <1>2 DEF IsInjective
    <2>1. a + 1 = b + 1
        BY <1>1, <1>3, <1>4
    <2> QED  BY <1>1, <2>1
<1>7. ASSUME NEW y \in ToSet(g)
      PROVE  y \in ToSet(f) \ {f[1]}
    <2>1. PICK k \in 1 .. Len(f) - 1 : y = g[k]
        BY <1>2 DEF ToSet
    <2> QED  BY <1>1, <1>2, <1>3, <1>4, <2>1 DEF ToSet
<1>8. ASSUME NEW y \in ToSet(f) \ {f[1]}
      PROVE  y \in ToSet(g)
    <2>1. PICK k \in 1 .. Len(f) : y = f[k] /\ k # 1
        BY <1>2 DEF ToSet
    <2>2. k - 1 \in 1 .. Len(f) - 1 /\ g[k - 1] = y
        BY <1>1, <1>5, <2>1
    <2> QED  BY <1>2, <2>2 DEF ToSet
<1>9. f[1] \in ToSet(f)
    BY <1>2 DEF ToSet
<1> QED  BY <1>1, <1>6, <1>7, <1>8, <1>9 DEF g

---------------------------------------------------------------------------
(* comm_flush(), for one user.                                             *)

(* The echo is told to the peer.                                           *)
EchoIs(q, m, s) ==
    /\ Affects(q, m, s) /\ Sound(q) /\ q.flush = m.flush
    /\ q.user[s].flush
    /\ Arr(q, s).user = Arr(m, s).user

LEMMA FlushEchoIs ==
    ASSUME NEW m, Sound(m), NEW s \in Used(m), m.user[s].flush
    PROVE  EchoIs(FlushEcho(m, s), m, s)
<1> DEFINE u == m.user[s]
           o == Arr(m, s)
           g == m.got[Conn(m, s)]
           q == FlushEcho(m, s)
           b == IF o.echo THEN WONT ELSE WILL
           a == Write(m, s, b)
<1> SUFFICES EchoIs(q, m, s)
    OBVIOUS
<1>1. /\ m \in Counting /\ s \in Slots /\ Conn(m, s) \in Conns
      /\ u \in User /\ o \in Object /\ g \in Got /\ OutputSound(u, o, g)
      /\ u.oindex = Conn(m, s)
    BY SoundIs DEF Conn
<1>2. b \in Output /\ b \in {WILL, WONT} /\ o.echo \in BOOLEAN
    BY <1>1, ObjectFields, ConstantsAre DEF Output, WILL, WONT, REPLY
<1>3. CASE q = m
    <2>1. Affects(m, m, s)
        BY <1>1, AffectsNone
    <2> HIDE DEF q
    <2> QED  BY <1>3, <2>1 DEF EchoIs
<1>4. CASE q # m
    <2>1. /\ q = [a EXCEPT !.user[s].echo = o.echo]
          /\ IsWritten(m, s)
        BY <1>4 DEF FlushEcho
    <2>2. BufferSound(u, o)
        BY <1>1 DEF OutputSound
    <2> HIDE DEF b
    <2>3. WriteIsDone(a, m, s, b) /\ RoomBy(u, o)
        BY <1>1, <1>2, <2>1, <2>2, WriteIs
    <2> HIDE DEF a, q
    <2> DEFINE w == WriteUser(u, o)
               v == [w EXCEPT !.echo = o.echo]
               p == WriteObject(u, o, b)
    <2>4. /\ Affects(a, m, s) /\ a.user[s] = w /\ Arr(a, s) = p
          /\ a.got = m.got /\ a.flush = m.flush
        BY <2>3 DEF WriteIsDone
    <2>5. a \in Counting /\ Conn(a, s) = Conn(m, s) /\ s \in Used(a)
        BY <1>1, <2>4 DEF Affects, Used
    <2>6. /\ w \in User /\ w.flush /\ w.oindex = u.oindex
          /\ w.newlines = u.newlines /\ w.inbuf = u.inbuf
        BY <1>1, WriteUserIs
    <2>7. /\ p \in Object /\ p.user = o.user /\ p.echo = o.echo /\ p.written = o.written
          /\ BufferSound(w, p)
        BY <1>1, <1>2, <2>2, WriteSound
    <2>8. End(w, p, g) = Receives(End(u, o, g), b) /\ End(u, o, g) \in Got
        BY <1>1, <1>2, <2>2, <2>3, WriteEnd
    <2> HIDE DEF w, p
    <2>9. /\ v \in User /\ v.oindex = w.oindex /\ v.newlines = w.newlines /\ v.inbuf = w.inbuf
          /\ v.flush = w.flush /\ v.outbuf = w.outbuf /\ v.osdone = w.osdone
          /\ v.odone = w.odone /\ v.echo = o.echo
        BY <1>2, <2>6 DEF User
    <2> HIDE DEF v
    <2>10. q = Put(a, s, v, p, g, a.wait)
        <3>1. /\ [a.user EXCEPT ![s] = a.user[s]] = a.user
              /\ [a.obj EXCEPT ![Conn(a, s)] = p] = a.obj
              /\ [a.got EXCEPT ![Conn(a, s)] = g] = a.got
              /\ a.odone + D(v.odone) - D(a.user[s].odone) = a.odone
            BY <2>4, <2>5, <2>9, Same
        <3>2. s \in Slots /\ a.user \in [Slots -> User]
            BY <1>1, <2>5, CountingFields
        <3> QED  BY <2>1, <2>4, <2>5, <3>1, <3>2 DEF Put, Counting, v
    <2>11. PutIsDone(q, a, s, v, p, g, a.wait)
        <3>1. Follows(v, p, a.user[s], Arr(a, s))
            BY <2>4, <2>7, <2>9 DEF Follows
        <3>2. a.wait \in SUBSET Conns
            BY <2>5, CountingFields
        <3> QED  BY <1>1, <2>5, <2>10, <3>1, <3>2, PutIs
    <2>12. /\ Affects(q, m, s) /\ q.user[s] = v /\ Arr(q, s) = p
           /\ q.got[Conn(q, s)] = g /\ q.flush = m.flush
        <3>1. Affects(q, a, s) /\ q.user[s] = v /\ Arr(q, s) = p /\ q.got[Conn(a, s)] = g
              /\ q.flush = a.flush
            BY <2>11 DEF PutIsDone
        <3>2. Affects(q, m, s)
            BY <1>1, <2>4, <3>1, AffectsMore
        <3>3. Conn(q, s) = Conn(m, s)
            BY <3>2 DEF Affects
        <3> QED  BY <2>4, <2>5, <3>1, <3>2, <3>3
    <2>13. SentBy(v, p) = SentBy(w, p)
        BY <2>9 DEF SentBy
    <2>14. BufferSound(v, p) /\ End(v, p, g) = Receives(End(u, o, g), b)
        BY <2>7, <2>8, <2>9, <2>13 DEF BufferSound, End, Rest
    <2>15. Receives(End(u, o, g), b) = [End(u, o, g) EXCEPT !.echo = b]
        BY <1>2 DEF Receives
    <2>16. OutputSound(v, p, g)
        <3> DEFINE x == End(u, o, g)
                   y == Receives(x, b)
        <3>1. x \in Got /\ ~x.wrong /\ x.upto = o.written
            BY <1>1, <2>8 DEF OutputSound, OrderSound
        <3> HIDE DEF x
        <3>2. ~y.wrong /\ y.upto = o.written /\ y.echo = b
            BY <2>15, <3>1 DEF Got, x
        <3> HIDE DEF y
        <3>3. OrderSound(v, p, g)
            BY <2>7, <2>14, <3>2 DEF OrderSound, y, x
        <3>4. EchoSound(v, p, g)
            BY <2>9, <2>14, <3>2 DEF EchoSound, y, x, b
        <3>5. FlushedSound(v, p)
            BY <2>6, <2>9 DEF FlushedSound
        <3> QED  BY <2>14, <3>3, <3>4, <3>5 DEF OutputSound
    <2>17. Sound(q)
        BY <2>12, <2>16, AffectsSound
    <2> QED  BY <2>6, <2>7, <2>9, <2>12, <2>17 DEF EchoIs
<1> QED  BY <1>3, <1>4

(* The buffer is that of the object from now on.                           *)
StateIs(q, m, s) ==
    /\ Affects(q, m, s) /\ Sound(q) /\ q.flush = m.flush
    /\ q.user[s].flush /\ ~q.user[s].outbuf
    /\ q.user[s].blocked = Arr(q, s).blocked /\ Arr(q, s).first
    /\ Arr(q, s).user = Arr(m, s).user

LEMMA FlushStateIs ==
    ASSUME NEW m, Sound(m), NEW s \in Used(m), m.user[s].flush
    PROVE  StateIs(FlushState(m, s), m, s)
<1> DEFINE u == m.user[s]
           o == Arr(m, s)
           g == m.got[Conn(m, s)]
           c == Conn(m, s)
           q == FlushState(m, s)
           v == [u EXCEPT !.blocked = o.blocked, !.outbuf = FALSE, !.osdone = SentBy(u, o)]
           p == [o EXCEPT !.first = TRUE]
<1> SUFFICES StateIs(q, m, s)
    OBVIOUS
<1>1. /\ m \in Counting /\ s \in Slots /\ c \in Conns
      /\ u \in User /\ o \in Object /\ g \in Got /\ OutputSound(u, o, g)
      /\ m.user \in [Slots -> User] /\ m.obj \in [Conns -> Object] /\ m.wait \in SUBSET Conns
    BY SoundIs, CountingFields
<1>2. SentBy(u, o) \in 0 .. MAX_STRLEN /\ o.blocked \in BOOLEAN
    BY <1>1, UserFields, ObjectFields, ConstantsAre DEF SentBy
<1>3. /\ v \in User /\ v.oindex = u.oindex /\ v.newlines = u.newlines /\ v.inbuf = u.inbuf
      /\ v.flush = u.flush /\ ~v.outbuf /\ v.echo = u.echo /\ v.blocked = o.blocked
      /\ v.osdone = SentBy(u, o) /\ v.odone = u.odone
    BY <1>1, <1>2 DEF User
<1>4. /\ p \in Object /\ p.slot = o.slot /\ p.user = o.user /\ p.blocked = o.blocked
      /\ p.written = o.written /\ p.buffer = o.buffer /\ p.first = TRUE
    BY <1>1 DEF Object
<1>5. q = Put(m, s, v, p, g, m.wait)
    <2>1. /\ [m.got EXCEPT ![c] = g] = m.got
          /\ m.odone + D(v.odone) - D(u.odone) = m.odone
        <3>1. v.odone = u.odone
            BY <1>3
        <3> HIDE DEF v
        <3>2. D(v.odone) = D(u.odone)
            BY <3>1
        <3>3. m.odone + D(u.odone) - D(u.odone) = m.odone
            BY <1>1, Same
        <3>4. [m.got EXCEPT ![c] = g] = m.got
            BY <1>1, Same
        <3> QED  BY <3>2, <3>3, <3>4
    <2>2. SentOf(m, s) = SentBy(u, o)
        BY DEF SentOf, SentBy
    <2>3. q = [m EXCEPT !.user = [m.user EXCEPT ![s] = v], !.obj = [m.obj EXCEPT ![c] = p]]
        <3> HIDE DEF c
        <3>1. q = [m EXCEPT !.user[s].blocked = o.blocked, !.user[s].outbuf = FALSE,
                            !.obj[c].first = TRUE, !.user[s].osdone = SentBy(u, o)]
            BY <2>2 DEF FlushState, c
        <3>2. o = m.obj[c]
            BY DEF Arr, c
        <3> DEFINE d == o.blocked
                   n == SentBy(u, o)
        <3> HIDE DEF o, n, d
        <3>3. q = [m EXCEPT !.user[s].blocked = d, !.user[s].outbuf = FALSE,
                            !.obj[c].first = TRUE, !.user[s].osdone = n]
            BY <3>1 DEF n, d
        <3>4. v = [m.user[s] EXCEPT !.blocked = d, !.outbuf = FALSE, !.osdone = n]
            BY DEF n, d
        <3>5. d \in BOOLEAN /\ n \in 0 .. MAX_STRLEN
            BY <1>2 DEF n, d
        <3> HIDE DEF q, v
        <3>6. q = [m EXCEPT !.user[s] = [@ EXCEPT !.blocked = d, !.outbuf = FALSE, !.osdone = n],
                            !.obj[c].first = TRUE]
            BY <1>1, <3>3 DEF Counting
        <3> QED  BY Zenon, <1>1, <3>2, <3>4, <3>6 DEF Counting
    <2> HIDE DEF v, p, q
    <2> QED  BY <1>1, <2>1, <2>3 DEF Put, Counting
<1> HIDE DEF q, v, p
<1>6. PutIsDone(q, m, s, v, p, g, m.wait)
    <2>1. Follows(v, p, u, o)
        BY <1>3, <1>4 DEF Follows
    <2> QED  BY <1>1, <1>5, <2>1, PutIs
<1>7. SentBy(v, p) = SentBy(u, o)
    BY <1>3 DEF SentBy
<1>8. End(v, p, g) = End(u, o, g)
    BY <1>4, <1>7 DEF End, Rest
<1>9. OutputSound(v, p, g)
    <2>1. BufferSound(v, p)
        BY <1>1, <1>3, <1>4, <1>7 DEF OutputSound, BufferSound
    <2> QED  BY <1>1, <1>3, <1>4, <1>8, <2>1
                DEF OutputSound, FlushedSound, OrderSound, EchoSound
<1>10. Affects(q, m, s) /\ q.user[s] = v /\ Arr(q, s) = p /\ q.got[Conn(q, s)] = g
       /\ q.flush = m.flush
    BY <1>6 DEF PutIsDone, Affects
<1>11. Sound(q)
    BY <1>9, <1>10, AffectsSound
<1> QED  BY <1>3, <1>4, <1>10, <1>11 DEF StateIs

(* The user is off the flush list.                                         *)
LEMMA FlushOffIs ==
    ASSUME NEW m, Sound(m), NEW s \in Used(m), ~m.user[s].outbuf,
           m.user[s].blocked = Arr(m, s).blocked, Arr(m, s).first
    PROVE  LET q == [m EXCEPT !.user[s].flush = FALSE]
           IN /\ Affects(q, m, s) /\ q.flush = m.flush
              /\ q.obj = m.obj /\ q.wait = m.wait
              /\ ~q.user[s].flush /\ q.user[s].output = m.user[s].output
              /\ Arr(m, s).user => Sound(q)
<1> DEFINE u == m.user[s]
           o == Arr(m, s)
           g == m.got[Conn(m, s)]
           c == Conn(m, s)
           q == [m EXCEPT !.user[s].flush = FALSE]
           v == [u EXCEPT !.flush = FALSE]
<1>1. /\ m \in Counting /\ s \in Slots /\ c \in Conns
      /\ u \in User /\ o \in Object /\ g \in Got /\ OutputSound(u, o, g)
      /\ m.user \in [Slots -> User] /\ m.obj \in [Conns -> Object] /\ m.wait \in SUBSET Conns
    BY SoundIs, CountingFields
<1>2. /\ v \in User /\ v.oindex = u.oindex /\ v.newlines = u.newlines /\ v.inbuf = u.inbuf
      /\ ~v.flush /\ v.outbuf = u.outbuf /\ v.echo = u.echo /\ v.blocked = u.blocked
      /\ v.osdone = u.osdone /\ v.odone = u.odone /\ v.output = u.output
    BY <1>1 DEF User
<1>3. q = Put(m, s, v, o, g, m.wait)
    <2>1. q = [m EXCEPT !.user = [m.user EXCEPT ![s] = v]]
        BY <1>1 DEF Counting
    <2>2. v.odone = u.odone
        BY <1>2
    <2> HIDE DEF q, v
    <2>3. /\ [m.got EXCEPT ![c] = g] = m.got /\ [m.obj EXCEPT ![c] = o] = m.obj
          /\ m.odone + D(v.odone) - D(u.odone) = m.odone
        BY <1>1, <2>2, Same
    <2> QED  BY <1>1, <2>1, <2>3 DEF Put, Counting
<1>4. /\ q.obj = m.obj /\ q.wait = m.wait
    BY <1>1 DEF Counting
<1> HIDE DEF q, v
<1>5. PutIsDone(q, m, s, v, o, g, m.wait)
    <2>1. Follows(v, o, u, o)
        BY <1>1, <1>2 DEF Follows
    <2> QED  BY <1>1, <1>3, <2>1, PutIs
<1>6. Affects(q, m, s) /\ q.user[s] = v /\ Arr(q, s) = o /\ q.got[Conn(q, s)] = g
       /\ q.flush = m.flush
    BY <1>5 DEF PutIsDone, Affects
<1>7. ASSUME o.user
      PROVE  Sound(q)
    <2>1. SentBy(v, o) = SentBy(u, o)
        BY <1>2 DEF SentBy
    <2>2. End(v, o, g) = End(u, o, g)
        BY <2>1 DEF End, Rest
    <2>3. BufferSound(v, o)
        BY <1>1, <1>2, <2>1 DEF OutputSound, BufferSound
    <2>4. OutputSound(v, o, g)
        BY <1>1, <1>2, <1>7, <2>2, <2>3
           DEF OutputSound, FlushedSound, OrderSound, EchoSound
    <2> QED  BY <1>6, <2>4, AffectsSound
<1> QED  BY <1>2, <1>4, <1>6, <1>7 DEF q

(* comm_del() takes a user that is none any more out of the ring.          *)
IsRemoved(q, m, s) ==
    /\ Sound(q) /\ q.flush = m.flush /\ q.wait = m.wait
    /\ q.user[s] = NoUser /\ \A r \in Slots \ {s} : q.user[r] = m.user[r]
    /\ q.obj[Conn(m, s)] = NoObject
    /\ \A c \in Conns \ {Conn(m, s)} : q.obj[c] = m.obj[c]

LEMMA NoUserIs == NoUser \in User /\ NoObject \in Object /\ NoneGot \in Got
<1>1. 0 \in 0 .. MAX_STRLEN /\ 0 \in 0 .. MaxSent
    BY ConstantsAre
<1> DEFINE e == << >>
<1>2. e \in Seq({"char", "LF"}) /\ e \in Seq(Output)
    OBVIOUS
<1>3. NoUser \in User
    BY <1>1, <1>2 DEF NoUser, User, States
<1>4. NoObject \in Object
    BY <1>1, <1>2 DEF NoObject, Object
<1>5. NoneGot \in Got
    BY <1>1 DEF NoneGot, Got
<1> QED  BY <1>3, <1>4, <1>5

LEMMA UnlinkedIs ==
    ASSUME NEW f \in Seq(Slots), IsInjective(f), NEW s \in ToSet(f)
    PROVE  /\ Unlinked(f, s) \in Seq(Slots)
           /\ IsInjective(Unlinked(f, s))
           /\ ToSet(Unlinked(f, s)) = ToSet(f) \ {s}
<1> DEFINE i == CHOOSE k \in DOMAIN f : f[k] = s
<1>1. DOMAIN f = 1 .. Len(f)
    OBVIOUS
<1>2. i \in 1 .. Len(f) /\ f[i] = s
    <2>1. \E k \in DOMAIN f : f[k] = s
        BY DEF ToSet
    <2> QED  BY <1>1, <2>1
<1>3. Unlinked(f, s) = RemoveAt(f, i)
    BY DEF Unlinked
<1> HIDE DEF i
<1> QED  BY <1>2, <1>3, RemoveInjective

LEMMA DisconnectIs ==
    ASSUME NEW m, NEW s \in Used(m), SoundBut(m, s), ~Arr(m, s).user
    PROVE  IsRemoved(Disconnect(m, s), m, s)
<1> DEFINE q == Disconnect(m, s)
           u == m.user[s]
           c == Conn(m, s)
           n == IF u.odone THEN m.odone - 1 ELSE m.odone
           lines == m.newlines - u.newlines
           users == m.nusers - 1
<1>1. /\ m \in Comms /\ m \in Counting /\ Linked(m) /\ Shares(m) /\ Sums(m)
      /\ s \in Slots /\ c \in Conns /\ u \in User
    BY UsedIs, CommsCounting DEF SoundBut
<1>2. /\ m.user \in [Slots -> User] /\ m.obj \in [Conns -> Object] /\ m.got \in [Conns -> Got]
      /\ m.ring \in Seq(Slots) /\ m.freeuser \in Seq(Slots) /\ m.newlines \in Nat
      /\ m.odone \in Nat /\ m.nusers \in 0 .. maxusers
    BY <1>1, CountingFields, CommsCounting
<1>3. u.newlines \in Nat /\ u.odone \in BOOLEAN
    BY <1>1, UserFields
<1> DEFINE ring == Unlinked(m.ring, s)
           freeuser == << s >> \o m.freeuser
           user == [m.user EXCEPT ![s] = NoUser]
           obj == [m.obj EXCEPT ![c] = NoObject]
           got == [m.got EXCEPT ![c] = NoneGot]
<1>4. q = [m EXCEPT !.newlines = lines, !.odone = n, !.obj = obj,
                    !.got = got, !.user = user, !.ring = ring, !.freeuser = freeuser,
                    !.nusers = users]
    BY <1>1, <1>2 DEF Disconnect, Counting
<1>5. ring \in Seq(Slots) /\ IsInjective(ring) /\ ToSet(ring) = Used(m) \ {s}
    BY <1>1, <1>2, UnlinkedIs DEF Shares
<1>6. /\ freeuser \in Seq(Slots) /\ IsInjective(freeuser)
      /\ ToSet(freeuser) = (Slots \ Used(m)) \cup {s}
    BY <1>1, <1>2, PushInjective DEF Shares
<1>7. /\ user[s] = NoUser /\ \A r \in Slots \ {s} : user[r] = m.user[r]
      /\ obj[c] = NoObject /\ got[c] = NoneGot
      /\ \A d \in Conns \ {c} : obj[d] = m.obj[d] /\ got[d] = m.got[d]
      /\ user \in [Slots -> User] /\ obj \in [Conns -> Object] /\ got \in [Conns -> Got]
    BY <1>1, <1>2, NoUserIs
<1>8. /\ m.nusers = Cardinality(Used(m)) /\ Used(m) \in SUBSET Slots
      /\ Cardinality(Used(m) \ {s}) = m.nusers - 1 /\ m.nusers > 0
    <2>1. Used(m) \in SUBSET Slots /\ m.nusers = Cardinality(Used(m))
        BY <1>1 DEF Used, Shares
    <2> QED  BY <1>1, <2>1, WithOne DEF D
<1>9. m.nusers - 1 \in 0 .. maxusers
    BY <1>2, <1>8, ConstantsAre
<1> DEFINE S == {r \in Slots : m.user[r].odone}
           T == {r \in Slots : user[r].odone}
<1>10. n = Cardinality(T) /\ n \in Nat
    <2>1. S \in SUBSET Slots /\ T \in SUBSET Slots /\ \A r \in Slots \ {s} : r \in S <=> r \in T
        BY <1>7
    <2>2. s \notin T /\ (s \in S <=> u.odone)
        BY <1>1, <1>7 DEF NoUser
    <2>3. m.odone = Cardinality(S)
        BY <1>1 DEF Sums
    <2> HIDE DEF S, T
    <2>4. /\ Cardinality(T) = Cardinality(S) + D(s \in T) - D(s \in S)
          /\ Cardinality(T) \in Nat /\ Cardinality(S) \in Nat
        BY <1>1, <2>1, CountOne
    <2> QED  BY <1>2, <1>3, <2>2, <2>3, <2>4 DEF D
<1> HIDE DEF ring, freeuser, user, obj, got, n, q, T, S
<1>11. m.newlines - u.newlines \in Nat
    <2>1. \A r \in Slots : m.user[r].newlines \in Nat
        BY <1>2, UserFields
    <2>2. Lines(m) >= u.newlines
        <3> DEFINE d == 0
        <3>1. m.user[s].newlines = m.user[s].newlines + d /\ d \in Int
            BY <1>3
        <3> HIDE DEF d
        <3> QED  BY <1>1, <2>1, <3>1, LinesOne
    <2> QED  BY <1>1, <1>2, <1>3, <2>2 DEF Sums
<1>12. /\ q \in Counting
       /\ q.user = user /\ q.obj = obj /\ q.got = got /\ q.ring = ring /\ q.freeuser = freeuser
       /\ q.newlines = m.newlines - u.newlines /\ q.odone = n /\ q.nusers = m.nusers - 1
       /\ q.flush = m.flush /\ q.wait = m.wait
    <2> HIDE DEF u, c
    <2>1. lines \in Nat /\ users \in 0 .. maxusers /\ n \in Int
        BY <1>9, <1>10, <1>11
    <2> HIDE DEF lines, users
    <2>2. q \in Counting
        BY <1>1, <1>4, <1>5, <1>6, <1>7, <2>1 DEF Counting
    <2>3. /\ q.user = user /\ q.obj = obj /\ q.got = got /\ q.ring = ring /\ q.freeuser = freeuser
          /\ q.newlines = lines /\ q.odone = n /\ q.nusers = users
          /\ q.flush = m.flush /\ q.wait = m.wait
        BY <1>1, <1>4 DEF Counting
    <2> QED  BY <2>2, <2>3 DEF lines, users
<1>13. /\ Conn(q, s) = NoConn /\ \A r \in Slots \ {s} : Conn(q, r) = Conn(m, r)
       /\ Used(q) = Used(m) \ {s}
    <2>1. Conn(q, s) = NoConn /\ \A r \in Slots \ {s} : Conn(q, r) = Conn(m, r)
        BY <1>1, <1>7, <1>12 DEF Conn, NoUser
    <2> QED  BY <2>1 DEF Used
<1>14. \A r \in Used(q) : /\ r \in Slots \ {s} /\ Conn(q, r) = Conn(m, r)
                          /\ Conn(m, r) \in Conns \ {c}
                          /\ Arr(q, r) = Arr(m, r) /\ q.got[Conn(q, r)] = m.got[Conn(m, r)]
    <2> TAKE r \in Used(q)
    <2>1. r \in Used(m) /\ r # s /\ r \in Slots
        BY <1>13 DEF Used
    <2>2. Conn(m, r) \in Conns
        BY <1>1, <2>1, UsedIs
    <2>3. Conn(m, r) # c
        BY <1>1, <2>1 DEF Linked, Arr
    <2> QED  BY <1>7, <1>12, <1>13, <2>1, <2>2, <2>3 DEF Arr
<1>15. Linked(q)
    <2>1. \A r \in Used(q) : Arr(q, r).slot = r
        BY <1>1, <1>13, <1>14 DEF Linked
    <2>2. \A r \in Slots \ Used(q) : q.user[r] = NoUser
        BY <1>1, <1>7, <1>12, <1>13 DEF Linked
    <2>3. ASSUME NEW d \in Conns
          PROVE  IF q.obj[d].slot = 0 THEN q.obj[d] = NoObject /\ q.got[d] = NoneGot
                 ELSE Conn(q, q.obj[d].slot) = d
        <3>1. CASE d = c
            BY <1>7, <1>12, <3>1 DEF NoObject
        <3>2. CASE d # c
            <4>1. q.obj[d] = m.obj[d] /\ q.got[d] = m.got[d]
                BY <1>7, <1>12, <3>2
            <4>2. m.obj[d].slot = 0 \/ m.obj[d].slot \in Slots
                BY <1>2, ObjectFields
            <4>3. CASE m.obj[d].slot # 0
                <5>1. Conn(m, m.obj[d].slot) = d
                    BY <1>1, <4>3 DEF Linked
                <5> QED  BY <1>13, <3>2, <4>1, <4>2, <4>3, <5>1
            <4> QED  BY <1>1, <4>1, <4>3 DEF Linked
        <3> QED  BY <3>1, <3>2
    <2> QED  BY <2>1, <2>2, <2>3 DEF Linked
<1>16. Shares(q)
    <2>1. Slots \ Used(q) = (Slots \ Used(m)) \cup {s}
        BY <1>1, <1>13
    <2> QED  BY <1>5, <1>6, <1>8, <1>12, <1>13, <2>1 DEF Shares
<1>17. Sums(q)
    <2>1. q.odone = Cardinality({r \in Slots : q.user[r].odone})
        BY <1>10, <1>12 DEF T
    <2>2. Lines(q) = Lines(m) + (0 - u.newlines)
        <3>1. /\ \A r \in Slots : m.user[r].newlines \in Nat
              /\ \A r \in Slots : q.user[r].newlines \in Nat
            BY <1>2, <1>7, <1>12, UserFields
        <3>2. \A r \in Slots \ {s} : q.user[r].newlines = m.user[r].newlines
            BY <1>7, <1>12
        <3> DEFINE d == 0 - u.newlines
        <3>3. d \in Int /\ q.user[s].newlines = m.user[s].newlines + d
            BY <1>3, <1>7, <1>12 DEF NoUser
        <3> HIDE DEF d
        <3>4. Lines(q) = Lines(m) + d
            BY <1>1, <3>1, <3>2, <3>3, LinesOne
        <3> QED  BY <3>4 DEF d
    <2>3. m.newlines = Lines(m)
        BY <1>1 DEF Sums
    <2> QED  BY <1>2, <1>3, <1>12, <2>1, <2>2, <2>3 DEF Sums
<1>18. \A r \in Slots : InputSound(q.user[r])
    <2>1. InputSound(NoUser)
        <3>1. Len(<< >>) = 0
            OBVIOUS
        <3>2. NoUser.inbuf = << >> /\ NoUser.newlines = 0
            BY DEF NoUser
        <3> QED  BY <3>1, <3>2, LFsNone, ConstantsAre DEF InputSound
    <2>2. \A r \in Slots : InputSound(m.user[r])
        BY DEF SoundBut
    <2> QED  BY <1>7, <1>12, <2>1, <2>2
<1>19. \A r \in Used(q) : OutputSound(q.user[r], Arr(q, r), q.got[Conn(q, r)])
    <2>1. \A r \in Used(q) : q.user[r] = m.user[r] /\ r \in Used(m) \ {s}
        BY <1>7, <1>12, <1>13, <1>14
    <2> QED  BY <1>14, <2>1 DEF SoundBut
<1>20. q \in Comms
    BY <1>10, <1>12, CommsCounting
<1>21. Sound(q)
    BY <1>15, <1>16, <1>17, <1>18, <1>19, <1>20 DEF Sound
<1> QED  BY <1>7, <1>12, <1>21 DEF IsRemoved, q, c

(* What flushing some users leaves of the others.                          *)
Keeps(q, m) ==
    \A r \in Used(m) : Arr(m, r).user =>
        /\ r \in Used(q) /\ Arr(q, r).user
        /\ ~q.user[r].flush /\ (m.user[r].flush \/ Stuck(m, r)) => Stuck(q, r)

Fresh(q, m) == \A c \in Conns : m.obj[c].slot = 0 => q.obj[c].slot = 0

UserIsFlushed(q, m, s) ==
    /\ Sound(q) /\ q.flush = m.flush
    /\ \A r \in Slots : q.user[r].flush <=> m.user[r].flush /\ r # s
    /\ Keeps(q, m) /\ Fresh(q, m)

LEMMA FlushUserIs ==
    ASSUME NEW m, Sound(m), NEW s \in Used(m), m.user[s].flush, NEW takes \in Takes
    PROVE  UserIsFlushed(FlushUser(m, s, takes), m, s)
<1> DEFINE a == FlushEcho(m, s)
           b == FlushState(a, s)
           take == takes[Conn(m, s)]
           fails == Conn(m, s) \in net.closed
           d == FlushOutput(b, s, take, fails)
           e == [d EXCEPT !.user[s].flush = FALSE]
           q == Disconnect(e, s)
<1>1. FlushUser(m, s, takes) = q
    BY DEF FlushUser
<1>2. /\ m \in Comms /\ m \in Counting /\ Linked(m) /\ s \in Slots /\ Conn(m, s) \in Conns
    BY SoundIs
<1>3. take \in 0 .. MAX_STRLEN /\ fails \in BOOLEAN
    BY <1>2 DEF Takes
<1> HIDE DEF take, fails
<1>4. EchoIs(a, m, s)
    BY FlushEchoIs
<1> HIDE DEF a
<1>5. Affects(a, m, s) /\ Sound(a) /\ a.user[s].flush /\ s \in Used(a)
    BY <1>2, <1>4 DEF EchoIs, Affects, Used
<1>6. StateIs(b, a, s)
    BY <1>5, FlushStateIs
<1> HIDE DEF b
<1>7. /\ Affects(b, a, s) /\ Sound(b) /\ s \in Used(b) /\ ~b.user[s].outbuf
      /\ b.user[s].blocked = Arr(b, s).blocked /\ Arr(b, s).first
    BY <1>2, <1>5, <1>6 DEF StateIs, Affects, Used
<1>8. OutputIs(d, b, s)
    BY <1>3, <1>7, FlushOutputIs
<1> HIDE DEF d
<1>9. /\ Affects(d, b, s) /\ Sound(d) /\ s \in Used(d) /\ ~d.user[s].outbuf
      /\ d.user[s].blocked = Arr(d, s).blocked
      /\ Stuck(d, s)
    BY <1>2, <1>7, <1>8 DEF OutputIs, Affects, Used
<1>10. Arr(d, s).first
    BY <1>7, <1>8 DEF OutputIs
<1>11. /\ Affects(e, d, s) /\ e.flush = d.flush /\ e.obj = d.obj /\ e.wait = d.wait
       /\ ~e.user[s].flush /\ e.user[s].output = d.user[s].output
       /\ Arr(d, s).user => Sound(e)
    BY <1>9, <1>10, FlushOffIs
<1> HIDE DEF e
<1>12. Affects(e, m, s) /\ s \in Used(e)
    <2>1. Affects(b, m, s)
        BY <1>2, <1>5, <1>7, AffectsMore
    <2>2. Affects(d, m, s)
        BY <1>2, <1>9, <2>1, AffectsMore
    <2>3. Affects(e, m, s)
        BY <1>2, <1>11, <2>2, AffectsMore
    <2> QED  BY <1>2, <2>3 DEF Affects, Used
<1>13. /\ Arr(d, s).user = Arr(m, s).user /\ d.flush = m.flush
       /\ Conn(d, s) = Conn(m, s) /\ Conn(e, s) = Conn(m, s)
       /\ Arr(e, s) = Arr(d, s)
    <2>1. Arr(d, s).user = Arr(m, s).user /\ d.flush = m.flush
        BY <1>4, <1>6, <1>8 DEF EchoIs, StateIs, OutputIs
    <2>2. Conn(d, s) = Conn(m, s) /\ Conn(e, s) = Conn(m, s)
        BY <1>5, <1>7, <1>9, <1>11 DEF Affects
    <2> QED  BY <1>11, <2>1, <2>2 DEF Arr
<1>14. /\ Used(e) = Used(m) /\ \A r \in Slots : Conn(e, r) = Conn(m, r)
       /\ \A r \in Used(m) \ {s} : Conn(m, r) # Conn(m, s) /\ Arr(e, r) = Arr(m, r)
    BY <1>2, <1>12, AffectsUsed
<1>15. Stuck(e, s)
    BY <1>9, <1>11, <1>13 DEF Stuck
<1>16. \A r \in Slots \ {s} : e.user[r] = m.user[r]
    BY <1>12 DEF Affects
<1>17. \A r \in Used(m) \ {s} : Stuck(m, r) => Stuck(e, r)
    <2> TAKE r \in Used(m) \ {s}
    <2>1. Conn(m, r) \in Conns \ {Conn(m, s)} /\ r \in Slots /\ Conn(e, r) = Conn(m, r)
        BY <1>2, <1>14, UsedIs
    <2>2. Conn(m, r) \in e.wait <=> Conn(m, r) \in m.wait
        BY <1>12, <2>1 DEF Affects
    <2> QED  BY <1>14, <1>16, <2>1, <2>2 DEF Stuck
<1>18. Fresh(e, m)
    <2>1. \A c \in Conns \ {Conn(m, s)} : e.obj[c] = m.obj[c]
        BY <1>12 DEF Affects
    <2>2. e.obj[Conn(m, s)].slot = m.obj[Conn(m, s)].slot
        BY <1>12 DEF Affects
    <2> QED  BY <2>1, <2>2 DEF Fresh
<1>19. CASE Arr(m, s).user
    <2>1. q = e
        BY <1>13, <1>19 DEF Disconnect
    <2>2. Sound(e)
        BY <1>11, <1>13, <1>19
    <2>3. \A r \in Slots : e.user[r].flush <=> m.user[r].flush /\ r # s
        BY <1>11, <1>16
    <2>4. Keeps(e, m)
        <3> SUFFICES ASSUME NEW r \in Used(m), Arr(m, r).user
                     PROVE  /\ r \in Used(e) /\ Arr(e, r).user
                            /\ (m.user[r].flush \/ Stuck(m, r)) /\ ~e.user[r].flush => Stuck(e, r)
            BY DEF Keeps
        <3>1. CASE r = s
            BY <1>13, <1>14, <1>15, <1>19, <3>1
        <3>2. CASE r # s
            <4>1. r \in Slots
                BY DEF Used
            <4> QED  BY <1>14, <1>16, <1>17, <3>2, <4>1
        <3> QED  BY <3>1, <3>2
    <2> QED  BY <1>1, <1>11, <1>13, <1>18, <2>1, <2>2, <2>3, <2>4 DEF UserIsFlushed
<1>20. CASE ~Arr(m, s).user
    <2>1. SoundBut(e, s) /\ ~Arr(e, s).user
        BY <1>9, <1>11, <1>13, <1>20, AffectsSoundBut
    <2>2. IsRemoved(q, e, s)
        BY <1>12, <2>1, DisconnectIs
    <2> HIDE DEF q
    <2>3. \A r \in Slots : q.user[r].flush <=> m.user[r].flush /\ r # s
        <3>1. ~q.user[s].flush
            BY <2>2 DEF IsRemoved, NoUser
        <3> QED  BY <1>16, <2>2, <3>1 DEF IsRemoved
    <2>4. ASSUME NEW r \in Used(m), Arr(m, r).user
          PROVE  /\ r \in Used(q) /\ Arr(q, r).user
                 /\ ~q.user[r].flush /\ (m.user[r].flush \/ Stuck(m, r)) => Stuck(q, r)
        <3>1. r \in Used(m) \ {s} /\ r \in Slots
            BY <1>20, <2>4 DEF Used
        <3>2. Conn(m, r) \in Conns \ {Conn(m, s)} /\ Conn(e, r) = Conn(m, r) /\ Conn(m, r) # NoConn
            BY <1>2, <1>14, <3>1, UsedIs DEF Used
        <3>3. q.user[r] = e.user[r] /\ q.user[r] = m.user[r] /\ Conn(q, r) = Conn(e, r)
            BY <1>16, <2>2, <3>1 DEF IsRemoved, Conn
        <3>4. Arr(q, r) = Arr(e, r)
            BY <1>13, <2>2, <3>2, <3>3 DEF IsRemoved, Arr
        <3>5. Stuck(e, r) => Stuck(q, r)
            BY <2>2, <3>3, <3>4 DEF IsRemoved, Stuck
        <3> QED  BY <1>14, <1>17, <2>4, <3>1, <3>2, <3>3, <3>4, <3>5 DEF Used
    <2>5. Fresh(q, m)
        <3>1. \A c \in Conns : e.obj[c].slot = 0 => q.obj[c].slot = 0
            BY <2>2 DEF IsRemoved, NoObject
        <3> QED  BY <1>18, <3>1 DEF Fresh
    <2> QED  BY <1>1, <1>11, <1>13, <2>2, <2>3, <2>4, <2>5 DEF UserIsFlushed, Keeps, IsRemoved
<1> QED  BY <1>19, <1>20

---------------------------------------------------------------------------
(* comm_flush(), for all users.                                            *)

LEMMA KeepsMore ==
    ASSUME NEW m, NEW x, NEW y, Keeps(x, m), Keeps(y, x), Fresh(x, m), Fresh(y, x)
    PROVE  Keeps(y, m) /\ Fresh(y, m)
<1>1. Fresh(y, m)
    BY DEF Fresh
<1>2. Keeps(y, m)
    <2> SUFFICES ASSUME NEW r \in Used(m), Arr(m, r).user
                 PROVE  /\ r \in Used(y) /\ Arr(y, r).user
                        /\ ~y.user[r].flush /\ (m.user[r].flush \/ Stuck(m, r)) => Stuck(y, r)
        BY DEF Keeps
    <2>1. /\ r \in Used(x) /\ Arr(x, r).user
          /\ ~x.user[r].flush /\ (m.user[r].flush \/ Stuck(m, r)) => Stuck(x, r)
        BY DEF Keeps
    <2>2. /\ r \in Used(y) /\ Arr(y, r).user
          /\ ~y.user[r].flush /\ (x.user[r].flush \/ Stuck(x, r)) => Stuck(y, r)
        BY <2>1 DEF Keeps
    <2> QED  BY <2>1, <2>2
<1> QED  BY <1>1, <1>2

LEMMA OtherListSound ==
    ASSUME NEW m, Sound(m), NEW f \in Seq(Slots)
    PROVE  LET q == [m EXCEPT !.flush = f]
           IN /\ Sound(q) /\ q.flush = f
              /\ q.user = m.user /\ q.obj = m.obj /\ q.wait = m.wait
<1> DEFINE q == [m EXCEPT !.flush = f]
<1>1. m \in Comms
    BY DEF Sound
<1>2. /\ q \in Comms /\ q.flush = f /\ q.user = m.user /\ q.obj = m.obj /\ q.wait = m.wait
      /\ q.got = m.got /\ q.ring = m.ring /\ q.freeuser = m.freeuser /\ q.newlines = m.newlines
      /\ q.odone = m.odone /\ q.nusers = m.nusers
    BY <1>1 DEF Comms
<1> HIDE DEF q
<1>3. \A r : Conn(q, r) = Conn(m, r) /\ Arr(q, r) = Arr(m, r)
    BY <1>2 DEF Conn, Arr
<1>4. Used(q) = Used(m)
    BY <1>3 DEF Used
<1>5. Lines(q) = Lines(m)
    BY <1>2 DEF Lines
<1>6. Linked(q)
    BY <1>2, <1>3, <1>4 DEF Sound, Linked
<1>7. Shares(q) /\ Sums(q)
    BY <1>2, <1>4, <1>5 DEF Sound, Shares, Sums
<1>8. /\ \A r \in Slots : InputSound(q.user[r])
      /\ \A r \in Used(q) : OutputSound(q.user[r], Arr(q, r), q.got[Conn(q, r)])
    BY <1>2, <1>3, <1>4 DEF Sound
<1>9. Sound(q)
    BY <1>2, <1>6, <1>7, <1>8 DEF Sound
<1> QED  BY <1>2, <1>9 DEF q

LEMMA InListUsed ==
    ASSUME NEW m, Sound(m), NEW s \in Slots, m.user[s].flush
    PROVE  s \in Used(m)
BY DEF Sound, Linked, NoUser

AllFlushed(q, m) ==
    /\ Sound(q) /\ q.flush = << >>
    /\ \A r \in Slots : ~q.user[r].flush
    /\ Keeps(q, m) /\ Fresh(q, m)

LEMMA FlushedIs ==
    ASSUME NEW m, Sound(m), ListSound(m), NEW takes \in Takes
    PROVE  AllFlushed(Flushed(m, takes), m)
<1> DEFINE n == Len(m.flush)
           none == << >>
           x == [m EXCEPT !.flush = none]
           F(f) == [k \in 0 .. n |-> IF k = 0 THEN x ELSE FlushUser(f[k - 1], m.flush[k], takes)]
           after == CHOOSE f : f = F(f)
           Can(y, k) == Sound(y) /\ m.flush[k] \in Used(y) /\ y.user[m.flush[k]].flush
           Op == [p \in Comms \X (1 .. n) |->
                    IF Can(p[1], p[2]) THEN FlushUser(p[1], m.flush[p[2]], takes) ELSE p[1]]
           W(y, k) == /\ Sound(y) /\ y.flush = none
                      /\ \A r \in Slots : y.user[r].flush <=> \E j \in k + 1 .. n : m.flush[j] = r
                      /\ Keeps(y, m) /\ Fresh(y, m)
<1>1. m \in Comms /\ m.flush \in Seq(Slots) /\ n \in Nat /\ DOMAIN m.flush = 1 .. n
    BY DEF Sound, Comms
<1>2. none \in Seq(Slots)
    OBVIOUS
<1>3. Flushed(m, takes) = after[n]
    BY DEF Flushed
<1>4. \A k \in 1 .. n : m.flush[k] \in Slots
    BY <1>1
<1> HIDE DEF n, none
<1>5. W(x, 0)
    <2>1. /\ Sound(x) /\ x.flush = none /\ x.user = m.user /\ x.obj = m.obj /\ x.wait = m.wait
        BY <1>2, OtherListSound
    <2> HIDE DEF x
    <2>2. \A r : Conn(x, r) = Conn(m, r) /\ Arr(x, r) = Arr(m, r) /\ (Stuck(x, r) <=> Stuck(m, r))
        BY <2>1 DEF Conn, Arr, Stuck
    <2>3. Used(x) = Used(m)
        BY <2>2 DEF Used
    <2>4. Keeps(x, m)
        BY <2>1, <2>2, <2>3 DEF Keeps
    <2>5. Fresh(x, m)
        BY <2>1 DEF Fresh
    <2>6. \A r \in Slots : x.user[r].flush <=> \E j \in 0 + 1 .. n : m.flush[j] = r
        <3>1. \A r \in Slots : x.user[r].flush <=> r \in ToSet(m.flush)
            BY <2>1 DEF ListSound
        <3> QED  BY <1>1, <3>1 DEF ToSet
    <2> QED  BY <2>1, <2>4, <2>5, <2>6
<1>6. ASSUME NEW k \in 1 .. n, NEW y, W(y, k - 1)
      PROVE  /\ Can(y, k)
             /\ W(FlushUser(y, m.flush[k], takes), k)
    <2> DEFINE s == m.flush[k]
               z == FlushUser(y, s, takes)
    <2>1. s \in Slots /\ y.user[s].flush
        <3>1. k \in (k - 1) + 1 .. n
            BY <1>1
        <3> QED  BY <1>4, <1>6, <3>1
    <2>2. s \in Used(y)
        BY <1>6, <2>1, InListUsed
    <2>3. UserIsFlushed(z, y, s)
        BY <1>6, <2>1, <2>2, FlushUserIs
    <2> HIDE DEF z
    <2>4. \A r \in Slots : z.user[r].flush <=> \E j \in k + 1 .. n : m.flush[j] = r
        <3>1. \A i, j \in 1 .. n : m.flush[i] = m.flush[j] => i = j
            BY <1>1 DEF ListSound, IsInjective
        <3> TAKE r \in Slots
        <3>2. z.user[r].flush <=> (\E j \in k .. n : m.flush[j] = r) /\ r # m.flush[k]
            <4>1. z.user[r].flush <=> y.user[r].flush /\ r # s
                BY <2>3 DEF UserIsFlushed
            <4>2. y.user[r].flush <=> \E j \in (k - 1) + 1 .. n : m.flush[j] = r
                BY <1>6
            <4>3. (k - 1) + 1 = k
                BY <1>1
            <4> QED  BY <4>1, <4>2, <4>3
        <3>3. \A j \in k .. n : j # k => j \in k + 1 .. n
            BY <1>1
        <3>4. \A j \in k + 1 .. n : j \in k .. n /\ j \in 1 .. n /\ j # k
            BY <1>1
        <3>5. k \in 1 .. n
            OBVIOUS
        <3> QED  BY <3>1, <3>2, <3>3, <3>4, <3>5
    <2>5. Keeps(z, m) /\ Fresh(z, m)
        BY <1>6, <2>3, KeepsMore DEF UserIsFlushed
    <2>6. Sound(z) /\ z.flush = none
        BY <1>6, <2>3 DEF UserIsFlushed
    <2> QED  BY <1>6, <2>1, <2>2, <2>4, <2>5, <2>6 DEF z
<1>7. Op \in [Comms \X (1 .. n) -> Comms]
    <2>1. ASSUME NEW p \in Comms \X (1 .. n)
          PROVE  (IF Can(p[1], p[2]) THEN FlushUser(p[1], m.flush[p[2]], takes) ELSE p[1]) \in Comms
        <3>1. CASE Can(p[1], p[2])
            <4>1. UserIsFlushed(FlushUser(p[1], m.flush[p[2]], takes), p[1], m.flush[p[2]])
                BY <3>1, FlushUserIs
            <4> QED  BY <3>1, <4>1 DEF UserIsFlushed, Sound
        <3> QED  BY <3>1
    <2> HIDE DEF Can
    <2> QED  BY <2>1
<1>8. x \in Comms
    BY <1>5 DEF Sound
<1>9. \E f : f = F(f)
    <2> HIDE DEF Op, x, Can, W
    <2>1. PICK f \in [0 .. n -> Comms] : Walks(f, n, x, Op)
        BY <1>1, <1>7, <1>8, WalkExists
    <2> DEFINE T == {k \in 0 .. n : W(f[k], k)}
    <2>2. f[0] = x /\ \A k \in 1 .. n : f[k] = Op[<< f[k - 1], k >>]
        <3> HIDE DEF F
        <3>1. \A k \in 0 .. n : f[k] = IF k = 0 THEN x ELSE Op[<< f[k - 1], k >>]
            BY <2>1 DEF Walks
        <3>2. 0 \in 0 .. n /\ \A k \in 1 .. n : k \in 0 .. n /\ k # 0
            BY <1>1
        <3> QED  BY <3>1, <3>2
    <2>3. \A k \in 1 .. n : W(f[k - 1], k - 1) => f[k] = FlushUser(f[k - 1], m.flush[k], takes)
        <3> TAKE k \in 1 .. n
        <3>1. << f[k - 1], k >> \in Comms \X (1 .. n)
            BY <1>1
        <3> QED  BY <1>6, <2>2, <3>1 DEF Op
    <2>4. \A k \in 0 .. n : k \in T
        <3>1. 0 \in T
            BY <1>1, <1>5, <2>2
        <3>2. ASSUME NEW k \in 1 .. n, k - 1 \in T
              PROVE  k \in T
            <4>1. W(f[k], k)
                BY <1>6, <2>3, <3>2
            <4> QED  BY <1>1, <4>1
        <3> HIDE DEF T
        <3> QED  BY <1>1, <3>1, <3>2, StepByStep
    <2>5. f = F(f)
        <3>1. \A k \in 1 .. n : k - 1 \in 0 .. n
            BY <1>1
        <3>2. \A k \in 1 .. n : f[k] = FlushUser(f[k - 1], m.flush[k], takes)
            BY <2>3, <2>4, <3>1
        <3>3. \A k \in 0 .. n :
                 f[k] = IF k = 0 THEN x ELSE FlushUser(f[k - 1], m.flush[k], takes)
            <4>1. \A k \in 0 .. n : k # 0 => k \in 1 .. n
                BY <1>1
            <4> QED  BY <2>2, <3>2, <4>1
        <3>4. f = [k \in 0 .. n |-> f[k]]
            BY <2>1
        <3> QED  BY <3>3, <3>4
    <2> QED  BY <2>5
<1>10. after = F(after)
    <2> HIDE DEF F
    <2> QED  BY <1>9
<1> HIDE DEF after
<1>11. after[0] = x /\ \A k \in 1 .. n : after[k] = FlushUser(after[k - 1], m.flush[k], takes)
    BY <1>1, <1>10
<1> HIDE DEF F, W, x, Op
<1> DEFINE T == {k \in 0 .. n : W(after[k], k)}
<1>12. \A k \in 0 .. n : k \in T
    <2>1. 0 \in T
        BY <1>1, <1>5, <1>11
    <2>2. ASSUME NEW k \in 1 .. n, k - 1 \in T
          PROVE  k \in T
        <3>1. W(after[k], k)
            BY <1>6, <1>11, <2>2
        <3> QED  BY <1>1, <3>1
    <2> HIDE DEF T
    <2> QED  BY <1>1, <2>1, <2>2, StepByStep
<1>13. W(after[n], n)
    BY <1>1, <1>12
<1>14. \A r \in Slots : ~after[n].user[r].flush
    <2>1. \A j \in n + 1 .. n : FALSE
        BY <1>1
    <2> QED  BY <1>13, <2>1 DEF W
<1> QED  BY <1>3, <1>13, <1>14 DEF W, AllFlushed, none

---------------------------------------------------------------------------
(* The other users, and the flush list.                                    *)

OthersAre(q, m, s) ==
    /\ Used(q) = Used(m) /\ Fresh(q, m) /\ q.ring = m.ring
    /\ \A r \in Used(m) \ {s} : q.user[r] = m.user[r] /\ (Stuck(q, r) <=> Stuck(m, r))

LEMMA AltersOthers ==
    ASSUME NEW m \in Comms, Linked(m), NEW s \in Used(m), NEW q, Alters(q, m, s)
    PROVE  OthersAre(q, m, s)
<1>1. /\ Used(q) = Used(m) /\ \A r \in Slots : Conn(q, r) = Conn(m, r)
      /\ \A r \in Used(m) \ {s} : Conn(m, r) # Conn(m, s) /\ Arr(q, r) = Arr(m, r)
    BY AltersUsed
<1>2. ASSUME NEW r \in Used(m) \ {s}
      PROVE  q.user[r] = m.user[r] /\ (Stuck(q, r) <=> Stuck(m, r))
    <2>1. r \in Slots /\ Conn(m, r) \in Conns \ {Conn(m, s)} /\ Conn(q, r) = Conn(m, r)
        BY <1>1, UsedIs, CommsCounting
    <2>2. q.user[r] = m.user[r] /\ (Conn(m, r) \in q.wait <=> Conn(m, r) \in m.wait)
        BY <2>1 DEF Alters
    <2> QED  BY <1>1, <2>1, <2>2 DEF Stuck
<1>3. Fresh(q, m)
    <2>1. \A c \in Conns \ {Conn(m, s)} : q.obj[c] = m.obj[c]
        BY DEF Alters
    <2>2. q.obj[Conn(m, s)].slot = m.obj[Conn(m, s)].slot
        BY DEF Alters
    <2> QED  BY <2>1, <2>2 DEF Fresh
<1> QED  BY <1>1, <1>2, <1>3 DEF OthersAre, Alters

LEMMA SameListSound ==
    ASSUME NEW m, ListSound(m), NEW s \in Slots, NEW q, q.flush = m.flush,
           \A r \in Slots \ {s} : q.user[r] = m.user[r],
           q.user[s].flush = m.user[s].flush
    PROVE  ListSound(q)
<1>1. \A r \in Slots : q.user[r].flush = m.user[r].flush
    OBVIOUS
<1> QED  BY <1>1 DEF ListSound

LEMMA PushedListSound ==
    ASSUME NEW m, ListSound(m), m.flush \in Seq(Slots), NEW s \in Slots, NEW q,
           q.flush = (IF m.user[s].flush THEN m.flush ELSE << s >> \o m.flush),
           \A r \in Slots \ {s} : q.user[r] = m.user[r],
           q.user[s].flush
    PROVE  ListSound(q)
<1>1. CASE m.user[s].flush
    <2>1. \A r \in Slots : q.user[r].flush <=> m.user[r].flush
        BY <1>1
    <2> QED  BY <1>1, <2>1 DEF ListSound
<1>2. CASE ~m.user[s].flush
    <2>1. s \notin ToSet(m.flush) /\ IsInjective(m.flush)
        BY <1>2 DEF ListSound
    <2>2. IsInjective(q.flush) /\ ToSet(q.flush) = ToSet(m.flush) \cup {s}
        BY <1>2, <2>1, PushInjective
    <2>3. {r \in Slots : q.user[r].flush} = {r \in Slots : m.user[r].flush} \cup {s}
        OBVIOUS
    <2> QED  BY <2>2, <2>3 DEF ListSound
<1> QED  BY <1>1, <1>2

LEMMA EmptyListSound ==
    ASSUME NEW m, m.flush = << >>, \A r \in Slots : ~m.user[r].flush
    PROVE  ListSound(m)
<1>1. IsInjective(<< >>) /\ ToSet(<< >>) = {}
    BY DEF IsInjective, ToSet
<1> QED  BY <1>1 DEF ListSound

(* Nobody is in an empty list.                                             *)
LEMMA EmptyList ==
    ASSUME NEW m, ListSound(m), m.flush = << >>, NEW s \in Slots
    PROVE  ~m.user[s].flush
<1>1. ToSet(<< >>) = {}
    BY DEF ToSet
<1> QED  BY <1>1 DEF ListSound

---------------------------------------------------------------------------
(* What a thread does to one user.                                         *)

LEMMA InFlushOutput ==
    ASSUME NEW u \in User, NEW o \in Object, NEW g, OutputSound(u, o, g)
    PROVE  OutputSound(InFlush(u, o), o, g)
<1> DEFINE v == InFlush(u, o)
<1>1. v.flush /\ v.oindex = u.oindex /\ v.echo = u.echo
    BY InFlushIs
<1>2. BufferSound(v, o) /\ Rest(v, o) = Rest(u, o)
    BY InFlushSound DEF OutputSound
<1> HIDE DEF v
<1>3. End(v, o, g) = End(u, o, g)
    BY <1>2 DEF End
<1>4. FlushedSound(v, o) /\ OrderSound(v, o, g) /\ EchoSound(v, o, g)
    BY <1>1, <1>3 DEF OutputSound, FlushedSound, OrderSound, EchoSound
<1> QED  BY <1>2, <1>4 DEF OutputSound, v

(* The object may change otherwise, when the user is in the list.          *)
LEMMA OtherObject ==
    ASSUME NEW u, NEW o, NEW p, NEW g, OutputSound(u, o, g), u.flush,
           p.buffer = o.buffer, p.first = o.first, p.written = o.written
    PROVE  OutputSound(u, p, g)
<1>1. SentBy(u, p) = SentBy(u, o)
    BY DEF SentBy
<1>2. BufferSound(u, p) /\ End(u, p, g) = End(u, o, g)
    BY <1>1 DEF OutputSound, BufferSound, End, Rest
<1> QED  BY <1>2 DEF OutputSound, FlushedSound, OrderSound, EchoSound

(* q may come after one operation, whether or not it is taken back.        *)
OperationIs(q, m, s) ==
    /\ Affects(q, m, s) /\ q.user[s].flush
    /\ q.got = m.got /\ q.wait = m.wait
    /\ q.flush = (IF m.user[s].flush THEN m.flush ELSE << s >> \o m.flush)
    /\ OutputSound(q.user[s], Arr(q, s), m.got[Conn(m, s)])
    /\ OutputSound(q.user[s], Arr(m, s), m.got[Conn(m, s)])

LEMMA RolledBack ==
    ASSUME NEW m \in Counting, NEW s \in Used(m), NEW q, OperationIs(q, m, s)
    PROVE  OperationIs([q EXCEPT !.obj = m.obj], m, s)
<1> DEFINE r == [q EXCEPT !.obj = m.obj]
<1>1. q \in Counting /\ m.obj \in [Conns -> Object] /\ Conn(q, s) = Conn(m, s)
    BY CountingFields DEF OperationIs, Affects
<1>2. /\ r \in Counting /\ r.obj = m.obj
      /\ r.user = q.user /\ r.flush = q.flush
      /\ r.ring = q.ring /\ r.freeuser = q.freeuser /\ r.newlines = q.newlines
      /\ r.odone = q.odone /\ r.nusers = q.nusers /\ r.wait = q.wait /\ r.got = q.got
    BY <1>1 DEF Counting
<1> HIDE DEF r
<1>3. Conn(r, s) = Conn(m, s) /\ Arr(r, s) = Arr(m, s)
    BY <1>1, <1>2 DEF Conn, Arr
<1>4. Affects(r, m, s)
    BY <1>2, <1>3 DEF OperationIs, Affects
<1> QED  BY <1>2, <1>3, <1>4 DEF OperationIs, r

(* p is o but for what comm_flush() looks at later.                        *)
LEMMA ObjectChanged ==
    ASSUME NEW m, Sound(m), NEW s \in Used(m), NEW p \in Object,
           p.slot = Arr(m, s).slot, p.buffer = Arr(m, s).buffer, p.first = Arr(m, s).first,
           p.written = Arr(m, s).written
    PROVE  LET a == AddToFlush(m, s)
           IN OperationIs([a EXCEPT !.obj = [a.obj EXCEPT ![Conn(m, s)] = p]], m, s)
<1> DEFINE a == AddToFlush(m, s)
           u == m.user[s]
           o == Arr(m, s)
           g == m.got[Conn(m, s)]
           c == Conn(m, s)
           v == InFlush(u, o)
           q == [a EXCEPT !.obj = [a.obj EXCEPT ![c] = p]]
<1>1. /\ m \in Counting /\ s \in Slots /\ c \in Conns
      /\ u \in User /\ o \in Object /\ g \in Got /\ OutputSound(u, o, g)
    BY SoundIs
<1>2. /\ Affects(a, m, s) /\ a.user[s] = v
      /\ a.obj = m.obj /\ a.got = m.got /\ a.wait = m.wait
      /\ a.flush = IF u.flush THEN m.flush ELSE << s >> \o m.flush
    BY <1>1, AddToFlushIs
<1> HIDE DEF a
<1>3. a \in Counting /\ Conn(a, s) = c /\ s \in Used(a) /\ Arr(a, s) = o
    BY <1>1, <1>2 DEF Affects, Used, Arr
<1>4. v \in User /\ v.flush
    BY <1>1, InFlushIs
<1>5. OutputSound(v, o, g)
    BY <1>1, InFlushOutput
<1> HIDE DEF v
<1>6. OutputSound(v, p, g)
    BY <1>4, <1>5, OtherObject
<1>7. a.got[c] = g /\ a.wait \in SUBSET Conns
    BY <1>2, <1>3, CountingFields
<1>8. q = Put(a, s, v, p, g, a.wait)
    <2>1. /\ [a.user EXCEPT ![s] = v] = a.user
          /\ [a.got EXCEPT ![c] = g] = a.got
          /\ a.odone + D(v.odone) - D(v.odone) = a.odone
        BY <1>2, <1>3, <1>7, Same
    <2> HIDE DEF o, u, g, c
    <2>2. /\ q.user = a.user /\ q.odone = a.odone /\ q.got = a.got /\ q.wait = a.wait
        BY <1>3 DEF Counting
    <2> QED  BY <1>2, <1>3, <2>1 DEF Put, Counting
<1>9. PutIsDone(q, a, s, v, p, g, a.wait)
    <2>1. Follows(v, p, a.user[s], Arr(a, s))
        BY <1>2, <1>3, <1>4 DEF Follows
    <2> HIDE DEF q, o, u, g, c
    <2>2. g \in Got
        BY <1>1
    <2> QED  BY <1>3, <1>7, <1>8, <2>1, <2>2, PutIs
<1> HIDE DEF q
<1>10. /\ Affects(q, a, s) /\ q.user[s] = v /\ Arr(q, s) = p /\ q.got[c] = g
       /\ q.flush = a.flush /\ q.wait = m.wait
    BY <1>2, <1>3, <1>9 DEF PutIsDone
<1>11. Affects(q, m, s)
    BY <1>1, <1>2, <1>10, AffectsMore
<1>12. q.got = m.got
    <2>1. \A d \in Conns \ {c} : q.got[d] = m.got[d]
        BY <1>11 DEF Affects, c
    <2>2. q.got \in [Conns -> Got] /\ m.got \in [Conns -> Got]
        <3>1. q \in Counting
            BY <1>11 DEF Affects
        <3> QED  BY <1>1, <3>1, CountingFields
    <2> QED  BY <1>10, <2>1, <2>2 DEF g
<1>13. OperationIs(q, m, s)
    BY <1>2, <1>4, <1>5, <1>6, <1>10, <1>11, <1>12 DEF OperationIs, o, u, g, c
<1> QED  BY <1>13 DEF q, c, a

---------------------------------------------------------------------------
(* Operations of a thread.                                                 *)

Nets == [new : SUBSET Conns, closed : SUBSET Conns, read : 0 .. MaxRead]

LEMMA TypeIs == TypeOK <=> comm \in Comms /\ net \in Nets
BY DEF TypeOK, Comms, Nets

LEMMA StepSound ==
    ASSUME IInv, Sound(comm'), ListSound(comm'), Fresh(comm', comm),
           net' \in Nets, net'.new \subseteq net.new, PcSound'
    PROVE  IInv'
<1>1. comm' \in Comms
    BY DEF Sound
<1>2. TypeOK'
    BY <1>1 DEF TypeOK, Comms, Nets
<1>3. NewUnknown'
    <2>1. net.new \subseteq Conns
        BY TypeIs DEF IInv, Nets
    <2> QED  BY <2>1 DEF IInv, NewUnknown, Fresh
<1> QED  BY <1>2, <1>3 DEF IInv

LEMMA NoPeer ==
    ASSUME IInv, UNCHANGED net
    PROVE  net' \in Nets /\ net'.new \subseteq net.new
BY TypeIs DEF IInv

(* The user of an object.                                                  *)
LEMMA SlotIs ==
    ASSUME NEW m, Sound(m), NEW c \in Conns, m.obj[c].user
    PROVE  LET s == m.obj[c].slot
           IN s \in Used(m) /\ Conn(m, s) = c /\ Arr(m, s) = m.obj[c]
<1> DEFINE s == m.obj[c].slot
<1>1. s # 0
    BY DEF Sound, Linked, NoObject
<1>2. Conn(m, s) = c
    BY <1>1 DEF Sound, Linked
<1>3. m.obj[c] \in Object
    BY CommsCounting, CountingFields DEF Sound
<1>4. s \in Slots
    BY <1>1, <1>3, ObjectFields
<1>5. c # NoConn
    BY ConstantsAre
<1> QED  BY <1>2, <1>4, <1>5 DEF Used, Arr

LEMMA OperationSound ==
    ASSUME NEW m, Sound(m), ListSound(m), NEW s \in Used(m), NEW q, OperationIs(q, m, s)
    PROVE  /\ Sound(q) /\ ListSound(q) /\ OthersAre(q, m, s)
<1>1. /\ m \in Counting /\ m \in Comms /\ Linked(m) /\ s \in Slots
    BY SoundIs
<1>2. Affects(q, m, s) /\ Conn(q, s) = Conn(m, s) /\ q.got = m.got
    BY DEF OperationIs, Affects
<1>3. Sound(q)
    <2>1. OutputSound(q.user[s], Arr(q, s), q.got[Conn(q, s)])
        BY <1>2 DEF OperationIs
    <2> QED  BY <1>2, <2>1, AffectsSound
<1>4. Alters(q, m, s)
    BY <1>1, <1>2, AffectsAlters
<1>5. OthersAre(q, m, s)
    BY <1>1, <1>4, AltersOthers
<1>6. ListSound(q)
    <2>1. m.flush \in Seq(Slots)
        BY <1>1, CountingFields
    <2>2. \A r \in Slots \ {s} : q.user[r] = m.user[r]
        BY <1>2 DEF Affects
    <2> QED  BY <1>1, <2>1, <2>2, PushedListSound DEF OperationIs
<1> QED  BY <1>3, <1>5, <1>6

LEMMA OperationKeeps ==
    ASSUME IInv, NEW s \in Used(comm), NEW new, OperationIs(new, comm, s), Operation(new)
    PROVE  IInv'
<1>1. Sound(comm) /\ ListSound(comm) /\ comm \in Counting
    BY SoundIs DEF IInv
<1>2. OperationIs(comm', comm, s)
    <2>1. comm' = new \/ comm' = [new EXCEPT !.obj = comm.obj]
        BY DEF Operation
    <2>2. OperationIs([new EXCEPT !.obj = comm.obj], comm, s)
        BY <1>1, RolledBack
    <2> QED  BY <2>1, <2>2
<1>3. Sound(comm') /\ ListSound(comm') /\ OthersAre(comm', comm, s)
    BY <1>1, <1>2, OperationSound
<1>4. /\ pc.at = "thread" /\ UNCHANGED net
      /\ pc'.at = "thread" /\ pc'.next = pc.next /\ pc'.usr = pc.usr /\ pc'.i = pc.i
    BY DEF Operation
<1>5. PcSound'
    <2>1. PcSound /\ comm'.user[s].flush
        BY <1>2 DEF IInv, OperationIs
    <2>2. pc.next = "input" =>
             /\ pc.usr \in Used(comm')
             /\ ~comm'.user[pc.usr].flush => Stuck(comm', pc.usr)
             /\ pc.i \in Nat
        BY <1>3, <1>4, <2>1 DEF PcSound, OthersAre
    <2> QED  BY <1>4, <2>1, <2>2 DEF PcSound
<1> QED  BY <1>3, <1>4, <1>5, NoPeer, StepSound DEF OthersAre

LEMMA EchoKeeps ==
    ASSUME IInv, NEW c \in Conns, Echo(c)
    PROVE  IInv'
<1> DEFINE s == comm.obj[c].slot
           o == comm.obj[c]
           a == AddToFlush(comm, s)
           p == [o EXCEPT !.echo = ~o.echo]
           new == [a EXCEPT !.obj = [a.obj EXCEPT ![c] = p]]
<1>1. Sound(comm) /\ comm \in Counting /\ o.user
    BY CommsCounting DEF IInv, Sound, Echo, IsUser
<1>2. s \in Used(comm) /\ Conn(comm, s) = c /\ Arr(comm, s) = o
    BY <1>1, SlotIs
<1>3. o \in Object
    BY <1>1, CountingFields
<1>4. /\ p \in Object /\ p.slot = o.slot /\ p.buffer = o.buffer /\ p.first = o.first
      /\ p.written = o.written
    BY <1>3 DEF Object
<1> HIDE DEF p
<1>5. OperationIs(new, comm, s)
    <2> HIDE DEF s, o, new
    <2> QED  BY <1>1, <1>2, <1>4, ObjectChanged DEF new
<1>6. a.obj = comm.obj /\ a \in Counting
    <2> HIDE DEF s, a
    <2> QED  BY <1>1, <1>2, AddToFlushIs DEF Affects, a
<1>7. new = [a EXCEPT !.obj[c].echo = ~@]
    <2> HIDE DEF s, a
    <2> QED  BY <1>1, <1>6, CountingFields DEF Counting, p
<1>8. Operation(new)
    BY <1>7 DEF Echo
<1> HIDE DEF new, s
<1> QED  BY <1>2, <1>5, <1>8, OperationKeeps

LEMMA BlockKeeps ==
    ASSUME IInv, NEW c \in Conns, Block(c)
    PROVE  IInv'
<1> DEFINE s == comm.obj[c].slot
           o == comm.obj[c]
           a == AddToFlush(comm, s)
           p == [o EXCEPT !.blocked = ~o.blocked]
           new == [a EXCEPT !.obj = [a.obj EXCEPT ![c] = p]]
<1>1. Sound(comm) /\ comm \in Counting /\ o.user
    BY CommsCounting DEF IInv, Sound, Block, IsUser
<1>2. s \in Used(comm) /\ Conn(comm, s) = c /\ Arr(comm, s) = o
    BY <1>1, SlotIs
<1>3. o \in Object
    BY <1>1, CountingFields
<1>4. /\ p \in Object /\ p.slot = o.slot /\ p.buffer = o.buffer /\ p.first = o.first
      /\ p.written = o.written
    BY <1>3 DEF Object
<1> HIDE DEF p
<1>5. OperationIs(new, comm, s)
    <2> HIDE DEF s, o, new
    <2> QED  BY <1>1, <1>2, <1>4, ObjectChanged DEF new
<1>6. a.obj = comm.obj /\ a \in Counting
    <2> HIDE DEF s, a
    <2> QED  BY <1>1, <1>2, AddToFlushIs DEF Affects, a
<1>7. new = [a EXCEPT !.obj[c].blocked = ~@]
    <2> HIDE DEF s, a
    <2> QED  BY <1>1, <1>6, CountingFields DEF Counting, p
<1>8. Operation(new)
    BY <1>7 DEF Block
<1> HIDE DEF new, s
<1> QED  BY <1>2, <1>5, <1>8, OperationKeeps

(* The object is a user no more.                                           *)
LEMMA UserOffIs ==
    ASSUME NEW m, Sound(m), NEW s \in Used(m), NEW c, c = Conn(m, s)
    PROVE  OperationIs([AddToFlush(m, s) EXCEPT !.obj[c].user = FALSE], m, s)
<1> DEFINE o == Arr(m, s)
           a == AddToFlush(m, s)
           p == [o EXCEPT !.user = FALSE]
           new == [a EXCEPT !.obj = [a.obj EXCEPT ![c] = p]]
<1>1. m \in Counting /\ c \in Conns /\ o \in Object /\ o = m.obj[c]
    BY SoundIs DEF Arr
<1>4. /\ p \in Object /\ p.slot = o.slot /\ p.buffer = o.buffer /\ p.first = o.first
      /\ p.written = o.written
    BY <1>1 DEF Object
<1> HIDE DEF p
<1>5. OperationIs(new, m, s)
    <2> HIDE DEF o, new
    <2> QED  BY <1>1, <1>4, ObjectChanged DEF new, o
<1>6. a.obj = m.obj /\ a \in Counting
    <2> HIDE DEF a
    <2> QED  BY <1>1, AddToFlushIs DEF Affects, a
<1>7. new = [a EXCEPT !.obj[c].user = FALSE]
    <2> HIDE DEF a, o
    <2> QED  BY <1>1, <1>6, CountingFields DEF Counting, p
<1> QED  BY <1>5, <1>7

LEMMA DestructKeeps ==
    ASSUME IInv, NEW c \in Conns, Destruct(c)
    PROVE  IInv'
<1> DEFINE s == comm.obj[c].slot
           new == [AddToFlush(comm, s) EXCEPT !.obj[c].user = FALSE]
<1>1. Sound(comm) /\ comm.obj[c].user
    BY DEF IInv, Destruct, IsUser
<1>2. s \in Used(comm) /\ Conn(comm, s) = c
    BY <1>1, SlotIs
<1>3. Operation(new)
    BY DEF Destruct
<1> HIDE DEF s
<1>4. OperationIs(new, comm, s)
    BY <1>1, <1>2, UserOffIs
<1> HIDE DEF new
<1> QED  BY <1>2, <1>3, <1>4, OperationKeeps

(* The user of a write that is taken back.                                 *)
LEMMA WriteUserOutput ==
    ASSUME NEW u \in User, NEW o \in Object, NEW g, OutputSound(u, o, g)
    PROVE  OutputSound(WriteUser(u, o), o, g)
<1> DEFINE v == InFlush(u, o)
           w == WriteUser(u, o)
<1>1. v.osdone = u.osdone /\ v.odone = u.odone /\ v.flush /\ v.oindex = u.oindex /\ v.echo = u.echo
    BY InFlushIs
<1>2. /\ w.flush /\ w.outbuf = v.outbuf /\ w.osdone = u.osdone /\ w.echo = u.echo
      /\ w.oindex = u.oindex /\ w.odone = (u.odone /\ o.buffer # << >>)
    BY WriteUserIs
<1>3. OutputSound(v, o, g)
    BY InFlushOutput
<1> HIDE DEF v, w
<1>4. SentBy(w, o) = SentBy(v, o)
    BY <1>1, <1>2 DEF SentBy
<1>5. u.odone => o.buffer = << >>
    BY DEF OutputSound, BufferSound
<1>6. BufferSound(w, o) /\ End(w, o, g) = End(v, o, g)
    BY <1>1, <1>2, <1>3, <1>4, <1>5 DEF OutputSound, BufferSound, End, Rest
<1>7. OutputSound(w, o, g)
    BY <1>1, <1>2, <1>3, <1>6 DEF OutputSound, FlushedSound, OrderSound, EchoSound
<1> QED  BY <1>7 DEF w

LEMMA WrittenIs ==
    ASSUME NEW m, Sound(m), NEW s \in Used(m), NEW c, c = Conn(m, s), m.obj[c].slot = s,
           m.obj[c].written < MaxSent
    PROVE  OperationIs(Written(m, c), m, s)
<1> DEFINE u == m.user[s]
           o == Arr(m, s)
           g == m.got[c]
           b == o.written + 1
           a == Write(m, s, b)
           v == WriteUser(u, o)
           x == WriteObject(u, o, b)
           n == IF RoomBy(u, o) THEN o.written + 1 ELSE o.written
           p == [x EXCEPT !.written = n]
           q == Written(m, c)
<1>1. /\ m \in Counting /\ s \in Slots /\ c \in Conns /\ o = m.obj[c]
      /\ u \in User /\ o \in Object /\ g \in Got /\ OutputSound(u, o, g) /\ BufferSound(u, o)
    BY SoundIs DEF Arr, OutputSound
<1>2. o.written \in 0 .. MaxSent /\ o.written < MaxSent /\ MaxSent \in Nat
    BY <1>1, ObjectFields, ConstantsAre
<1>3. b \in Output /\ b \in Nat /\ b > 0 /\ b \in 0 .. MaxSent /\ n \in 0 .. MaxSent
    BY <1>2 DEF Output, REPLY
<1>4. q = [a EXCEPT !.obj[c].written = IF IsWritten(m, s) THEN @ + 1 ELSE @]
    BY <1>1 DEF Written
<1> HIDE DEF b, n
<1>5. WriteIsDone(a, m, s, b) /\ (IsWritten(m, s) <=> RoomBy(u, o))
    BY <1>1, <1>3, WriteIs
<1> HIDE DEF a, q
<1>6. /\ Affects(a, m, s) /\ a.user[s] = v /\ Arr(a, s) = x
      /\ a.got = m.got /\ a.wait = m.wait
      /\ a.flush = IF u.flush THEN m.flush ELSE << s >> \o m.flush
    BY <1>5 DEF WriteIsDone
<1>7. /\ x \in Object /\ BufferSound(v, x) /\ x.written = o.written /\ x.slot = o.slot
    BY <1>1, <1>3, WriteSound
<1>8. v \in User /\ v.flush /\ v.oindex = u.oindex /\ v.echo = u.echo
    BY <1>1, WriteUserIs
<1>9. /\ End(u, o, g) \in Got
      /\ End(v, x, g) = IF RoomBy(u, o) THEN Receives(End(u, o, g), b) ELSE End(u, o, g)
    BY <1>1, <1>3, WriteEnd
<1>10. OutputSound(v, o, g)
    BY <1>1, WriteUserOutput
<1> HIDE DEF v, x
<1>11. a \in Counting /\ Conn(a, s) = c /\ s \in Used(a) /\ a.obj[c] = x
    BY <1>1, <1>6 DEF Affects, Used, Arr
<1>12. /\ p \in Object /\ p.slot = o.slot /\ p.buffer = x.buffer /\ p.first = x.first
       /\ p.written = n
    BY <1>3, <1>7 DEF Object
<1>13. q = [a EXCEPT !.obj = [a.obj EXCEPT ![c] = p]]
    <2>1. n = IF IsWritten(m, s) THEN x.written + 1 ELSE x.written
        BY <1>5, <1>7 DEF n
    <2>2. a.obj \in [Conns -> Object]
        BY <1>11, CountingFields
    <2> QED  BY <1>1, <1>4, <1>11, <2>1, <2>2 DEF Counting
<1> HIDE DEF p
<1>14. OutputSound(v, p, g)
    <2>1. SentBy(v, p) = SentBy(v, x)
        BY <1>12 DEF SentBy
    <2>2. BufferSound(v, p) /\ End(v, p, g) = End(v, x, g)
        BY <1>7, <1>12, <2>1 DEF BufferSound, End, Rest
    <2> DEFINE e == End(u, o, g)
    <2>3. e \in Got /\ ~e.wrong /\ e.upto = o.written
          /\ (u.oindex \in Telnet => e.echo = (IF u.echo THEN WONT ELSE WILL))
        BY <1>1, <1>9 DEF OutputSound, OrderSound, EchoSound
    <2> HIDE DEF e
    <2>4. /\ ~End(v, p, g).wrong /\ End(v, p, g).upto = n
          /\ End(v, p, g).echo = e.echo
        <3>1. CASE RoomBy(u, o)
            <4>1. n = b /\ b = e.upto + 1
                BY <2>3, <3>1 DEF n, b
            <4>2. b \notin {WILL, WONT} /\ b # REPLY
                BY <1>3 DEF WILL, WONT, REPLY
            <4>3. Receives(e, b) = [e EXCEPT !.upto = b]
                BY <4>1, <4>2 DEF Receives
            <4>4. /\ [e EXCEPT !.upto = b].wrong = e.wrong /\ [e EXCEPT !.upto = b].upto = b
                  /\ [e EXCEPT !.upto = b].echo = e.echo
                BY <2>3 DEF Got
            <4> QED  BY <1>9, <2>2, <2>3, <3>1, <4>1, <4>3, <4>4 DEF e
        <3>2. CASE ~RoomBy(u, o)
            BY <1>9, <2>2, <2>3, <3>2 DEF e, n
        <3> QED  BY <3>1, <3>2
    <2> QED  BY <1>8, <1>12, <2>2, <2>3, <2>4
             DEF OutputSound, FlushedSound, OrderSound, EchoSound
<1>15. a.got[c] = g /\ a.wait \in SUBSET Conns /\ g \in Got
    BY <1>1, <1>6, <1>11, CountingFields
<1>16. q = Put(a, s, v, p, g, a.wait)
    <2>1. /\ [a.user EXCEPT ![s] = v] = a.user
          /\ [a.got EXCEPT ![c] = g] = a.got
          /\ a.odone + D(v.odone) - D(v.odone) = a.odone
        BY <1>6, <1>11, <1>15, Same
    <2> HIDE DEF o, u, g
    <2> QED  BY <1>6, <1>11, <1>13, <2>1 DEF Put, Counting
<1>17. PutIsDone(q, a, s, v, p, g, a.wait)
    <2>1. Follows(v, p, a.user[s], Arr(a, s))
        BY <1>6, <1>7, <1>8, <1>12 DEF Follows
    <2> HIDE DEF o, u, g
    <2> QED  BY <1>11, <1>15, <1>16, <2>1, PutIs
<1>18. /\ Affects(q, a, s) /\ q.user[s] = v /\ Arr(q, s) = p /\ q.got[c] = g
       /\ q.flush = a.flush /\ q.wait = m.wait
    BY <1>6, <1>11, <1>17 DEF PutIsDone
<1>19. Affects(q, m, s)
    BY <1>1, <1>6, <1>18, AffectsMore
<1>20. q.got = m.got
    <2>1. \A d \in Conns \ {c} : q.got[d] = m.got[d]
        BY <1>19 DEF Affects
    <2>2. q.got \in [Conns -> Got] /\ m.got \in [Conns -> Got]
        <3>1. q \in Counting
            BY <1>19 DEF Affects
        <3> QED  BY <1>1, <3>1, CountingFields
    <2> QED  BY <1>18, <2>1, <2>2 DEF g
<1>21. OperationIs(q, m, s)
    BY <1>6, <1>8, <1>10, <1>14, <1>18, <1>19, <1>20 DEF OperationIs, o, u, g
<1> QED  BY <1>21 DEF q

LEMMA SendKeeps ==
    ASSUME IInv, NEW c \in Conns, Send(c)
    PROVE  IInv'
<1> DEFINE s == comm.obj[c].slot
           new == Written(comm, c)
<1>1. Sound(comm) /\ comm.obj[c].user /\ comm.obj[c].written < MaxSent /\ Operation(new)
    BY DEF IInv, Send, IsUser
<1>2. s \in Used(comm) /\ Conn(comm, s) = c
    BY <1>1, SlotIs
<1>3. comm.obj[c].slot = s
    OBVIOUS
<1> HIDE DEF s
<1>4. OperationIs(new, comm, s)
    BY <1>1, <1>2, <1>3, WrittenIs
<1> HIDE DEF new
<1> QED  BY <1>1, <1>2, <1>4, OperationKeeps

---------------------------------------------------------------------------
(* The end of a thread.                                                    *)

LEMMA FlushedKeeps ==
    ASSUME IInv, NEW m, AllFlushed(comm', m), Fresh(m, comm), UNCHANGED net, PcSound'
    PROVE  IInv'
<1>1. Sound(comm') /\ ListSound(comm')
    BY EmptyListSound DEF AllFlushed
<1>2. Fresh(comm', comm)
    BY DEF AllFlushed, Fresh
<1> QED  BY <1>1, <1>2, NoPeer, StepSound

LEMMA FreshSame == \A m : Fresh(m, m)
BY DEF Fresh

LEMMA EndThreadKeeps ==
    ASSUME IInv, EndThread
    PROVE  IInv'
<1>1. PICK takes \in Takes : comm' = Flushed(comm, takes)
    BY DEF EndThread
<1>2. AllFlushed(comm', comm)
    BY <1>1, FlushedIs DEF IInv
<1>3. pc.at = "thread" /\ UNCHANGED net /\ PcSound
    BY DEF EndThread, IInv
<1>4. comm'.flush = << >> /\ Sound(comm') /\ \A r \in Slots : ~comm'.user[r].flush
    BY <1>2 DEF AllFlushed
<1>5. PcSound'
    <2>1. CASE pc' = Part("callouts")
        BY <1>4, <2>1 DEF PcSound, Part
    <2>2. CASE pc' = Part(pc.next) /\ pc.next # "input"
        BY <1>3, <1>4, <2>2 DEF PcSound, Part
    <2>3. CASE /\ pc.next = "input" /\ ~UserGone
               /\ pc' = [pc EXCEPT !.at = "input", !.next = "loop", !.ops = 0]
        <3>1. pc'.at = "input" /\ pc'.i = pc.i /\ pc'.usr = pc.usr
            BY <2>3
        <3>2. pc.usr \in Used(comm) /\ pc.i \in Nat /\ Arr(comm, pc.usr).user
              /\ (~comm.user[pc.usr].flush => Stuck(comm, pc.usr))
            BY <1>3, <2>3 DEF PcSound, UserGone, Arr
        <3>3. pc.usr \in Used(comm') /\ Stuck(comm', pc.usr)
            <4>1. pc.usr \in Slots
                BY <3>2 DEF Used
            <4> QED  BY <1>2, <1>4, <3>2, <4>1 DEF AllFlushed, Keeps
        <3>4. comm'.ring # << >>
            <4>1. pc.usr \in ToSet(comm'.ring)
                BY <1>4, <3>3 DEF Sound, Shares
            <4> QED  BY <4>1 DEF ToSet
        <3>5. \A s \in Used(comm') : ~comm'.user[s].outbuf
            <4> TAKE s \in Used(comm')
            <4>1. BufferSound(comm'.user[s], Arr(comm', s)) /\ s \in Slots
                BY <1>4 DEF Sound, OutputSound, Used
            <4> QED  BY <1>4, <4>1 DEF BufferSound
        <3> QED  BY <3>1, <3>2, <3>3, <3>4, <3>5 DEF PcSound
    <2> QED  BY <2>1, <2>2, <2>3 DEF EndThread
<1> QED  BY <1>2, <1>3, <1>5, FreshSame, FlushedKeeps

LEMMA CalloutKeeps ==
    ASSUME IInv, Callout
    PROVE  IInv'
<1>1. comm' = comm /\ pc' = ThreadTo("loop") /\ UNCHANGED net
    BY DEF Callout
<1>2. PcSound'
    BY <1>1 DEF PcSound, ThreadTo, Part
<1>3. Sound(comm') /\ ListSound(comm')
    BY <1>1 DEF IInv
<1> QED  BY <1>1, <1>2, <1>3, FreshSame, NoPeer, StepSound

---------------------------------------------------------------------------
(* New connections.                                                        *)

AddedOf(m, v, p, c, s) ==
    [m EXCEPT !.ring = Append(m.ring, s), !.freeuser = Tail(m.freeuser),
              !.user = [m.user EXCEPT ![s] = v], !.nusers = m.nusers + 1,
              !.obj = [m.obj EXCEPT ![c] = p]]

IsAdded(q, m, v, p, c, s) ==
    /\ Sound(q) /\ s \in Used(q) /\ q.flush = m.flush
    /\ q.user[s] = v /\ \A r \in Slots \ {s} : q.user[r] = m.user[r]
    /\ \A d \in Conns \ {c} : q.obj[d] = m.obj[d]

LEMMA AddedIs ==
    ASSUME NEW m, Sound(m), m.freeuser # << >>, NEW s, s = Head(m.freeuser),
           NEW c \in Conns, m.obj[c].slot = 0,
           NEW v \in User, v.oindex = c, v.newlines = 0, v.inbuf = << >>, ~v.odone,
           NEW p \in Object, p.slot = s, OutputSound(v, p, NoneGot)
    PROVE  IsAdded(AddedOf(m, v, p, c, s), m, v, p, c, s)
<1> DEFINE q == AddedOf(m, v, p, c, s)
           users == m.nusers + 1
           ring == Append(m.ring, s)
           freeuser == Tail(m.freeuser)
           user == [m.user EXCEPT ![s] = v]
           obj == [m.obj EXCEPT ![c] = p]
<1>1. m \in Comms /\ m \in Counting /\ Linked(m) /\ Shares(m) /\ Sums(m)
    BY CommsCounting DEF Sound
<1>2. /\ m.user \in [Slots -> User] /\ m.obj \in [Conns -> Object] /\ m.got \in [Conns -> Got]
      /\ m.ring \in Seq(Slots) /\ m.freeuser \in Seq(Slots) /\ m.newlines \in Nat
      /\ m.odone \in Nat /\ m.nusers \in 0 .. maxusers
    BY <1>1, CountingFields, CommsCounting
<1>3. /\ freeuser \in Seq(Slots) /\ s \in Slots /\ IsInjective(freeuser)
      /\ s \in Slots \ Used(m) /\ ToSet(freeuser) = (Slots \ Used(m)) \ {s}
    BY <1>1, <1>2, TailInjective DEF Shares
<1>4. ring \in Seq(Slots) /\ IsInjective(ring) /\ ToSet(ring) = Used(m) \cup {s}
    BY <1>1, <1>2, <1>3, AddedInjective DEF Shares
<1>5. /\ user[s] = v /\ \A r \in Slots \ {s} : user[r] = m.user[r]
      /\ obj[c] = p /\ \A d \in Conns \ {c} : obj[d] = m.obj[d]
      /\ user \in [Slots -> User] /\ obj \in [Conns -> Object]
    BY <1>2, <1>3
<1>6. m.got[c] = NoneGot /\ c # NoConn /\ m.user[s] = NoUser
    BY <1>1, <1>3, ConstantsAre DEF Linked
<1>7. users = Cardinality(Used(m) \cup {s}) /\ users \in 0 .. maxusers
    <2>1. Used(m) \in SUBSET Slots /\ m.nusers = Cardinality(Used(m))
        BY <1>1 DEF Used, Shares
    <2>2. Cardinality(Used(m) \cup {s}) = Cardinality(Used(m)) + D(TRUE)
        BY <1>3, <2>1, WithOne
    <2>3. Cardinality(Used(m) \cup {s}) <= Cardinality(Slots)
        BY <1>3, <2>1, SlotsFinite, FS_Subset
    <2>4. Cardinality(Slots) = maxusers
        BY SlotsCount
    <2> QED  BY <1>2, <2>1, <2>2, <2>3, <2>4, ConstantsAre DEF D
<1>8. q = [m EXCEPT !.ring = ring, !.freeuser = freeuser, !.user = user, !.nusers = users,
                    !.obj = obj]
    BY DEF AddedOf
<1> HIDE DEF q, users, ring, freeuser, user, obj
<1>9. /\ q \in Counting
      /\ q.user = user /\ q.obj = obj /\ q.got = m.got /\ q.ring = ring /\ q.freeuser = freeuser
      /\ q.newlines = m.newlines /\ q.odone = m.odone /\ q.nusers = users
      /\ q.flush = m.flush /\ q.wait = m.wait
    BY <1>1, <1>3, <1>4, <1>5, <1>7, <1>8 DEF Counting
<1>10. /\ Conn(q, s) = c /\ \A r \in Slots \ {s} : Conn(q, r) = Conn(m, r)
       /\ Used(q) = Used(m) \cup {s}
    <2>1. Conn(q, s) = c /\ \A r \in Slots \ {s} : Conn(q, r) = Conn(m, r)
        BY <1>5, <1>9 DEF Conn
    <2> QED  BY <1>3, <1>6, <2>1 DEF Used
<1>11. \A r \in Used(m) : /\ r \in Slots \ {s} /\ Conn(q, r) = Conn(m, r)
                          /\ Conn(m, r) \in Conns \ {c}
                          /\ Arr(q, r) = Arr(m, r) /\ q.got[Conn(q, r)] = m.got[Conn(m, r)]
    <2> TAKE r \in Used(m)
    <2>1. r # s /\ r \in Slots /\ r # 0
        BY <1>3, ConstantsAre DEF Used, Slots
    <2>2. Conn(m, r) \in Conns
        BY <1>1, UsedIs
    <2>3. Conn(m, r) # c
        BY <1>1, <2>1 DEF Linked, Arr
    <2> QED  BY <1>5, <1>9, <1>10, <2>1, <2>2, <2>3 DEF Arr
<1>12. Arr(q, s) = p /\ q.got[Conn(q, s)] = NoneGot
    BY <1>5, <1>6, <1>9, <1>10 DEF Arr
<1>13. Linked(q)
    <2>1. \A r \in Used(q) : Arr(q, r).slot = r
        BY <1>1, <1>10, <1>11, <1>12 DEF Linked
    <2>2. \A r \in Slots \ Used(q) : q.user[r] = NoUser
        BY <1>1, <1>5, <1>9, <1>10 DEF Linked
    <2>3. ASSUME NEW d \in Conns
          PROVE  IF q.obj[d].slot = 0 THEN q.obj[d] = NoObject /\ q.got[d] = NoneGot
                 ELSE Conn(q, q.obj[d].slot) = d
        <3>1. CASE d = c
            <4>1. q.obj[d].slot = s /\ s # 0
                BY <1>3, <1>5, <1>9, <3>1, ConstantsAre DEF Slots
            <4> QED  BY <1>10, <3>1, <4>1
        <3>2. CASE d # c
            <4>1. q.obj[d] = m.obj[d] /\ q.got[d] = m.got[d]
                BY <1>5, <1>9, <3>2
            <4>2. m.obj[d].slot = 0 \/ m.obj[d].slot \in Slots
                BY <1>2, ObjectFields
            <4>3. CASE m.obj[d].slot # 0
                <5>1. Conn(m, m.obj[d].slot) = d
                    BY <1>1, <4>3 DEF Linked
                <5>2. Conn(m, s) = NoConn /\ d # NoConn
                    BY <1>3, ConstantsAre DEF Used
                <5>3. m.obj[d].slot \in Slots \ {s}
                    BY <4>2, <4>3, <5>1, <5>2
                <5> QED  BY <1>10, <4>1, <4>3, <5>1, <5>3
            <4> QED  BY <1>1, <4>1, <4>3 DEF Linked
        <3> QED  BY <3>1, <3>2
    <2> QED  BY <2>1, <2>2, <2>3 DEF Linked
<1>14. Shares(q)
    <2>1. Slots \ Used(q) = (Slots \ Used(m)) \ {s}
        BY <1>10
    <2> QED  BY <1>3, <1>4, <1>7, <1>9, <1>10, <2>1 DEF Shares
<1>15. Sums(q)
    <2>1. \A r \in Slots : q.user[r].odone = m.user[r].odone
        <3>1. v.odone = FALSE /\ m.user[s].odone = FALSE
            BY <1>6, UserFields DEF NoUser
        <3> QED  BY <1>5, <1>9, <3>1
    <2>2. {r \in Slots : q.user[r].odone} = {r \in Slots : m.user[r].odone}
        BY <2>1
    <2>3. Lines(q) = Lines(m) + 0
        <3>1. /\ \A r \in Slots : m.user[r].newlines \in Nat
              /\ \A r \in Slots : q.user[r].newlines \in Nat
            BY <1>2, <1>5, <1>9, UserFields
        <3>2. \A r \in Slots \ {s} : q.user[r].newlines = m.user[r].newlines
            BY <1>5, <1>9
        <3> DEFINE d == 0
        <3>3. d \in Int /\ q.user[s].newlines = m.user[s].newlines + d
            BY <1>5, <1>6, <1>9 DEF NoUser
        <3>4. s \in Slots
            BY <1>3
        <3> HIDE DEF d
        <3>5. Lines(q) = Lines(m) + d
            BY <3>1, <3>2, <3>3, <3>4, LinesOne
        <3> QED  BY <3>5 DEF d
    <2>4. m.newlines = Lines(m) /\ m.odone = Cardinality({r \in Slots : m.user[r].odone})
        BY <1>1 DEF Sums
    <2>5. q.newlines = Lines(q)
        BY <1>2, <1>9, <2>3, <2>4
    <2>6. q.odone = Cardinality({r \in Slots : q.user[r].odone})
        BY <1>9, <2>2, <2>4
    <2> QED  BY <2>5, <2>6 DEF Sums
<1>16. \A r \in Slots : InputSound(q.user[r])
    <2>1. InputSound(v)
        <3>1. Len(<< >>) = 0
            OBVIOUS
        <3> QED  BY <3>1, LFsNone, ConstantsAre DEF InputSound
    <2>2. \A r \in Slots : InputSound(m.user[r])
        BY DEF Sound
    <2> QED  BY <1>5, <1>9, <2>1, <2>2
<1>17. \A r \in Used(q) : OutputSound(q.user[r], Arr(q, r), q.got[Conn(q, r)])
    <2>1. \A r \in Used(m) : q.user[r] = m.user[r]
        BY <1>5, <1>9, <1>11
    <2>2. q.user[s] = v
        BY <1>5, <1>9
    <2> QED  BY <1>10, <1>11, <1>12, <2>1, <2>2 DEF Sound
<1>18. q \in Comms
    BY <1>2, <1>9, CommsCounting
<1>19. Sound(q)
    BY <1>13, <1>14, <1>15, <1>16, <1>17, <1>18 DEF Sound
<1> QED  BY <1>5, <1>9, <1>10, <1>19 DEF IsAdded, q

(* A new user and its object, for either kind of connection.               *)
NewUser(c) ==
    IF c \in Telnet THEN [NoUser EXCEPT !.oindex = c, !.echo = TRUE, !.output = TRUE]
    ELSE [NoUser EXCEPT !.oindex = c]

NewObject(c, s) ==
    IF c \in Telnet
    THEN [NoObject EXCEPT !.slot = s, !.user = TRUE, !.echo = TRUE, !.buffer = << WONT >>]
    ELSE [NoObject EXCEPT !.slot = s, !.user = TRUE]

LEMMA NewUserIs ==
    ASSUME NEW c \in Conns
    PROVE  LET v == NewUser(c)
           IN /\ v \in User /\ v.oindex = c /\ v.newlines = 0 /\ v.inbuf = << >> /\ ~v.odone
              /\ ~v.flush /\ ~v.outbuf /\ v.osdone = 0 /\ ~v.blocked
              /\ (v.echo <=> c \in Telnet)
<1> DEFINE v == NewUser(c)
<1>1. /\ NoUser \in User /\ NoUser.newlines = 0 /\ NoUser.inbuf = << >> /\ ~NoUser.odone
      /\ ~NoUser.flush /\ ~NoUser.outbuf /\ NoUser.osdone = 0 /\ ~NoUser.blocked
      /\ NoUser.echo = FALSE
    <2>1. NoUser \in User
        BY NoUserIs
    <2> QED  BY <2>1 DEF NoUser
<1>2. CASE c \in Telnet
    <2>1. v = [NoUser EXCEPT !.oindex = c, !.echo = TRUE, !.output = TRUE]
        BY <1>2 DEF NewUser
    <2> HIDE DEF v
    <2>2. v \in User
        BY <1>1, <2>1 DEF User
    <2>3. /\ v.oindex = c /\ v.newlines = 0 /\ v.inbuf = << >> /\ ~v.odone
          /\ ~v.flush /\ ~v.outbuf /\ v.osdone = 0 /\ ~v.blocked /\ v.echo = TRUE
        BY <1>1, <2>1 DEF User
    <2> QED  BY <1>2, <2>2, <2>3 DEF v
<1>3. CASE c \notin Telnet
    <2>1. v = [NoUser EXCEPT !.oindex = c]
        BY <1>3 DEF NewUser
    <2> HIDE DEF v
    <2>2. v \in User
        BY <1>1, <2>1 DEF User
    <2>3. /\ v.oindex = c /\ v.newlines = 0 /\ v.inbuf = << >> /\ ~v.odone
          /\ ~v.flush /\ ~v.outbuf /\ v.osdone = 0 /\ ~v.blocked /\ v.echo = FALSE
        BY <1>1, <2>1 DEF User
    <2>4. (v.echo <=> c \in Telnet)
        BY <1>3, <2>3
    <2> QED  BY <2>2, <2>3, <2>4 DEF v
<1> QED  BY <1>2, <1>3

LEMMA NewObjectIs ==
    ASSUME NEW c \in Conns, NEW s \in Slots
    PROVE  LET p == NewObject(c, s)
           IN /\ p \in Object /\ p.slot = s /\ p.user /\ ~p.blocked /\ p.first /\ p.written = 0
              /\ p.buffer = (IF c \in Telnet THEN << WONT >> ELSE << >>)
<1> DEFINE w == << WONT >>
           p == NewObject(c, s)
<1>1. NoObject \in Object
    BY NoUserIs
<1>2. w \in Seq(Output)
    BY ConstantsAre DEF Output, WONT, REPLY
<1> HIDE DEF w
<1>3. CASE c \in Telnet
    <2>1. p = [NoObject EXCEPT !.slot = s, !.user = TRUE, !.echo = TRUE, !.buffer = w]
        BY <1>3 DEF NewObject, w
    <2>2. /\ p \in Object /\ p.slot = s /\ p.user /\ ~p.blocked /\ p.first /\ p.written = 0
          /\ p.buffer = w
        BY <1>1, <1>2, <2>1 DEF NoObject, Object
    <2> HIDE DEF p
    <2>3. p.buffer = << WONT >>
        BY <2>2 DEF w
    <2> QED  BY <1>3, <2>2, <2>3 DEF p
<1>4. CASE c \notin Telnet
    <2>1. p = [NoObject EXCEPT !.slot = s, !.user = TRUE]
        BY <1>4 DEF NewObject
    <2>2. /\ p \in Object /\ p.slot = s /\ p.user /\ ~p.blocked /\ p.first /\ p.written = 0
          /\ p.buffer = NoObject.buffer
        BY <1>1, <2>1 DEF NoObject, Object
    <2>3. NoObject.buffer = << >>
        BY DEF NoObject
    <2> HIDE DEF p
    <2> QED  BY <1>4, <2>2, <2>3 DEF p
<1> QED  BY <1>3, <1>4

LEMMA NewOutput ==
    ASSUME NEW c \in Conns, NEW s \in Slots
    PROVE  OutputSound(NewUser(c), NewObject(c, s), NoneGot)
<1> DEFINE v == NewUser(c)
           p == NewObject(c, s)
<1>1. /\ v.oindex = c /\ ~v.odone /\ ~v.flush /\ ~v.outbuf /\ v.osdone = 0 /\ ~v.blocked
      /\ (v.echo <=> c \in Telnet)
    BY NewUserIs
<1>2. v.blocked = FALSE
    BY <1>1, NewUserIs, UserFields
<1>3. /\ p.slot = s /\ p.user /\ ~p.blocked /\ p.first /\ p.written = 0
      /\ p.buffer = (IF c \in Telnet THEN << WONT >> ELSE << >>)
      /\ p \in Object
    BY NewObjectIs
<1>4. p.blocked = FALSE
    BY <1>3, ObjectFields
<1> HIDE DEF v, p
<1>5. SentBy(v, p) = 0
    BY <1>1 DEF SentBy
<1>6. WONT \in Output /\ NoneGot \in Got
    BY NoUserIs, ConstantsAre DEF Output, WONT, REPLY
<1>7. CASE c \in Telnet
    <2> DEFINE w == << WONT >>
               e == << >>
    <2>1. /\ w = Append(e, WONT) /\ w \in Seq(Output) /\ Len(w) = 1 /\ SubSeq(w, 1, 1) = w
          /\ e \in Seq(Output) /\ w # << >>
        <3>1. e \in Seq(Output) /\ w \in Seq(Output) /\ Len(w) = 1
            BY <1>6
        <3>2. w = Append(e, WONT)
            OBVIOUS
        <3>3. w # << >>
            OBVIOUS
        <3> HIDE DEF w, e
        <3>4. SubSeq(w, 1, Len(w)) = w
            BY <3>1
        <3> QED  BY <3>1, <3>2, <3>3, <3>4
    <2>2. Reads(NoneGot, e) = NoneGot
        BY <1>6, ReadsNone
    <2> HIDE DEF w, e
    <2>3. p.buffer = w
        BY <1>3, <1>7 DEF w
    <2>4. Reads(NoneGot, w) = Receives(NoneGot, WONT)
        BY <1>6, <2>1, <2>2, ReadsAppend
    <2>5. Rest(v, p) = w
        <3>1. Rest(v, p) = SubSeq(w, 0 + 1, 1)
            BY <1>5, <2>1, <2>3 DEF Rest
        <3> QED  BY <2>1, <3>1
    <2>6. End(v, p, NoneGot) = [NoneGot EXCEPT !.echo = WONT]
        BY <2>4, <2>5 DEF End, Receives
    <2>7. /\ ~End(v, p, NoneGot).wrong /\ End(v, p, NoneGot).upto = 0
          /\ End(v, p, NoneGot).echo = WONT
        BY <2>6 DEF NoneGot
    <2>8. BufferSound(v, p)
        BY <1>1, <1>3, <1>5, <2>1, <2>3, ConstantsAre DEF BufferSound
    <2> QED  BY <1>1, <1>2, <1>3, <1>4, <1>7, <2>7, <2>8
             DEF OutputSound, FlushedSound, OrderSound, EchoSound, v, p
<1>8. CASE c \notin Telnet
    <2> DEFINE e == << >>
    <2>1. e \in Seq(Output) /\ Len(e) = 0 /\ SubSeq(e, 1, 0) = e
        OBVIOUS
    <2>2. Reads(NoneGot, e) = NoneGot
        BY <1>6, ReadsNone
    <2>3. p.buffer = e
        BY <1>3, <1>8
    <2> HIDE DEF e
    <2>4. Rest(v, p) = e
        <3>1. Rest(v, p) = SubSeq(e, 0 + 1, 0)
            BY <1>5, <2>1, <2>3 DEF Rest
        <3> QED  BY <2>1, <3>1
    <2>5. End(v, p, NoneGot) = NoneGot
        BY <2>2, <2>4 DEF End
    <2>6. BufferSound(v, p)
        BY <1>1, <1>3, <1>5, <2>1, <2>3, ConstantsAre DEF BufferSound
    <2>7. /\ ~NoneGot.wrong /\ NoneGot.upto = 0
        BY DEF NoneGot
    <2> QED  BY <1>1, <1>2, <1>3, <1>4, <1>8, <2>5, <2>6, <2>7
             DEF OutputSound, FlushedSound, OrderSound, EchoSound, v, p
<1> QED  BY <1>7, <1>8

LEMMA AddToFlushOperation ==
    ASSUME NEW m, Sound(m), NEW s \in Used(m)
    PROVE  OperationIs(AddToFlush(m, s), m, s)
<1> DEFINE a == AddToFlush(m, s)
           u == m.user[s]
           o == Arr(m, s)
           g == m.got[Conn(m, s)]
<1>1. /\ m \in Counting /\ s \in Slots
      /\ u \in User /\ o \in Object /\ OutputSound(u, o, g)
    BY SoundIs
<1>2. /\ Affects(a, m, s) /\ a.user[s] = InFlush(u, o)
      /\ a.obj = m.obj /\ a.got = m.got /\ a.wait = m.wait
      /\ a.flush = IF u.flush THEN m.flush ELSE << s >> \o m.flush
    BY <1>1, AddToFlushIs
<1> HIDE DEF a
<1>3. Arr(a, s) = o
    BY <1>2 DEF Affects, Arr
<1>4. OutputSound(InFlush(u, o), o, g) /\ InFlush(u, o).flush
    BY <1>1, InFlushOutput, InFlushIs
<1>5. OperationIs(a, m, s)
    BY <1>2, <1>3, <1>4 DEF OperationIs
<1> QED  BY <1>5 DEF a

(* conn_select()                                                           *)
SelectedIs(x, m) ==
    /\ Sound(x) /\ ListSound(x) /\ Used(x) = Used(m)
    /\ x.user = m.user /\ x.obj = m.obj /\ x.ring = m.ring /\ x.flush = m.flush
    /\ x.freeuser = m.freeuser /\ x.nusers = m.nusers

LEMMA OtherWaitSound ==
    ASSUME NEW m, Sound(m), ListSound(m)
    PROVE  SelectedIs([m EXCEPT !.wait = {}], m)
<1> DEFINE q == [m EXCEPT !.wait = {}]
<1>1. m \in Comms
    BY DEF Sound
<1>2. /\ q \in Comms /\ q.flush = m.flush /\ q.user = m.user /\ q.obj = m.obj
      /\ q.got = m.got /\ q.ring = m.ring /\ q.freeuser = m.freeuser /\ q.newlines = m.newlines
      /\ q.odone = m.odone /\ q.nusers = m.nusers
    BY <1>1 DEF Comms
<1> HIDE DEF q
<1>3. \A r : Conn(q, r) = Conn(m, r) /\ Arr(q, r) = Arr(m, r)
    BY <1>2 DEF Conn, Arr
<1>4. Used(q) = Used(m)
    BY <1>3 DEF Used
<1>5. Lines(q) = Lines(m)
    BY <1>2 DEF Lines
<1>6. Linked(q)
    BY <1>2, <1>3, <1>4 DEF Sound, Linked
<1>7. Shares(q) /\ Sums(q)
    BY <1>2, <1>4, <1>5 DEF Sound, Shares, Sums
<1>8. /\ \A r \in Slots : InputSound(q.user[r])
      /\ \A r \in Used(q) : OutputSound(q.user[r], Arr(q, r), q.got[Conn(q, r)])
    BY <1>2, <1>3, <1>4 DEF Sound
<1>9. Sound(q) /\ ListSound(q)
    BY <1>2, <1>6, <1>7, <1>8 DEF Sound, ListSound
<1> QED  BY <1>2, <1>4, <1>9 DEF q, SelectedIs

LEMMA SelectedSound ==
    ASSUME IInv
    PROVE  SelectedIs(Selected, comm)
<1>1. SelectedIs(comm, comm)
    BY DEF IInv, SelectedIs
<1>2. SelectedIs([comm EXCEPT !.wait = {}], comm)
    BY OtherWaitSound DEF IInv
<1> QED  BY <1>1, <1>2 DEF Selected

(* There is a user left.                                                   *)
LEMMA FreeUser ==
    ASSUME NEW m, Sound(m), m.nusers < maxusers
    PROVE  m.freeuser # << >>
<1> SUFFICES ASSUME m.freeuser = << >>  PROVE FALSE
    OBVIOUS
<1>1. ToSet(<< >>) = {}
    BY DEF ToSet
<1>2. Slots \ Used(m) = {} /\ Used(m) \subseteq Slots
    BY <1>1 DEF Sound, Shares, Used
<1>3. m.nusers = Cardinality(Slots)
    BY <1>2 DEF Sound, Shares
<1>4. 1 \in Int /\ maxusers \in Int /\ 1 <= maxusers
    BY ConstantsAre
<1>5. Cardinality(1 .. maxusers) = maxusers - 1 + 1
    BY <1>4, FS_Interval
<1> QED  BY <1>3, <1>4, <1>5 DEF Slots

LEMMA SetupIs ==
    ASSUME NEW m \in Counting, NEW c \in Conns, NEW s \in Slots, m.obj[c] = NoObject,
           s = Head(m.freeuser)
    PROVE  New(InRing(m), c, s) =
             LET a == AddedOf(m, NewUser(c), NewObject(c, s), c, s)
             IN IF c \in Telnet THEN AddToFlush(a, s) ELSE a
<1> DEFINE v == [NoUser EXCEPT !.oindex = c]
           p == [NoObject EXCEPT !.slot = s, !.user = TRUE]
           y == AddedOf(m, v, p, c, s)
<1>1. m.user \in [Slots -> User] /\ m.obj \in [Conns -> Object]
    BY CountingFields
<1>2. Setup(InRing(m), c, s) = y
    BY <1>1 DEF Setup, InRing, AddedOf, Counting
<1>3. CASE c \notin Telnet
    BY <1>2, <1>3 DEF New, NewUser, NewObject
<1>4. CASE c \in Telnet
    <2> DEFINE w == << WONT >>
               z == [y EXCEPT !.user[s].echo = TRUE, !.user[s].output = TRUE,
                              !.obj[c].echo = TRUE, !.obj[c].buffer = w]
               v2 == [v EXCEPT !.echo = TRUE, !.output = TRUE]
               p2 == [p EXCEPT !.echo = TRUE, !.buffer = w]
    <2>1. New(InRing(m), c, s) = AddToFlush(z, s)
        BY <1>2, <1>4 DEF New, TelnetUser
    <2> HIDE DEF w
    <2>2. v2 = [NoUser EXCEPT !.oindex = c, !.echo = TRUE, !.output = TRUE]
        BY DEF NoUser
    <2>3. p2 = [NoObject EXCEPT !.slot = s, !.user = TRUE, !.echo = TRUE, !.buffer = w]
        BY DEF NoObject
    <2>4. z = AddedOf(m, v2, p2, c, s)
        <3> HIDE DEF v, p
        <3>1. /\ y = [m EXCEPT !.ring = Append(m.ring, s), !.freeuser = Tail(m.freeuser),
                               !.user = [m.user EXCEPT ![s] = v], !.nusers = m.nusers + 1,
                               !.obj = [m.obj EXCEPT ![c] = p]]
            BY DEF AddedOf
        <3> HIDE DEF y
        <3>2. z = [y EXCEPT !.user = [y.user EXCEPT ![s] = v2], !.obj = [y.obj EXCEPT ![c] = p2]]
            <4>1. y.user[s] = v /\ y.obj[c] = p
                BY <1>1, <3>1 DEF Counting
            <4>2. /\ DOMAIN y = DOMAIN m /\ "user" \in DOMAIN m /\ "obj" \in DOMAIN m
                  /\ s \in DOMAIN y.user /\ c \in DOMAIN y.obj
                BY <1>1, <3>1 DEF Counting
            <4> DEFINE y1 == [y EXCEPT !.user[s].echo = TRUE, !.user[s].output = TRUE]
                       y2 == [y EXCEPT !.user = [y.user EXCEPT ![s] = v2]]
            <4>3. y1 = y2
                BY Zenon, <4>1, <4>2
            <4>4. z = [y1 EXCEPT !.obj[c].echo = TRUE, !.obj[c].buffer = w]
                OBVIOUS
            <4>5. [y2 EXCEPT !.obj[c].echo = TRUE, !.obj[c].buffer = w]
                    = [y2 EXCEPT !.obj = [y.obj EXCEPT ![c] = p2]]
                BY Zenon, <4>1, <4>2
            <4>6. [y2 EXCEPT !.obj = [y.obj EXCEPT ![c] = p2]]
                    = [y EXCEPT !.user = [y.user EXCEPT ![s] = v2],
                                !.obj = [y.obj EXCEPT ![c] = p2]]
                OBVIOUS
            <4> HIDE DEF y1, y2, z
            <4> QED  BY <4>3, <4>4, <4>5, <4>6
        <3>3. /\ y.user = [m.user EXCEPT ![s] = v] /\ y.obj = [m.obj EXCEPT ![c] = p]
            BY <3>1 DEF Counting
        <3> HIDE DEF z, v2, p2
        <3>4. /\ [[m.user EXCEPT ![s] = v] EXCEPT ![s] = v2] = [m.user EXCEPT ![s] = v2]
              /\ [[m.obj EXCEPT ![c] = p] EXCEPT ![c] = p2] = [m.obj EXCEPT ![c] = p2]
            BY <1>1
        <3> QED  BY <3>1, <3>2, <3>3, <3>4 DEF AddedOf, Counting
    <2>5. v2 = NewUser(c) /\ p2 = NewObject(c, s)
        <3> HIDE DEF v2, p2
        <3> QED  BY <1>4, <2>2, <2>3 DEF NewUser, NewObject, w
    <2> QED  BY <1>4, <2>1, <2>4, <2>5
<1> QED  BY <1>3, <1>4

LEMMA AcceptKeeps ==
    ASSUME IInv, NEW c \in Conns, Accept(c)
    PROVE  IInv'
<1> DEFINE m == Selected
           s == Head(m.freeuser)
           v == NewUser(c)
           p == NewObject(c, s)
           y == AddedOf(m, v, p, c, s)
<1>1. SelectedIs(m, comm)
    BY SelectedSound
<1> HIDE DEF m
<1>2. /\ Sound(m) /\ ListSound(m) /\ m \in Counting /\ m.obj = comm.obj
      /\ m.user = comm.user /\ m.freeuser = comm.freeuser /\ m.nusers = comm.nusers
    BY <1>1, CommsCounting DEF SelectedIs, Sound
<1>3. /\ c \in net.new /\ comm.nusers < maxusers /\ net' = [net EXCEPT !.new = @ \ {c}]
      /\ comm' = New(InRing(m), c, s) /\ pc' = ThreadTo("accept")
    BY <1>2 DEF Accept, m
<1>4. m.obj[c].slot = 0 /\ m.obj[c] = NoObject
    BY <1>2, <1>3 DEF IInv, NewUnknown, Sound, Linked
<1>5. m.freeuser # << >>
    BY <1>2, <1>3, FreeUser
<1>6. s \in Slots /\ s \notin Used(m)
    <2>1. m.freeuser \in Seq(Slots)
        BY <1>2, CountingFields
    <2> QED  BY <1>2, <1>5, <2>1, TailInjective DEF Sound, Shares
<1>7. s = Head(m.freeuser)
    OBVIOUS
<1>8. comm' = IF c \in Telnet THEN AddToFlush(y, s) ELSE y
    BY <1>2, <1>3, <1>4, <1>6, SetupIs
<1> HIDE DEF s
<1>9. /\ v \in User /\ v.oindex = c /\ v.newlines = 0 /\ v.inbuf = << >> /\ ~v.odone
      /\ ~v.flush
    BY NewUserIs
<1>10. p \in Object /\ p.slot = s
    BY <1>6, NewObjectIs
<1>11. OutputSound(v, p, NoneGot)
    BY <1>6, NewOutput
<1> HIDE DEF v, p
<1>12. IsAdded(y, m, v, p, c, s)
    BY <1>2, <1>4, <1>5, <1>7, <1>9, <1>10, <1>11, AddedIs
<1> HIDE DEF y
<1>13. /\ Sound(y) /\ s \in Used(y) /\ \A d \in Conns \ {c} : y.obj[d] = m.obj[d]
       /\ y.flush = m.flush /\ y.user[s] = v /\ \A r \in Slots \ {s} : y.user[r] = m.user[r]
    BY <1>12 DEF IsAdded
<1>14. ListSound(y)
    <2>1. y.user[s].flush = m.user[s].flush
        <3>1. m.user[s] = NoUser
            BY <1>2, <1>6 DEF Sound, Linked
        <3>2. v.flush = FALSE /\ NoUser.flush = FALSE
            BY <1>9, UserFields DEF NoUser
        <3> QED  BY <1>13, <3>1, <3>2
    <2> QED  BY <1>2, <1>6, <1>13, <2>1, SameListSound
<1>15. /\ Sound(comm') /\ ListSound(comm')
       /\ \A d \in Conns \ {c} : comm'.obj[d] = m.obj[d]
    <2>1. CASE c \notin Telnet
        BY <1>8, <1>13, <1>14, <2>1
    <2>2. CASE c \in Telnet
        <3>1. comm' = AddToFlush(y, s)
            BY <1>8, <2>2
        <3>2. OperationIs(AddToFlush(y, s), y, s)
            BY <1>13, AddToFlushOperation
        <3>3. Sound(comm') /\ ListSound(comm')
            BY <1>13, <1>14, <3>1, <3>2, OperationSound
        <3>4. y \in Counting
            BY <1>13, CommsCounting DEF Sound
        <3>5. comm'.obj = y.obj
            BY <1>13, <3>1, <3>4, AddToFlushIs
        <3> QED  BY <1>13, <3>3, <3>5
    <2> QED  BY <2>1, <2>2
<1>16. net \in Nets
    BY TypeIs DEF IInv
<1>17. net' \in Nets /\ net'.new = net.new \ {c}
    BY <1>3, <1>16 DEF Nets
<1>18. NewUnknown'
    <2>1. \A d \in net'.new : d \in Conns \ {c} /\ d \in net.new
        BY <1>16, <1>17 DEF Nets
    <2> QED  BY <1>2, <1>15, <2>1 DEF NewUnknown, IInv
<1>19. PcSound'
    BY <1>3 DEF PcSound, ThreadTo, Part
<1>20. TypeOK'
    <2>1. comm' \in Comms
        BY <1>15 DEF Sound
    <2> QED  BY <1>17, <2>1 DEF TypeOK, Comms, Nets
<1> QED  BY <1>15, <1>18, <1>19, <1>20 DEF IInv

---------------------------------------------------------------------------
(* The next user.                                                          *)

RotatedIs(q, m) ==
    /\ Sound(q) /\ ListSound(q) /\ Used(q) = Used(m) /\ q.ring # << >>
    /\ q.user = m.user /\ q.obj = m.obj /\ q.wait = m.wait /\ q.flush = m.flush

LEMMA RotatedSound ==
    ASSUME NEW m, Sound(m), ListSound(m), m.ring # << >>
    PROVE  RotatedIs(Rotated(m), m) /\ Head(m.ring) \in Used(m)
<1> DEFINE q == Rotated(m)
           s == Head(m.ring)
           ring == Append(Tail(m.ring), s)
<1>1. m \in Comms /\ m.ring \in Seq(Slots) /\ IsInjective(m.ring) /\ ToSet(m.ring) = Used(m)
    BY CommsCounting, CountingFields DEF Sound, Shares
<1>2. /\ Tail(m.ring) \in Seq(Slots) /\ s \in Slots /\ IsInjective(Tail(m.ring)) /\ s \in Used(m)
      /\ ToSet(Tail(m.ring)) = Used(m) \ {s}
    BY <1>1, TailInjective
<1>3. ring \in Seq(Slots) /\ IsInjective(ring) /\ ToSet(ring) = Used(m)
    <2> DEFINE f == Tail(m.ring)
    <2>1. f \in Seq(Slots) /\ IsInjective(f) /\ ToSet(f) = Used(m) \ {s} /\ s \in Slots
        BY <1>2
    <2>2. s \notin ToSet(f)
        BY <2>1
    <2> HIDE DEF f, s
    <2>3. /\ Append(f, s) \in Seq(Slots) /\ IsInjective(Append(f, s))
          /\ ToSet(Append(f, s)) = ToSet(f) \cup {s}
        BY <2>1, <2>2, AddedInjective
    <2>4. ToSet(f) \cup {s} = Used(m)
        BY <1>2, <2>1
    <2> QED  BY <2>3, <2>4 DEF f
<1>4. ring # << >>
    <2>1. ToSet(<< >>) = {}
        BY DEF ToSet
    <2> HIDE DEF ring
    <2> QED  BY <1>2, <1>3, <2>1
<1>5. q = [m EXCEPT !.ring = ring]
    BY <1>1 DEF Rotated, Comms
<1> HIDE DEF ring, q
<1>6. /\ q \in Comms /\ q.flush = m.flush /\ q.user = m.user /\ q.obj = m.obj /\ q.wait = m.wait
      /\ q.got = m.got /\ q.ring = ring /\ q.freeuser = m.freeuser /\ q.newlines = m.newlines
      /\ q.odone = m.odone /\ q.nusers = m.nusers
    BY <1>1, <1>3, <1>5 DEF Comms
<1>7. \A r : Conn(q, r) = Conn(m, r) /\ Arr(q, r) = Arr(m, r)
    BY <1>6 DEF Conn, Arr
<1>8. Used(q) = Used(m)
    BY <1>7 DEF Used
<1>9. Lines(q) = Lines(m)
    BY <1>6 DEF Lines
<1>10. Linked(q)
    BY <1>6, <1>7, <1>8 DEF Sound, Linked
<1>11. Shares(q) /\ Sums(q)
    BY <1>3, <1>6, <1>8, <1>9 DEF Sound, Shares, Sums
<1>12. /\ \A r \in Slots : InputSound(q.user[r])
       /\ \A r \in Used(q) : OutputSound(q.user[r], Arr(q, r), q.got[Conn(q, r)])
    BY <1>6, <1>7, <1>8 DEF Sound
<1>13. Sound(q) /\ ListSound(q)
    BY <1>6, <1>10, <1>11, <1>12 DEF Sound, ListSound
<1> QED  BY <1>2, <1>4, <1>6, <1>8, <1>13 DEF RotatedIs, q

(* Nothing is sent to the users whose old buffer is still to be sent.      *)
Quiet(m) == \A r \in Used(m) : m.user[r].outbuf => Stuck(m, r)

LEMMA TurnSent ==
    ASSUME NEW m, Sound(m), ListSound(m), m.ring # << >>, Quiet(m),
           NEW s, s = Head(m.ring), NEW take \in 0 .. MAX_STRLEN, NEW fails \in BOOLEAN,
           NEW q, q = FlushOutput(Rotated(m), s, take, fails)
    PROVE  /\ Sound(q) /\ ListSound(q) /\ s \in Used(q) /\ Stuck(q, s) /\ q.ring # << >>
           /\ Quiet(q) /\ Fresh(q, m)
<1> DEFINE x == Rotated(m)
<1>1. RotatedIs(x, m) /\ s \in Used(m)
    BY RotatedSound
<1> HIDE DEF x
<1>2. /\ Sound(x) /\ ListSound(x) /\ Used(x) = Used(m) /\ x.ring # << >> /\ s \in Used(x)
      /\ x.user = m.user /\ x.obj = m.obj /\ x.wait = m.wait
    BY <1>1 DEF RotatedIs
<1>3. \A r : Stuck(x, r) <=> Stuck(m, r)
    BY <1>2 DEF Stuck, Conn, Arr
<1>4. Quiet(x) /\ Fresh(x, m)
    BY <1>2, <1>3 DEF Quiet, Fresh
<1>5. OutputIs(q, x, s)
    <2>1. x.user[s].outbuf => Stuck(x, s)
        BY <1>2, <1>4 DEF Quiet
    <2>2. q = FlushOutput(x, s, take, fails)
        BY DEF x
    <2> QED  BY <1>2, <2>1, <2>2, FlushOutputIs
<1>6. /\ x \in Counting /\ x \in Comms /\ Linked(x) /\ s \in Slots
    BY <1>2, SoundIs
<1>7. Affects(q, x, s) /\ Sound(q) /\ q.flush = x.flush /\ Stuck(q, s)
      /\ q.user[s].flush = x.user[s].flush
    BY <1>5 DEF OutputIs
<1>8. OthersAre(q, x, s)
    <2>1. Alters(q, x, s)
        BY <1>2, <1>6, <1>7, AffectsAlters
    <2> QED  BY <1>2, <1>6, <2>1, AltersOthers
<1>9. ListSound(q)
    <2>1. \A r \in Slots \ {s} : q.user[r] = x.user[r]
        BY <1>7 DEF Affects
    <2> QED  BY <1>2, <1>6, <1>7, <2>1, SameListSound
<1>10. Quiet(q)
    BY <1>4, <1>7, <1>8 DEF Quiet, OthersAre
<1>11. Fresh(q, m)
    BY <1>4, <1>8 DEF OthersAre, Fresh
<1> QED  BY <1>2, <1>7, <1>8, <1>9, <1>10, <1>11 DEF OthersAre

(* message_done()                                                          *)
LEMMA MessageDoneSound ==
    ASSUME NEW m, Sound(m), ListSound(m), NEW s \in Used(m), m.user[s].odone,
           NEW q, q = [m EXCEPT !.user[s].odone = FALSE, !.odone = @ - 1]
    PROVE  /\ Sound(q) /\ ListSound(q) /\ s \in Used(q) /\ Fresh(q, m)
           /\ Stuck(m, s) => Stuck(q, s)
<1> DEFINE u == m.user[s]
           o == Arr(m, s)
           g == m.got[Conn(m, s)]
           v == [u EXCEPT !.odone = FALSE]
<1>1. /\ m \in Counting /\ m \in Comms /\ Linked(m) /\ s \in Slots /\ Conn(m, s) \in Conns
      /\ u \in User /\ o \in Object /\ g \in Got /\ OutputSound(u, o, g)
    BY SoundIs
<1>2. /\ v \in User /\ v.oindex = u.oindex /\ v.newlines = u.newlines /\ v.inbuf = u.inbuf
      /\ v.flush = u.flush /\ v.outbuf = u.outbuf /\ v.echo = u.echo /\ v.blocked = u.blocked
      /\ v.osdone = u.osdone /\ v.output = u.output /\ ~v.odone
    BY <1>1 DEF User
<1>3. m.user \in [Slots -> User] /\ m.odone \in Int /\ m.wait \in SUBSET Conns
    BY <1>1, CountingFields
<1>4. q = Put(m, s, v, o, g, m.wait)
    <2>1. /\ [m.obj EXCEPT ![Conn(m, s)] = o] = m.obj
          /\ [m.got EXCEPT ![Conn(m, s)] = g] = m.got
        BY <1>1, Same
    <2>2. m.odone + D(v.odone) - D(u.odone) = m.odone - 1
        <3>1. D(v.odone) = 0 /\ D(u.odone) = 1
            BY <1>2 DEF D
        <3> DEFINE i == D(v.odone)
                   j == D(u.odone)
        <3>2. i = 0 /\ j = 1 /\ m.odone \in Int
            BY <1>3, <3>1
        <3> HIDE DEF i, j
        <3>3. m.odone + i - j = m.odone - 1
            BY <3>2
        <3> QED  BY <3>3 DEF i, j
    <2> HIDE DEF o, g
    <2> QED  BY <1>1, <1>3, <2>1, <2>2 DEF Put, Counting
<1> HIDE DEF v
<1>5. PutIsDone(q, m, s, v, o, g, m.wait)
    <2>1. Follows(v, o, m.user[s], Arr(m, s))
        BY <1>1, <1>2 DEF Follows
    <2> HIDE DEF o, g
    <2> QED  BY <1>1, <1>3, <1>4, <2>1, PutIs DEF o
<1>6. /\ Affects(q, m, s) /\ q.user[s] = v /\ Arr(q, s) = o /\ q.got[Conn(q, s)] = g
      /\ q.wait = m.wait /\ q.flush = m.flush /\ Conn(q, s) = Conn(m, s)
    BY <1>5 DEF PutIsDone, Affects
<1>7. OutputSound(v, o, g)
    <2>1. SentBy(v, o) = SentBy(u, o)
        BY <1>2 DEF SentBy
    <2>2. BufferSound(v, o) /\ End(v, o, g) = End(u, o, g)
        BY <1>1, <1>2, <2>1 DEF OutputSound, BufferSound, End, Rest
    <2> QED  BY <1>1, <1>2, <2>2 DEF OutputSound, FlushedSound, OrderSound, EchoSound
<1>8. Sound(q)
    BY <1>6, <1>7, AffectsSound
<1>9. ListSound(q)
    <2>1. \A r \in Slots \ {s} : q.user[r] = m.user[r]
        BY <1>6 DEF Affects
    <2> QED  BY <1>1, <1>2, <1>6, <2>1, SameListSound
<1>10. OthersAre(q, m, s)
    <2>1. Alters(q, m, s)
        BY <1>1, <1>6, AffectsAlters
    <2> QED  BY <1>1, <2>1, AltersOthers
<1>11. Stuck(m, s) => Stuck(q, s)
    BY <1>2, <1>6 DEF Stuck
<1> QED  BY <1>8, <1>9, <1>10, <1>11 DEF OthersAre

LEMMA NextUserKeeps ==
    ASSUME IInv, NEW m, Sound(m), ListSound(m), m.ring # << >>, Quiet(m), Fresh(m, comm),
           NEW n \in Nat, NextUser(m, n), UNCHANGED net
    PROVE  IInv'
<1> DEFINE s == Head(m.ring)
<1>1. PICK take \in 0 .. MAX_STRLEN :
         MessageDone(FlushOutput(Rotated(m), s, take, Conn(m, s) \in net.closed), s, n)
    BY DEF NextUser
<1> DEFINE fails == Conn(m, s) \in net.closed
           q == FlushOutput(Rotated(m), s, take, fails)
<1>2. fails \in BOOLEAN
    OBVIOUS
<1>3. s = Head(m.ring) /\ MessageDone(q, s, n)
    BY <1>1
<1> HIDE DEF s, fails
<1>4. /\ Sound(q) /\ ListSound(q) /\ s \in Used(q) /\ Stuck(q, s) /\ q.ring # << >>
      /\ Quiet(q) /\ Fresh(q, m)
    BY <1>2, <1>3, TurnSent
<1> HIDE DEF q
<1>5. CASE ~q.user[s].odone
    <2>1. comm' = q /\ pc' = InputOf(q, s, n)
        BY <1>3, <1>5 DEF MessageDone
    <2>2. /\ pc'.at \in {"turns", "input"} /\ pc'.i = n
          /\ pc'.at = "input" => pc'.usr = s
        BY <2>1 DEF InputOf, TurnsOf, Part
    <2>3. PcSound'
        <3>1. \A r \in Used(comm') : comm'.user[r].outbuf => Stuck(comm', r)
            BY <1>4, <2>1 DEF Quiet
        <3> QED  BY <1>4, <2>1, <2>2, <3>1 DEF PcSound
    <2>4. Fresh(comm', comm)
        BY <1>4, <2>1 DEF Fresh
    <2> QED  BY <1>4, <2>1, <2>3, <2>4, NoPeer, StepSound
<1>6. CASE q.user[s].odone
    <2>1. /\ comm' = [q EXCEPT !.user[s].odone = FALSE, !.odone = @ - 1]
          /\ pc' = [ThreadTo("input") EXCEPT !.i = n, !.usr = s]
        BY <1>3, <1>6 DEF MessageDone
    <2>2. Sound(comm') /\ ListSound(comm') /\ s \in Used(comm')
          /\ Fresh(comm', q) /\ Stuck(comm', s)
        BY <1>4, <1>6, <2>1, MessageDoneSound
    <2>3. pc'.at = "thread" /\ pc'.next = "input" /\ pc'.i = n /\ pc'.usr = s
        BY <2>1 DEF ThreadTo, Part
    <2>4. PcSound'
        BY <2>2, <2>3 DEF PcSound
    <2>5. Fresh(comm', comm)
        BY <1>4, <2>2 DEF Fresh
    <2> QED  BY <2>2, <2>4, <2>5, NoPeer, StepSound
<1> QED  BY <1>5, <1>6

LEMMA UsersInRing ==
    ASSUME NEW m, Sound(m), m.nusers > 0
    PROVE  m.ring # << >>
<1> SUFFICES ASSUME m.ring = << >>  PROVE FALSE
    OBVIOUS
<1>1. ToSet(<< >>) = {}
    BY DEF ToSet
<1>2. Used(m) = {} /\ m.nusers = Cardinality(Used(m))
    BY <1>1 DEF Sound, Shares
<1> QED  BY <1>2, FS_EmptySet

LEMMA EmptyListQuiet ==
    ASSUME NEW m, Sound(m), ListSound(m), m.flush = << >>
    PROVE  Quiet(m)
<1> SUFFICES ASSUME NEW r \in Used(m)  PROVE ~m.user[r].outbuf
    BY DEF Quiet
<1>1. r \in Slots /\ BufferSound(m.user[r], Arr(m, r))
    BY DEF Sound, OutputSound, Used
<1>2. ~m.user[r].flush
    BY <1>1, EmptyList
<1> QED  BY <1>1, <1>2 DEF BufferSound

LEMMA ReceivingEmpty ==
    ASSUME IInv, Receiving
    PROVE  comm.flush = << >>
BY DEF IInv, PcSound, Receiving

LEMMA FirstTurnKeeps ==
    ASSUME IInv, FirstTurn
    PROVE  IInv'
<1> DEFINE m == Selected
<1>1. SelectedIs(m, comm)
    BY SelectedSound
<1>2. comm.flush = << >> /\ comm.nusers > 0 /\ NextUser(m, comm.nusers - 1) /\ UNCHANGED net
    BY ReceivingEmpty DEF FirstTurn
<1> HIDE DEF m
<1>3. Sound(m) /\ ListSound(m) /\ m.flush = << >> /\ m.nusers = comm.nusers /\ m.obj = comm.obj
    BY <1>1, <1>2 DEF SelectedIs
<1>4. m.ring # << >> /\ Quiet(m)
    BY <1>2, <1>3, UsersInRing, EmptyListQuiet
<1>5. Fresh(m, comm)
    BY <1>3 DEF Fresh
<1>6. comm.nusers - 1 \in Nat
    <2>1. comm.nusers \in 0 .. maxusers
        BY CommsCounting, CountingFields DEF IInv, Sound
    <2> QED  BY <1>2, <2>1, ConstantsAre
<1> QED  BY <1>2, <1>3, <1>4, <1>5, <1>6, NextUserKeeps

LEMMA TurnKeeps ==
    ASSUME IInv, Turn
    PROVE  IInv'
<1>1. pc.at = "turns" /\ pc.i > 0 /\ NextUser(comm, pc.i - 1) /\ UNCHANGED net
    BY DEF Turn
<1>2. pc.i \in Nat /\ comm.ring # << >> /\ Quiet(comm)
    BY <1>1 DEF IInv, PcSound, Quiet
<1>3. pc.i - 1 \in Nat
    BY <1>1, <1>2
<1>4. Sound(comm) /\ ListSound(comm)
    BY DEF IInv
<1> QED  BY <1>1, <1>2, <1>3, <1>4, FreshSame, NextUserKeeps

LEMMA NoTurnKeeps ==
    ASSUME IInv, NoTurn
    PROVE  IInv'
<1>1. PICK takes \in Takes : comm' = Flushed(Selected, takes) \/ comm' = Flushed(comm, takes)
    BY DEF NoTurn
<1>2. pc' = Part("callouts") /\ UNCHANGED net
    BY DEF NoTurn
<1>3. SelectedIs(Selected, comm) /\ SelectedIs(comm, comm)
    BY SelectedSound DEF IInv, SelectedIs
<1>4. PICK m : SelectedIs(m, comm) /\ comm' = Flushed(m, takes)
    BY <1>1, <1>3
<1>5. AllFlushed(comm', m)
    BY <1>4, FlushedIs DEF SelectedIs
<1>6. Fresh(m, comm)
    BY <1>4 DEF SelectedIs, Fresh
<1>7. PcSound'
    BY <1>2, <1>5 DEF PcSound, Part, AllFlushed
<1> QED  BY <1>2, <1>5, <1>6, <1>7, FlushedKeeps

---------------------------------------------------------------------------
(* The telnet machine.                                                     *)

Parse == [state : States, inbuf : Inbuf, lines : Nat, answers : Nat]

(* What is added to the input buffer is counted.                           *)
IsStep(q, p, n) ==
    /\ q \in Parse
    /\ Len(q.inbuf) <= Len(p.inbuf) + n
    /\ Cardinality(LFs(q.inbuf)) + p.lines = Cardinality(LFs(p.inbuf)) + q.lines

LEMMA ParseFields ==
    ASSUME NEW p \in Parse
    PROVE  /\ p.state \in States /\ p.inbuf \in Inbuf /\ p.lines \in Nat /\ p.answers \in Nat
           /\ Len(p.inbuf) \in Nat /\ Cardinality(LFs(p.inbuf)) \in Nat
BY LFsFinite DEF Parse

LEMMA ToIs ==
    ASSUME NEW p \in Parse, NEW st \in States, NEW n \in Nat
    PROVE  IsStep([p EXCEPT !.state = st, !.answers = p.answers + n], p, 1)
<1> DEFINE q == [p EXCEPT !.state = st, !.answers = p.answers + n]
<1>1. p.answers \in Nat /\ p.answers + n \in Nat
    BY ParseFields
<1>2. q \in Parse /\ q.inbuf = p.inbuf /\ q.lines = p.lines
    BY <1>1 DEF Parse
<1> HIDE DEF q
<1>3. IsStep(q, p, 1)
    BY <1>2, ParseFields DEF IsStep
<1> QED  BY <1>3 DEF q

PutOf(p, st, b, n) == [p EXCEPT !.state = st, !.inbuf = Append(p.inbuf, b), !.lines = n]

LEMMA PutIn ==
    ASSUME NEW p \in Parse, NEW st \in States, NEW b \in {"char", "LF"},
           NEW n, n = IF b = "LF" THEN p.lines + 1 ELSE p.lines
    PROVE  IsStep(PutOf(p, st, b, n), p, 1)
<1> DEFINE d == D(b = "LF")
           x == Append(p.inbuf, b)
           q == [p EXCEPT !.state = st, !.inbuf = x, !.lines = n]
<1>1. p.inbuf \in Inbuf /\ p.lines \in Nat /\ d \in Nat
    BY ParseFields DEF D
<1>2. /\ x \in Inbuf /\ Len(x) = Len(p.inbuf) + 1
      /\ Cardinality(LFs(x)) = Cardinality(LFs(p.inbuf)) + d
    BY <1>1, LFsAppend
<1>6. n = p.lines + d
    BY <1>1 DEF D
<1> HIDE DEF d, x
<1>3. n \in Nat
    BY <1>1, <1>6
<1>4. q \in Parse /\ q.inbuf = x /\ q.lines = n
    BY <1>2, <1>3 DEF Parse
<1> HIDE DEF q
<1>5. IsStep(q, p, 1)
    <2>1. Len(p.inbuf) \in Nat /\ Cardinality(LFs(p.inbuf)) \in Nat
        BY ParseFields
    <2>2. Len(q.inbuf) <= Len(p.inbuf) + 1
        BY <1>2, <1>4, <2>1
    <2>3. Cardinality(LFs(q.inbuf)) + p.lines = Cardinality(LFs(p.inbuf)) + q.lines
        <3> DEFINE i == Cardinality(LFs(p.inbuf))
        <3>1. Cardinality(LFs(q.inbuf)) = i + d /\ q.lines = p.lines + d
            BY <1>2, <1>4, <1>6
        <3> HIDE DEF i
        <3>2. i \in Nat
            BY <2>1 DEF i
        <3>3. i + d + p.lines = i + (p.lines + d)
            BY <1>1, <3>2
        <3> QED  BY <3>1, <3>3 DEF i
    <2> QED  BY <1>4, <2>2, <2>3 DEF IsStep
<1> QED  BY <1>5 DEF q, x, PutOf

LEMMA EraseIs ==
    ASSUME NEW p \in Parse, p.inbuf # << >>, Last(p.inbuf) # "LF"
    PROVE  IsStep([p EXCEPT !.inbuf = Front(p.inbuf)], p, 1)
<1> DEFINE x == Front(p.inbuf)
           q == [p EXCEPT !.inbuf = x]
<1>1. p.inbuf \in Inbuf /\ p.lines \in Nat /\ Len(p.inbuf) \in Nat
    BY ParseFields
<1>2. x \in Inbuf /\ Len(x) = Len(p.inbuf) - 1 /\ LFs(x) = LFs(p.inbuf)
    BY <1>1, LFsFront
<1> HIDE DEF x
<1>3. q \in Parse /\ q.inbuf = x /\ q.lines = p.lines
    BY <1>2 DEF Parse
<1> HIDE DEF q
<1>4. IsStep(q, p, 1)
    BY <1>1, <1>2, <1>3 DEF IsStep
<1> QED  BY <1>4 DEF q, x

(* The forms that a step has.                                              *)
To(p, st) == [p EXCEPT !.state = st]
Kept(p, st) == [p EXCEPT !.state = st, !.inbuf = Append(@, "char")]
Lined(p, st) == [p EXCEPT !.state = st, !.inbuf = Append(@, "LF"), !.lines = @ + 1]
Answer(p) == [p EXCEPT !.state = "TS_DATA", !.answers = @ + 1]
Erased(p) ==
    IF p.inbuf # << >> /\ Last(p.inbuf) # "LF" THEN [p EXCEPT !.inbuf = Front(@)] ELSE p

LEMMA FormsAre ==
    ASSUME NEW p \in Parse
    PROVE  /\ IsStep(p, p, 1) /\ IsStep(Erased(p), p, 1) /\ IsStep(Answer(p), p, 1)
           /\ \A st \in States : /\ IsStep(To(p, st), p, 1) /\ IsStep(Kept(p, st), p, 1)
                                 /\ IsStep(Lined(p, st), p, 1)
<1>1. p.state \in States /\ p.answers \in Nat /\ p.lines \in Nat
    BY ParseFields
<1>2. IsStep(p, p, 1)
    BY ParseFields DEF IsStep
<1>3. IsStep(Erased(p), p, 1)
    BY <1>2, EraseIs DEF Erased
<1>4. IsStep(Answer(p), p, 1)
    <2>1. "TS_DATA" \in States /\ 1 \in Nat
        BY DEF States
    <2>2. Answer(p) = [p EXCEPT !.state = "TS_DATA", !.answers = p.answers + 1]
        BY DEF Answer, Parse
    <2> QED  BY <2>1, <2>2, ToIs
<1>5. ASSUME NEW st \in States
      PROVE  /\ IsStep(To(p, st), p, 1) /\ IsStep(Kept(p, st), p, 1)
             /\ IsStep(Lined(p, st), p, 1)
    <2>1. To(p, st) = [p EXCEPT !.state = st, !.answers = p.answers + 0]
        <3>1. p.answers + 0 = p.answers
            BY <1>1
        <3>2. [p EXCEPT !.state = st, !.answers = p.answers] = [p EXCEPT !.state = st]
            BY DEF Parse
        <3> QED  BY <3>1, <3>2 DEF To
    <2>2. Kept(p, st) = [p EXCEPT !.state = st, !.inbuf = Append(p.inbuf, "char"),
                                  !.lines = p.lines]
        BY DEF Kept, Parse
    <2>3. Lined(p, st) = [p EXCEPT !.state = st, !.inbuf = Append(p.inbuf, "LF"),
                                   !.lines = p.lines + 1]
        BY DEF Lined
    <2>4. 0 \in Nat /\ "char" \in {"char", "LF"} /\ "LF" \in {"char", "LF"}
        OBVIOUS
    <2>5. IsStep(To(p, st), p, 1)
        BY <2>1, <2>4, ToIs
    <2>6. IsStep(Kept(p, st), p, 1)
        <3> DEFINE b == "char"
                   n == p.lines
        <3>1. b \in {"char", "LF"} /\ n = IF b = "LF" THEN p.lines + 1 ELSE p.lines
            OBVIOUS
        <3>2. Kept(p, st) = PutOf(p, st, b, n)
            BY <2>2 DEF PutOf
        <3> HIDE DEF b, n
        <3> QED  BY <3>1, <3>2, PutIn
    <2>7. IsStep(Lined(p, st), p, 1)
        <3> DEFINE b == "LF"
                   n == p.lines + 1
        <3>1. b \in {"char", "LF"} /\ n = IF b = "LF" THEN p.lines + 1 ELSE p.lines
            OBVIOUS
        <3>2. Lined(p, st) = PutOf(p, st, b, n)
            BY <2>3 DEF PutOf
        <3> HIDE DEF b, n
        <3> QED  BY <3>1, <3>2, PutIn
    <2> QED  BY <2>5, <2>6, <2>7
<1> QED  BY <1>2, <1>3, <1>4, <1>5

LEMMA StepIs ==
    ASSUME NEW p \in Parse, NEW b
    PROVE  IsStep(Step(p, b), p, 1)
<1>1. p.state \in States
    BY ParseFields
<1>2. /\ {"TS_DATA", "TS_CRDATA", "TS_IAC", "TS_OPT", "TS_SB", "TS_SE"} = States
    BY DEF States
<1>3. CASE p.state = "TS_DATA"
    <2>1. Step(p, b) \in {To(p, "TS_IAC"), Erased(p), Lined(p, "TS_CRDATA"), Lined(p, "TS_DATA"),
                          p, Kept(p, "TS_DATA")}
        BY <1>3 DEF Step, To, Erased, Lined, Kept
    <2> QED  BY <1>2, <2>1, FormsAre
<1>4. CASE p.state = "TS_CRDATA"
    <2>1. Step(p, b) \in {To(p, "TS_IAC"), Lined(p, "TS_CRDATA"), To(p, "TS_DATA"),
                          Kept(p, "TS_DATA")}
        BY <1>4 DEF Step, To, Lined, Kept
    <2> QED  BY <1>2, <2>1, FormsAre
<1>5. CASE p.state = "TS_IAC"
    <2>1. Step(p, b) \in {Kept(p, "TS_DATA"), To(p, "TS_SB"), To(p, "TS_OPT"), Answer(p),
                          To(p, "TS_DATA")}
        BY <1>5 DEF Step, To, Kept, Answer
    <2> QED  BY <1>2, <2>1, FormsAre
<1>6. CASE p.state = "TS_OPT"
    <2>1. Step(p, b) \in {Answer(p), To(p, "TS_DATA")}
        BY <1>6 DEF Step, To, Answer
    <2> QED  BY <1>2, <2>1, FormsAre
<1>7. CASE p.state = "TS_SB"
    <2>1. Step(p, b) \in {To(p, "TS_SE"), p}
        BY <1>7 DEF Step, To
    <2> QED  BY <1>2, <2>1, FormsAre
<1>8. CASE p.state = "TS_SE"
    <2>1. Step(p, b) \in {To(p, "TS_DATA"), To(p, "TS_SB")}
        BY <1>8 DEF Step, To
    <2> QED  BY <1>2, <2>1, FormsAre
<1> QED  BY <1>1, <1>3, <1>4, <1>5, <1>6, <1>7, <1>8 DEF States

LEMMA StepsAdd ==
    ASSUME NEW p \in Parse, NEW q, NEW r, NEW n \in Nat, IsStep(q, p, n), IsStep(r, q, 1)
    PROVE  IsStep(r, p, n + 1)
<1>1. q \in Parse /\ r \in Parse
    BY DEF IsStep
<1> DEFINE i == Cardinality(LFs(p.inbuf))
           j == Cardinality(LFs(q.inbuf))
           k == Cardinality(LFs(r.inbuf))
           x == Len(p.inbuf)
           y == Len(q.inbuf)
           z == Len(r.inbuf)
<1>2. i \in Nat /\ j \in Nat /\ k \in Nat /\ x \in Nat /\ y \in Nat /\ z \in Nat
    BY <1>1, ParseFields
<1>3. p.lines \in Nat /\ q.lines \in Nat /\ r.lines \in Nat
    BY <1>1, ParseFields
<1>4. y <= x + n /\ z <= y + 1 /\ j + p.lines = i + q.lines /\ k + q.lines = j + r.lines
    BY DEF IsStep
<1> HIDE DEF i, j, k, x, y, z
<1>5. z <= x + (n + 1)
    BY <1>2, <1>4
<1>6. k + p.lines = i + r.lines
    BY <1>2, <1>3, <1>4
<1> QED  BY <1>1, <1>5, <1>6 DEF IsStep, i, k, x, z

(* What one chunk of input does.                                           *)
ParseOf(u) == [state |-> u.state, inbuf |-> u.inbuf, lines |-> 0, answers |-> 0]

LEMMA ParsedIs ==
    ASSUME NEW u \in User, NEW chunk, Len(chunk) \in Nat
    PROVE  IsStep(Parsed(u, chunk), ParseOf(u), Len(chunk)) /\ ParseOf(u) \in Parse
<1> DEFINE n == Len(chunk)
           x == ParseOf(u)
           F(f) == [k \in 0 .. n |-> IF k = 0 THEN x ELSE Step(f[k - 1], chunk[k])]
           after == CHOOSE f : f = F(f)
           Op == [p \in Parse \X (1 .. n) |-> Step(p[1], chunk[p[2]])]
<1>1. n \in Nat
    OBVIOUS
<1>2. x \in Parse
    BY UserFields DEF Parse, ParseOf
<1>3. Parsed(u, chunk) = after[n]
    BY DEF Parsed, ParseOf
<1> HIDE DEF n, x
<1>4. Op \in [Parse \X (1 .. n) -> Parse]
    BY StepIs DEF IsStep
<1>5. \E f : f = F(f)
    <2> HIDE DEF Op
    <2>1. PICK f \in [0 .. n -> Parse] : Walks(f, n, x, Op)
        BY <1>1, <1>2, <1>4, WalkExists
    <2>2. \A k \in 1 .. n : Op[<< f[k - 1], k >>] = Step(f[k - 1], chunk[k])
        <3> TAKE k \in 1 .. n
        <3>1. << f[k - 1], k >> \in Parse \X (1 .. n)
            BY <1>1
        <3> QED  BY <3>1 DEF Op
    <2>3. f = F(f)
        BY <2>1, <2>2 DEF Walks
    <2> QED  BY <2>3
<1>6. after = F(after)
    <2> HIDE DEF F
    <2> QED  BY <1>5
<1> HIDE DEF after
<1>7. after[0] = x /\ \A k \in 1 .. n : after[k] = Step(after[k - 1], chunk[k])
    BY <1>1, <1>6
<1> HIDE DEF F
<1> DEFINE T == {k \in 0 .. n : IsStep(after[k], x, k)}
<1>8. \A k \in 0 .. n : k \in T
    <2>1. 0 \in T
        <3>1. IsStep(x, x, 0)
            BY <1>2, ParseFields DEF IsStep
        <3> QED  BY <1>1, <1>7, <3>1
    <2>2. ASSUME NEW k \in 1 .. n, k - 1 \in T
          PROVE  k \in T
        <3>1. k - 1 \in Nat /\ k - 1 + 1 = k
            BY <1>1
        <3>2. IsStep(after[k - 1], x, k - 1)
            BY <2>2
        <3>3. IsStep(after[k], after[k - 1], 1)
            BY <1>7, <3>2, StepIs DEF IsStep
        <3>4. IsStep(after[k], x, k - 1 + 1)
            BY <1>2, <3>1, <3>2, <3>3, StepsAdd
        <3> QED  BY <3>1, <3>4
    <2> HIDE DEF T
    <2> QED  BY <1>1, <2>1, <2>2, StepByStep
<1> QED  BY <1>1, <1>2, <1>3, <1>8 DEF n, x

---------------------------------------------------------------------------
(* What comes in changes the input of one user.                            *)
Inputs(m, s, v, d) ==
    [m EXCEPT !.user = [m.user EXCEPT ![s] = v], !.newlines = m.newlines + d]

(* v is u, but for its input.                                              *)
InputOnly(v, u, d) ==
    /\ v \in User
    /\ v.oindex = u.oindex /\ v.echo = u.echo /\ v.blocked = u.blocked /\ v.flush = u.flush
    /\ v.output = u.output /\ v.odone = u.odone /\ v.outbuf = u.outbuf /\ v.osdone = u.osdone
    /\ v.newlines = u.newlines + d

LEMMA InputOnlyOutput ==
    ASSUME NEW u, NEW v, NEW d, InputOnly(v, u, d), NEW o, NEW g, OutputSound(u, o, g)
    PROVE  OutputSound(v, o, g)
<1>1. SentBy(v, o) = SentBy(u, o)
    BY DEF SentBy, InputOnly
<1>2. End(v, o, g) = End(u, o, g)
    BY <1>1 DEF End, Rest
<1>3. BufferSound(v, o)
    BY <1>1 DEF OutputSound, BufferSound, InputOnly
<1> QED  BY <1>2, <1>3 DEF OutputSound, FlushedSound, OrderSound, EchoSound, InputOnly

InputsAre(q, m, s, v) ==
    /\ Alters(q, m, s) /\ q.user[s] = v /\ Arr(q, s) = Arr(m, s)
    /\ q.obj = m.obj /\ q.got = m.got /\ q.wait = m.wait /\ q.flush = m.flush

LEMMA InputsIs ==
    ASSUME NEW m \in Counting, NEW s \in Used(m), NEW d \in Int, NEW v,
           InputOnly(v, m.user[s], d), m.newlines + d \in Nat
    PROVE  InputsAre(Inputs(m, s, v, d), m, s, v)
<1> DEFINE q == Inputs(m, s, v, d)
           n == m.newlines + d
<1>1. /\ s \in Slots /\ m.user \in [Slots -> User] /\ m.user[s] \in User /\ v \in User
      /\ m.newlines \in Nat /\ m.odone \in Int
    BY UsedIs, CountingFields DEF InputOnly
<1>2. q = [m EXCEPT !.user = [m.user EXCEPT ![s] = v], !.newlines = n]
    BY DEF Inputs
<1> HIDE DEF q
<1>3. n \in Nat
    OBVIOUS
<1> HIDE DEF n
<1>4. /\ q \in Counting
      /\ q.user = [m.user EXCEPT ![s] = v] /\ q.newlines = n
      /\ q.obj = m.obj /\ q.got = m.got /\ q.wait = m.wait /\ q.odone = m.odone
      /\ q.flush = m.flush /\ q.ring = m.ring /\ q.freeuser = m.freeuser
      /\ q.nusers = m.nusers
    BY <1>1, <1>2, <1>3 DEF Counting
<1>5. q.user[s] = v /\ \A r \in Slots \ {s} : q.user[r] = m.user[r]
    BY <1>1, <1>4
<1>6. Conn(q, s) = Conn(m, s)
    BY <1>5 DEF Conn, InputOnly
<1>7. q.newlines = m.newlines + q.user[s].newlines - m.user[s].newlines
    <2>1. m.user[s].newlines \in Nat /\ v.newlines = m.user[s].newlines + d
        BY <1>1, UserFields DEF InputOnly
    <2> QED  BY <1>1, <1>4, <1>5, <2>1 DEF n
<1>8. q.odone = m.odone + D(q.user[s].odone) - D(m.user[s].odone)
    <2>1. q.user[s].odone = m.user[s].odone /\ D(m.user[s].odone) \in Int
        BY <1>5 DEF InputOnly, D
    <2> QED  BY <1>1, <1>4, <2>1
<1>9. Alters(q, m, s)
    BY <1>4, <1>5, <1>6, <1>7, <1>8 DEF Alters
<1> QED  BY <1>4, <1>5, <1>6, <1>9 DEF InputsAre, Arr, q

---------------------------------------------------------------------------
(* The answers to telnet options.                                          *)

(* Nothing is sent to user s while its old buffer is still to be sent.     *)
Quiets(m, s) == m.user[s].outbuf \/ ~m.user[s].flush => Stuck(m, s)

(* b may come after some answers were written for user s of a.             *)
Answering(b, a, s) ==
    /\ Affects(b, a, s) /\ ListSound(b)
    /\ OutputSound(b.user[s], Arr(b, s), b.got[Conn(b, s)])
    /\ Quiets(b, s)

LEMMA ReplyEnd ==
    ASSUME NEW g
    PROVE  Receives(g, REPLY) = g
BY DEF Receives, WILL, WONT, REPLY

LEMMA AnswerOnce ==
    ASSUME NEW m \in Counting, NEW s \in Used(m), ListSound(m),
           OutputSound(m.user[s], Arr(m, s), m.got[Conn(m, s)]), Quiets(m, s)
    PROVE  Answering(Write(m, s, REPLY), m, s)
<1> DEFINE u == m.user[s]
           o == Arr(m, s)
           g == m.got[Conn(m, s)]
           q == Write(m, s, REPLY)
           v == WriteUser(u, o)
           p == WriteObject(u, o, REPLY)
<1>1. /\ u \in User /\ o \in Object /\ g \in Got /\ s \in Slots /\ m.flush \in Seq(Slots)
      /\ BufferSound(u, o)
    BY UsedIs, CountingFields DEF OutputSound
<1>2. REPLY \in Output
    BY ConstantsAre DEF Output, REPLY
<1>3. WriteIsDone(q, m, s, REPLY)
    <2> HIDE DEF q, u, o
    <2> QED  BY <1>1, <1>2, WriteIs DEF q, u, o
<1> HIDE DEF q
<1>4. /\ Affects(q, m, s) /\ q.user[s] = v /\ Arr(q, s) = p /\ q.got = m.got /\ q.wait = m.wait
      /\ q.flush = IF u.flush THEN m.flush ELSE << s >> \o m.flush
      /\ Conn(q, s) = Conn(m, s)
    BY <1>3 DEF WriteIsDone, Affects
<1>5. OutputSound(v, p, g)
    <2>1. /\ v \in User /\ v.flush /\ v.echo = u.echo /\ v.oindex = u.oindex
        BY <1>1, WriteUserIs
    <2>2. BufferSound(v, p) /\ p.written = o.written
        BY <1>1, <1>2, WriteSound
    <2>3. End(v, p, g) = End(u, o, g)
        BY <1>1, <1>2, ReplyEnd, WriteEnd
    <2> HIDE DEF v, p
    <2> QED  BY <2>1, <2>2, <2>3 DEF OutputSound, FlushedSound, OrderSound, EchoSound
<1>6. ListSound(q)
    <2>1. q.user[s].flush
        <3>1. v.flush
            BY <1>1, WriteUserIs
        <3> HIDE DEF v
        <3> QED  BY <1>4, <3>1
    <2>2. \A r \in Slots \ {s} : q.user[r] = m.user[r]
        BY <1>4 DEF Affects
    <2> HIDE DEF v, p
    <2> QED  BY <1>1, <1>4, <2>1, <2>2, PushedListSound DEF u
<1>7. Quiets(q, s)
    <2> SUFFICES ASSUME v.outbuf \/ ~v.flush
                 PROVE  Conn(m, s) \in m.wait \/ ~v.output
        BY <1>4 DEF Quiets, Stuck
    <2>1. /\ v.flush /\ v.outbuf = InFlush(u, o).outbuf
          /\ v.output = (u.output \/ o.buffer = << >>)
        BY <1>1, WriteUserIs
    <2>2. InFlush(u, o).outbuf = (IF u.flush THEN u.outbuf ELSE o.buffer # << >>)
        <3>1. u \in User /\ o \in Object
            BY <1>1
        <3> HIDE DEF u, o, v, p
        <3> QED  BY <3>1, InFlushIs
    <2>3. o.buffer # << >>
        BY <1>1, <2>1, <2>2 DEF BufferSound
    <2>4. u.outbuf \/ ~u.flush
        BY <2>1, <2>2
    <2>5. Conn(m, s) \in m.wait \/ ~u.output
        BY <2>3, <2>4 DEF Quiets, Stuck
    <2> QED  BY <2>1, <2>3, <2>5
<1> QED  BY <1>4, <1>5, <1>6, <1>7 DEF Answering, q

LEMMA AnswersMore ==
    ASSUME NEW m \in Counting, NEW s \in Used(m), NEW q, NEW r, Answering(q, m, s),
           Answering(r, q, s)
    PROVE  Answering(r, m, s)
BY AffectsMore DEF Answering

LEMMA AnsweredIs ==
    ASSUME NEW m \in Counting, NEW s \in Used(m), ListSound(m), NEW n \in Nat,
           OutputSound(m.user[s], Arr(m, s), m.got[Conn(m, s)]), Quiets(m, s)
    PROVE  Answering(Answered(m, s, n), m, s)
<1> DEFINE F(f) == [k \in 0 .. n |-> IF k = 0 THEN m ELSE Write(f[k - 1], s, REPLY)]
           after == CHOOSE f : f = F(f)
           Op == [p \in Counting \X (1 .. n) |->
                    IF Answering(p[1], m, s) THEN Write(p[1], s, REPLY) ELSE p[1]]
<1>1. Answered(m, s, n) = after[n]
    BY DEF Answered
<1>2. Answering(m, m, s)
    BY AffectsNone DEF Answering
<1>3. ASSUME NEW y, Answering(y, m, s)
      PROVE  Answering(Write(y, s, REPLY), m, s)
    <2>1. y \in Counting /\ s \in Used(y)
        BY <1>3 DEF Answering, Affects, Used
    <2>2. Answering(Write(y, s, REPLY), y, s)
        BY <1>3, <2>1, AnswerOnce DEF Answering
    <2> QED  BY <1>3, <2>2, AnswersMore
<1>4. Op \in [Counting \X (1 .. n) -> Counting]
    <2>1. ASSUME NEW p \in Counting \X (1 .. n)
          PROVE  (IF Answering(p[1], m, s) THEN Write(p[1], s, REPLY) ELSE p[1]) \in Counting
        <3>1. CASE Answering(p[1], m, s)
            BY <1>3, <3>1 DEF Answering, Affects
        <3> QED  BY <3>1
    <2> QED  BY <2>1
<1>5. \E f : f = F(f)
    <2> HIDE DEF Op
    <2>1. PICK f \in [0 .. n -> Counting] : Walks(f, n, m, Op)
        BY <1>4, WalkExists
    <2> DEFINE T == {k \in 0 .. n : Answering(f[k], m, s)}
    <2>2. f[0] = m /\ \A k \in 1 .. n : f[k] = Op[<< f[k - 1], k >>]
        <3> HIDE DEF F
        <3>1. \A k \in 0 .. n : f[k] = IF k = 0 THEN m ELSE Op[<< f[k - 1], k >>]
            BY <2>1 DEF Walks
        <3>2. 0 \in 0 .. n /\ \A k \in 1 .. n : k \in 0 .. n /\ k # 0
            OBVIOUS
        <3> QED  BY <3>1, <3>2
    <2>3. \A k \in 1 .. n : Answering(f[k - 1], m, s) => f[k] = Write(f[k - 1], s, REPLY)
        <3> TAKE k \in 1 .. n
        <3>1. << f[k - 1], k >> \in Counting \X (1 .. n)
            OBVIOUS
        <3> QED  BY <2>2, <3>1 DEF Op
    <2>4. \A k \in 0 .. n : k \in T
        <3>1. 0 \in T
            BY <1>2, <2>2
        <3>2. ASSUME NEW k \in 1 .. n, k - 1 \in T
              PROVE  k \in T
            BY <1>3, <2>3, <3>2
        <3> HIDE DEF T
        <3> QED  BY <3>1, <3>2, StepByStep
    <2>5. \A k \in 1 .. n : f[k] = Write(f[k - 1], s, REPLY)
        <3> TAKE k \in 1 .. n
        <3>1. k - 1 \in 0 .. n
            OBVIOUS
        <3>2. Answering(f[k - 1], m, s)
            BY <2>4, <3>1
        <3> QED  BY <2>3, <3>2
    <2>6. f = F(f)
        <3>1. f = [k \in 0 .. n |-> f[k]]
            OBVIOUS
        <3>2. \A k \in 0 .. n : f[k] = IF k = 0 THEN m ELSE Write(f[k - 1], s, REPLY)
            BY <2>2, <2>5
        <3> QED  BY <3>1, <3>2
    <2> QED  BY <2>6
<1>6. after = F(after)
    <2> HIDE DEF F
    <2> QED  BY <1>5
<1> HIDE DEF after
<1>7. after[0] = m /\ \A k \in 1 .. n : after[k] = Write(after[k - 1], s, REPLY)
    BY <1>6
<1> HIDE DEF F, Op
<1> DEFINE T == {k \in 0 .. n : Answering(after[k], m, s)}
<1>8. \A k \in 0 .. n : k \in T
    <2>1. 0 \in T
        BY <1>2, <1>7
    <2>2. ASSUME NEW k \in 1 .. n, k - 1 \in T
          PROVE  k \in T
        BY <1>3, <1>7, <2>2
    <2> HIDE DEF T
    <2> QED  BY <2>1, <2>2, StepByStep
<1> QED  BY <1>1, <1>8

(* b is m after the input p was taken for user s.                          *)
TakenIsDone(b, m, s, p) ==
    /\ Alters(b, m, s) /\ ListSound(b)
    /\ OutputSound(b.user[s], Arr(b, s), b.got[Conn(b, s)])
    /\ Quiets(b, s)
    /\ b.user[s].inbuf = p.inbuf
    /\ b.user[s].newlines = Cardinality(LFs(p.inbuf))
    /\ Len(p.inbuf) <= INBUF_SIZE

TakenUser(u, p) ==
    [u EXCEPT !.state = p.state, !.inbuf = p.inbuf, !.newlines = u.newlines + p.lines]

LEMMA TakenUserIs ==
    ASSUME NEW u \in User, InputSound(u), NEW k \in Nat, NEW p, IsStep(p, ParseOf(u), k),
           Len(u.inbuf) + k <= INBUF_SIZE
    PROVE  /\ InputOnly(TakenUser(u, p), u, p.lines)
           /\ TakenUser(u, p).inbuf = p.inbuf
           /\ p.lines \in Nat /\ p.answers \in Nat
           /\ u.newlines + p.lines = Cardinality(LFs(p.inbuf))
           /\ Len(p.inbuf) <= INBUF_SIZE
<1>1. /\ p \in Parse /\ Len(p.inbuf) <= Len(u.inbuf) + k
      /\ Cardinality(LFs(p.inbuf)) + 0 = Cardinality(LFs(u.inbuf)) + p.lines
    BY DEF IsStep, ParseOf
<1>2. /\ p.state \in States /\ p.inbuf \in Inbuf /\ p.lines \in Nat /\ p.answers \in Nat
      /\ Len(p.inbuf) \in Nat /\ Cardinality(LFs(p.inbuf)) \in Nat
    BY <1>1, ParseFields
<1>3. /\ u.inbuf \in Inbuf /\ u.newlines \in Nat
    BY UserFields
<1>4. /\ Len(u.inbuf) \in Nat /\ u.newlines = Cardinality(LFs(u.inbuf))
    BY <1>3, LFsFinite DEF InputSound
<1>5. u.newlines + p.lines = Cardinality(LFs(p.inbuf))
    <2> DEFINE a == Cardinality(LFs(p.inbuf))
               b == Cardinality(LFs(u.inbuf))
    <2> HIDE DEF a, b
    <2>1. a + 0 = b + p.lines /\ u.newlines = b /\ a \in Nat
        BY <1>1, <1>2, <1>4 DEF a, b
    <2> QED  BY <2>1 DEF a
<1>6. Len(p.inbuf) <= INBUF_SIZE
    BY <1>1, <1>2, <1>4, ConstantsAre
<1> DEFINE v == TakenUser(u, p)
           n == u.newlines + p.lines
<1>7. n \in Nat
    BY <1>2, <1>3
<1>8. v = [u EXCEPT !.state = p.state, !.inbuf = p.inbuf, !.newlines = n]
    BY DEF TakenUser
<1> HIDE DEF v, n
<1>9. /\ v \in User /\ v.inbuf = p.inbuf /\ v.newlines = n
      /\ v.oindex = u.oindex /\ v.echo = u.echo /\ v.blocked = u.blocked /\ v.flush = u.flush
      /\ v.output = u.output /\ v.odone = u.odone /\ v.outbuf = u.outbuf /\ v.osdone = u.osdone
    BY <1>2, <1>7, <1>8 DEF User, Inbuf
<1>10. InputOnly(v, u, p.lines)
    BY <1>9 DEF InputOnly, n
<1> QED  BY <1>2, <1>5, <1>6, <1>9, <1>10 DEF v

LEMMA TakenIs ==
    ASSUME NEW m, Sound(m), ListSound(m), NEW s \in Used(m), Quiets(m, s),
           NEW k \in Nat, NEW p, IsStep(p, ParseOf(m.user[s]), k),
           Len(m.user[s].inbuf) + k <= INBUF_SIZE
    PROVE  TakenIsDone(Taken(m, s, p), m, s, p)
<1> DEFINE u == m.user[s]
           v == TakenUser(u, p)
           x == Inputs(m, s, v, p.lines)
           b == Taken(m, s, p)
<1>1. /\ m \in Counting /\ s \in Slots /\ u \in User /\ InputSound(u)
      /\ m.user \in [Slots -> User] /\ m.newlines \in Nat
      /\ OutputSound(u, Arr(m, s), m.got[Conn(m, s)])
    BY SoundIs, CountingFields DEF Sound
<1>2. /\ InputOnly(v, u, p.lines) /\ v.inbuf = p.inbuf
      /\ p.lines \in Nat /\ p.answers \in Nat
      /\ u.newlines + p.lines = Cardinality(LFs(p.inbuf))
      /\ Len(p.inbuf) <= INBUF_SIZE
    <2> HIDE DEF v
    <2> QED  BY <1>1, TakenUserIs DEF u, v
<1>3. [m EXCEPT !.user[s].state = p.state, !.user[s].inbuf = p.inbuf,
                !.user[s].newlines = @ + p.lines, !.newlines = @ + p.lines] = x
    <2>1. x = [m EXCEPT !.user = [m.user EXCEPT ![s] = v], !.newlines = m.newlines + p.lines]
        BY DEF Inputs
    <2>2. v = [u EXCEPT !.state = p.state, !.inbuf = p.inbuf, !.newlines = u.newlines + p.lines]
        BY DEF TakenUser
    <2> HIDE DEF x, v
    <2> QED  BY <1>1, <2>1, <2>2 DEF Counting
<1>4. b = Answered(x, s, p.answers)
    BY <1>3 DEF Taken
<1> HIDE DEF v
<1>5. InputsAre(x, m, s, v)
    <2>1. m.newlines + p.lines \in Nat /\ p.lines \in Int
        BY <1>1, <1>2
    <2> QED  BY <1>1, <1>2, <2>1, InputsIs DEF u
<1> HIDE DEF x, b
<1>6. /\ Alters(x, m, s) /\ x.user[s] = v /\ Arr(x, s) = Arr(m, s)
      /\ x.obj = m.obj /\ x.got = m.got /\ x.wait = m.wait /\ x.flush = m.flush
    BY <1>5 DEF InputsAre
<1>7. x \in Counting /\ s \in Used(x) /\ Conn(x, s) = Conn(m, s)
      /\ \A r \in Slots \ {s} : x.user[r] = m.user[r]
    BY <1>6, <1>1 DEF Alters, Used
<1>8. ListSound(x)
    BY <1>1, <1>2, <1>6, <1>7, SameListSound DEF InputOnly, u
<1>9. Quiets(x, s)
    BY <1>2, <1>6, <1>7 DEF Quiets, Stuck, InputOnly
<1>10. OutputSound(x.user[s], Arr(x, s), x.got[Conn(x, s)])
    <2> HIDE DEF u
    <2>1. OutputSound(v, Arr(m, s), m.got[Conn(m, s)])
        BY <1>1, <1>2, InputOnlyOutput
    <2> QED  BY <1>6, <1>7, <2>1
<1>11. Answering(b, x, s)
    BY <1>2, <1>4, <1>7, <1>8, <1>9, <1>10, AnsweredIs
<1>12. Alters(b, m, s)
    <2>1. Alters(b, x, s)
        BY <1>7, <1>11, AffectsAlters DEF Answering
    <2> QED  BY <1>1, <1>6, <2>1, AltersMore
<1>13. b.user[s].inbuf = p.inbuf /\ b.user[s].newlines = Cardinality(LFs(p.inbuf))
    BY <1>2, <1>6, <1>11 DEF Answering, Affects, InputOnly
<1> QED  BY <1>2, <1>11, <1>12, <1>13 DEF TakenIsDone, Answering, b

(* The first line is given to the object.                                  *)
LineIs(x, m, s) ==
    /\ Sound(x) /\ ListSound(x) /\ Alters(x, m, s) /\ s \in Used(x)

WithoutLine(m, s) ==
    [m EXCEPT !.user[s].inbuf = AfterLine(@), !.user[s].newlines = @ - 1, !.newlines = @ - 1]

LEMMA CountHigh ==
    ASSUME NEW m, Sound(m), NEW s \in Slots
    PROVE  m.newlines >= m.user[s].newlines
<1>1. \A r \in Slots : m.user[r].newlines \in Nat
    <2>1. \A r \in Slots : m.user[r] \in User
        BY DEF Sound, Comms
    <2> QED  BY <2>1, UserFields
<1>2. m.user[s].newlines = m.user[s].newlines + 0 /\ 0 \in Int
    BY <1>1
<1>3. Lines(m) >= m.user[s].newlines
    BY <1>1, <1>2, LinesOne
<1> QED  BY <1>3 DEF Sound, Sums

LEMMA WithoutLineIs ==
    ASSUME NEW m, Sound(m), ListSound(m), NEW s \in Used(m), NEW p, NEW b,
           TakenIsDone(b, m, s, p), p.inbuf \in Inbuf, b.user[s].newlines # 0
    PROVE  LineIs(WithoutLine(b, s), m, s)
<1> DEFINE u == b.user[s]
           w == AfterLine(u.inbuf)
           v == [u EXCEPT !.inbuf = w, !.newlines = u.newlines - 1]
           x == Inputs(b, s, v, -1)
           y == WithoutLine(b, s)
<1>1. /\ b \in Counting /\ m \in Counting /\ s \in Slots /\ s \in Used(b)
      /\ Conn(b, s) = Conn(m, s)
      /\ Alters(b, m, s) /\ ListSound(b)
      /\ \A r \in Slots \ {s} : b.user[r] = m.user[r]
      /\ b.newlines = m.newlines + u.newlines - m.user[s].newlines
      /\ OutputSound(u, Arr(b, s), b.got[Conn(b, s)])
    BY SoundIs DEF TakenIsDone, Alters, Used
<1>2. /\ u.inbuf \in Inbuf /\ u.newlines = Cardinality(LFs(u.inbuf)) /\ u.newlines # 0
      /\ Len(u.inbuf) <= INBUF_SIZE
    BY DEF TakenIsDone
<1>3. u \in User /\ b.user \in [Slots -> User] /\ b.newlines \in Nat
    BY <1>1, UsedIs, CountingFields
<1>4. u.newlines \in Nat /\ m.user[s].newlines \in Nat /\ m.newlines \in Nat
    <2>1. m.user[s] \in User
        BY SoundIs
    <2> QED  BY <1>1, <1>3, <2>1, UserFields, CountingFields
<1>5. /\ w \in Inbuf /\ Len(w) < Len(u.inbuf) /\ Len(u.inbuf) \in Nat
      /\ Cardinality(LFs(w)) = u.newlines - 1
    <2> HIDE DEF u
    <2> QED  BY <1>2, LFsAfter, LFsFinite DEF w
<1>6. b.newlines + (-1) \in Nat
    <2>1. m.newlines >= m.user[s].newlines
        BY <1>1, CountHigh
    <2>2. u.newlines >= 1
        BY <1>2, <1>4
    <2> HIDE DEF u
    <2> QED  BY <1>1, <1>3, <1>4, <2>1, <2>2
<1>7. y = x
    <2>1. x = [b EXCEPT !.user = [b.user EXCEPT ![s] = v], !.newlines = b.newlines + (-1)]
        BY DEF Inputs
    <2>2. b.newlines + (-1) = b.newlines - 1
        BY <1>3
    <2> HIDE DEF x
    <2> QED  BY <1>1, <1>3, <2>1, <2>2 DEF Counting, WithoutLine
<1> HIDE DEF y, w
<1>8. InputOnly(v, u, -1) /\ v.inbuf = w
    <2>1. u.newlines - 1 \in Nat /\ u.newlines + (-1) = u.newlines - 1
        BY <1>2, <1>4
    <2> HIDE DEF u
    <2>2. /\ v \in User /\ v.inbuf = w /\ v.newlines = u.newlines - 1
          /\ v.oindex = u.oindex /\ v.echo = u.echo /\ v.blocked = u.blocked
          /\ v.flush = u.flush /\ v.output = u.output /\ v.odone = u.odone
          /\ v.outbuf = u.outbuf /\ v.osdone = u.osdone
        BY <1>3, <1>5, <2>1 DEF User, Inbuf
    <2> QED  BY <2>1, <2>2 DEF InputOnly
<1> HIDE DEF v
<1>9. InputsAre(x, b, s, v)
    <2>1. -1 \in Int
        OBVIOUS
    <2> QED  BY <1>1, <1>6, <1>8, <2>1, InputsIs
<1> HIDE DEF x
<1>10. Alters(x, m, s) /\ s \in Used(x)
    <2>1. Alters(x, b, s)
        BY <1>9 DEF InputsAre
    <2>2. Alters(x, m, s)
        BY <1>1, <2>1, AltersMore
    <2> QED  BY <1>1, <2>2 DEF Alters, Used
<1>11. /\ x.user[s] = v /\ Arr(x, s) = Arr(b, s) /\ x.got = b.got /\ x.flush = b.flush
       /\ Conn(x, s) = Conn(b, s) /\ \A r \in Slots \ {s} : x.user[r] = b.user[r]
    BY <1>9 DEF InputsAre, Alters
<1>12. InputSound(v)
    <2>1. v.newlines = Cardinality(LFs(w))
        <3>1. u.newlines + (-1) = u.newlines - 1
            BY <1>4
        <3> QED  BY <1>5, <1>8, <3>1 DEF InputOnly
    <2>2. Len(w) < INBUF_SIZE /\ Len(w) <= INBUF_SIZE
        <3>1. Len(w) \in Nat
            BY <1>5, LFsFinite
        <3> QED  BY <1>2, <1>5, <3>1, ConstantsAre
    <2> QED  BY <1>8, <2>1, <2>2 DEF InputSound
<1>13. Sound(x)
    <2>1. OutputSound(v, Arr(b, s), b.got[Conn(b, s)])
        BY <1>1, <1>8, InputOnlyOutput
    <2>2. OutputSound(x.user[s], Arr(x, s), x.got[Conn(x, s)])
        BY <1>11, <2>1
    <2> QED  BY <1>10, <1>11, <1>12, <2>2, AltersSound
<1>14. ListSound(x)
    BY <1>1, <1>8, <1>11, SameListSound DEF InputOnly
<1> QED  BY <1>7, <1>10, <1>13, <1>14 DEF LineIs, y

LEMMA InputAt ==
    ASSUME IInv, pc.at = "input"
    PROVE  /\ Sound(comm) /\ ListSound(comm) /\ comm \in Counting /\ pc.usr \in Used(comm)
           /\ pc.i \in Nat /\ comm.ring # << >>
           /\ Quiet(comm) /\ Quiets(comm, pc.usr) /\ net \in Nets
<1>1. Sound(comm) /\ ListSound(comm) /\ net \in Nets
    BY TypeIs DEF IInv
<1>2. /\ pc.usr \in Used(comm) /\ Stuck(comm, pc.usr) /\ pc.i \in Nat /\ comm.ring # << >>
      /\ Quiet(comm)
    BY DEF IInv, PcSound, Quiet
<1>3. comm \in Counting
    BY <1>1, <1>2, SoundIs
<1> QED  BY <1>1, <1>2, <1>3 DEF Quiets

(* The step leaves the peers, but for what they send.                      *)
PeersStep == net' \in Nets /\ net'.new \subseteq net.new

LEMMA SameKeeps ==
    ASSUME IInv, comm' = comm, PeersStep, PcSound'
    PROVE  IInv'
<1>1. Sound(comm') /\ ListSound(comm')
    BY DEF IInv
<1>2. Fresh(comm', comm)
    BY DEF Fresh
<1> QED  BY <1>1, <1>2, StepSound DEF PeersStep

(* comm_receive() goes on with the next user.                              *)
LEMMA ToTurns ==
    ASSUME IInv, pc.at = "input", NEW s, s = pc.usr,
           Sound(comm'), ListSound(comm'), Alters(comm', comm, s), Quiets(comm', s),
           pc' = TurnsOf(pc.i), PeersStep
    PROVE  IInv'
<1>1. Sound(comm) /\ s \in Used(comm) /\ pc.i \in Nat /\ comm.ring # << >> /\ Quiet(comm)
    BY InputAt
<1>2. OthersAre(comm', comm, s)
    <2>1. comm \in Comms /\ Linked(comm)
        BY <1>1, SoundIs
    <2> QED  BY <1>1, <2>1, AltersOthers
<1>3. pc'.at = "turns" /\ pc'.i = pc.i
    BY DEF TurnsOf, Part
<1>4. \A r \in Used(comm') : comm'.user[r].outbuf => Stuck(comm', r)
    BY <1>1, <1>2 DEF OthersAre, Quiet, Quiets
<1>5. PcSound'
    BY <1>1, <1>2, <1>3, <1>4 DEF PcSound, OthersAre
<1> QED  BY <1>2, <1>5, StepSound DEF OthersAre, PeersStep

LEMMA NextTurnKeeps ==
    ASSUME IInv, pc.at = "input", comm' = comm, pc' = TurnsOf(pc.i), PeersStep
    PROVE  IInv'
<1>1. /\ Sound(comm) /\ ListSound(comm) /\ comm \in Counting /\ pc.usr \in Used(comm)
      /\ Quiets(comm, pc.usr)
    BY InputAt
<1>2. Alters(comm, comm, pc.usr)
    BY <1>1, AffectsNone, AffectsAlters
<1> QED  BY <1>1, <1>2, ToTurns

(* A thread of the object begins, and comm_receive() returns after it.     *)
LEMMA ToThread ==
    ASSUME IInv, Sound(comm'), ListSound(comm'), Fresh(comm', comm),
           pc' = ThreadTo("callouts"), PeersStep
    PROVE  IInv'
<1>1. pc'.at = "thread" /\ pc'.next = "callouts"
    BY DEF ThreadTo, Part
<1>2. PcSound'
    BY <1>1 DEF PcSound
<1> QED  BY <1>2, StepSound DEF PeersStep

LEMMA AddedKeeps ==
    ASSUME IInv, pc.at = "input", NEW s, s = pc.usr,
           NEW x, Sound(x), ListSound(x), Alters(x, comm, s), s \in Used(x),
           comm' = AddToFlush(x, s), pc' = ThreadTo("callouts"), PeersStep
    PROVE  IInv'
<1>1. Sound(comm) /\ s \in Used(comm) /\ comm \in Comms /\ Linked(comm)
    BY InputAt, SoundIs
<1>2. OthersAre(x, comm, s)
    BY <1>1, AltersOthers
<1>3. OperationIs(comm', x, s)
    BY AddToFlushOperation
<1>4. Sound(comm') /\ ListSound(comm') /\ OthersAre(comm', x, s)
    BY <1>3, OperationSound
<1>5. Fresh(comm', comm)
    BY <1>2, <1>4 DEF OthersAre, Fresh
<1> QED  BY <1>4, <1>5, ToThread

LEMMA DeliverKeeps ==
    ASSUME IInv, pc.at = "input", NEW s, s = pc.usr,
           NEW k \in Nat, NEW p, IsStep(p, ParseOf(comm.user[s]), k),
           Len(comm.user[s].inbuf) + k <= INBUF_SIZE,
           Deliver(Taken(comm, s, p), s), PeersStep
    PROVE  IInv'
<1> DEFINE b == Taken(comm, s, p)
<1>1. Sound(comm) /\ ListSound(comm) /\ s \in Used(comm) /\ Quiets(comm, s)
    BY InputAt
<1>2. TakenIsDone(b, comm, s, p)
    BY <1>1, TakenIs
<1>3. Deliver(b, s)
    OBVIOUS
<1> HIDE DEF b
<1>4. CASE b.user[s].newlines = 0
    <2>1. comm' = b /\ pc' = TurnsOf(pc.i)
        BY <1>3, <1>4 DEF Deliver
    <2>2. Sound(b)
        <3>1. InputSound(b.user[s])
            BY <1>2, <1>4 DEF InputSound, TakenIsDone
        <3> QED  BY <1>1, <1>2, <3>1, AltersSound DEF TakenIsDone
    <2>3. ListSound(b) /\ Alters(b, comm, s) /\ Quiets(b, s)
        BY <1>2 DEF TakenIsDone
    <2> QED  BY <2>1, <2>2, <2>3, ToTurns
<1>5. CASE b.user[s].newlines # 0
    <2>1. comm' = AddToFlush(WithoutLine(b, s), s) /\ pc' = ThreadTo("callouts")
        BY <1>3, <1>5 DEF Deliver, GiveLine, WithoutLine
    <2>2. p.inbuf \in Inbuf
        BY ParseFields DEF IsStep
    <2>3. LineIs(WithoutLine(b, s), comm, s)
        BY <1>1, <1>2, <1>5, <2>2, WithoutLineIs
    <2> QED  BY <2>1, <2>3, AddedKeeps DEF LineIs
<1> QED  BY <1>4, <1>5

LEMMA ReadTelnetKeeps ==
    ASSUME IInv, pc.at = "input", NEW chunk, Len(chunk) \in Nat,
           Len(comm.user[pc.usr].inbuf) + Len(chunk) <= INBUF_SIZE,
           ReadTelnet(chunk), PeersStep
    PROVE  IInv'
<1> DEFINE s == pc.usr
           u == comm.user[s]
           p == Parsed(u, chunk)
<1>1. u \in User
    BY InputAt, SoundIs
<1>2. Deliver(Taken(comm, s, p), s)
    BY DEF ReadTelnet
<1>3. IsStep(p, ParseOf(u), Len(chunk))
    <2> HIDE DEF u
    <2> QED  BY <1>1, ParsedIs
<1> HIDE DEF p
<1> QED  BY <1>2, <1>3, DeliverKeeps

---------------------------------------------------------------------------
(* The actions.                                                            *)

LEMMA InputLen ==
    ASSUME IInv, pc.at = "input"
    PROVE  /\ InputSound(comm.user[pc.usr]) /\ comm.user[pc.usr] \in User
           /\ Len(comm.user[pc.usr].inbuf) \in Nat
           /\ Len(comm.user[pc.usr].inbuf) <= INBUF_SIZE
<1>1. Sound(comm) /\ pc.usr \in Used(comm)
    BY InputAt
<1>2. comm.user[pc.usr] \in User /\ InputSound(comm.user[pc.usr])
    BY <1>1, SoundIs DEF Sound
<1> QED  BY <1>2, UserFields, LFsFinite DEF InputSound

LEMMA ChunksAre ==
    ASSUME NEW room \in Nat, net \in Nets, NEW chunk \in Chunks(room)
    PROVE  Len(chunk) \in Nat /\ Len(chunk) <= room /\ net.read + Len(chunk) \in 0 .. MaxRead
<1>1. net.read \in 0 .. MaxRead /\ MaxRead \in Nat
    BY ConstantsAre DEF Nets
<1> DEFINE a == MaxRead - net.read
           n == Min({a, room})
<1>2. a \in Nat /\ net.read \in Nat /\ net.read + a = MaxRead
    BY <1>1
<1>3. chunk \in BoundedSeq(Input, n)
    BY DEF Chunks
<1> HIDE DEF a
<1>4. n \in Nat /\ n <= a /\ n <= room
    BY <1>2, MinTwo
<1> HIDE DEF n
<1>5. PICK k \in 0 .. n : chunk \in [1 .. k -> Input]
    BY <1>3 DEF BoundedSeq, SeqOf
<1>6. k \in Nat /\ k <= n /\ Len(chunk) = k
    <2>1. k \in Nat /\ k <= n
        BY <1>4, <1>5
    <2>2. chunk \in Seq(Input) /\ DOMAIN chunk = 1 .. k
        BY <1>5, <2>1
    <2> QED  BY <2>1, <2>2
<1> QED  BY <1>1, <1>2, <1>4, <1>6

LEMMA TelnetInputKeeps ==
    ASSUME IInv, NEW c \in Conns, TelnetInput(c)
    PROVE  IInv'
<1> DEFINE l == Len(comm.user[pc.usr].inbuf)
<1>1. pc.at = "input"
    BY DEF TelnetInput, MayRead, InputFrom
<1>2. PICK chunk \in Chunks(INBUF_SIZE - l) :
          ReadTelnet(chunk) /\ net' = [net EXCEPT !.read = @ + Len(chunk)]
    BY DEF TelnetInput
<1>3. l \in Nat /\ INBUF_SIZE - l \in Nat /\ l <= INBUF_SIZE /\ INBUF_SIZE \in Nat
    BY <1>1, InputLen, ConstantsAre
<1>4. net \in Nets
    BY <1>1, InputAt
<1> DEFINE room == INBUF_SIZE - l
           n == Len(chunk)
<1>5. n \in Nat /\ n <= room /\ net.read + n \in 0 .. MaxRead
    <2> HIDE DEF l, n
    <2> QED  BY <1>2, <1>3, <1>4, ChunksAre DEF n
<1>6. l + n <= INBUF_SIZE
    <2> HIDE DEF l, n
    <2> QED  BY <1>3, <1>5
<1>7. PeersStep
    <2> HIDE DEF n
    <2>1. net' = [net EXCEPT !.read = net.read + n]
        BY <1>2 DEF n
    <2> QED  BY <1>4, <1>5, <2>1 DEF PeersStep, Nets
<1> QED  BY <1>1, <1>2, <1>5, <1>6, <1>7, ReadTelnetKeeps

LEMMA PeersSame ==
    ASSUME IInv, UNCHANGED net
    PROVE  PeersStep
BY NoPeer DEF PeersStep

(* The buffer is full, and there is no line in it.                         *)
LEMMA TelnetFullKeeps ==
    ASSUME IInv, NEW c \in Conns, TelnetFull(c)
    PROVE  IInv'
<1> DEFINE s == pc.usr
           u == comm.user[s]
           none == << >>
           v == [u EXCEPT !.inbuf = none]
           x == Inputs(comm, s, v, 0)
<1>1. /\ pc.at = "input" /\ Len(u.inbuf) = INBUF_SIZE /\ UNCHANGED net
      /\ comm' = AddToFlush([comm EXCEPT !.user[s].inbuf = none], s)
      /\ pc' = ThreadTo("callouts")
    BY DEF TelnetFull, MayRead, InputFrom, IsFull
<1>2. /\ Sound(comm) /\ ListSound(comm) /\ comm \in Counting /\ s \in Used(comm)
    BY <1>1, InputAt
<1>3. /\ u \in User /\ InputSound(u) /\ u.newlines = 0 /\ s \in Slots
      /\ comm.user \in [Slots -> User] /\ comm.newlines \in Nat
      /\ OutputSound(u, Arr(comm, s), comm.got[Conn(comm, s)])
    <2>1. u \in User /\ InputSound(u)
        BY <1>1, InputLen
    <2>2. u.newlines = 0
        BY <1>1, <2>1, ConstantsAre DEF InputSound
    <2> HIDE DEF u
    <2> QED  BY <1>2, <2>1, <2>2, SoundIs, CountingFields DEF u
<1>4. none \in Inbuf /\ Cardinality(LFs(none)) = 0 /\ Len(none) = 0
    BY LFsNone
<1> HIDE DEF none
<1>5. [comm EXCEPT !.user[s].inbuf = none] = x
    <2>1. x = [comm EXCEPT !.user = [comm.user EXCEPT ![s] = v], !.newlines = comm.newlines + 0]
        BY DEF Inputs
    <2>2. comm.newlines + 0 = comm.newlines
        BY <1>3
    <2> HIDE DEF x, s
    <2> QED  BY <1>2, <1>3, <2>1, <2>2 DEF Counting
<1>6. InputOnly(v, u, 0) /\ v.inbuf = none /\ v.newlines = 0
    <2>1. u.newlines = u.newlines + 0
        BY <1>3
    <2> HIDE DEF u
    <2>2. /\ v \in User /\ v.inbuf = none /\ v.newlines = u.newlines
          /\ v.oindex = u.oindex /\ v.echo = u.echo /\ v.blocked = u.blocked
          /\ v.flush = u.flush /\ v.output = u.output /\ v.odone = u.odone
          /\ v.outbuf = u.outbuf /\ v.osdone = u.osdone
        BY <1>3, <1>4 DEF User, Inbuf
    <2> QED  BY <1>3, <2>1, <2>2 DEF InputOnly
<1> HIDE DEF v
<1>7. InputsAre(x, comm, s, v)
    <2>1. comm.newlines + 0 \in Nat /\ 0 \in Int
        BY <1>3
    <2> HIDE DEF s
    <2> QED  BY <1>2, <1>6, <2>1, InputsIs
<1> HIDE DEF x, s
<1>8. /\ Alters(x, comm, s) /\ x.user[s] = v /\ Arr(x, s) = Arr(comm, s)
      /\ x.got = comm.got /\ x.flush = comm.flush /\ Conn(x, s) = Conn(comm, s)
      /\ \A r \in Slots \ {s} : x.user[r] = comm.user[r]
    BY <1>7 DEF InputsAre, Alters
<1>9. Sound(x)
    <2>1. InputSound(v)
        BY <1>4, <1>6, ConstantsAre DEF InputSound
    <2>2. OutputSound(v, Arr(comm, s), comm.got[Conn(comm, s)])
        BY <1>3, <1>6, InputOnlyOutput
    <2>3. OutputSound(x.user[s], Arr(x, s), x.got[Conn(x, s)])
        BY <1>8, <2>2
    <2> QED  BY <1>2, <1>8, <2>1, <2>3, AltersSound
<1>10. ListSound(x)
    BY <1>2, <1>3, <1>6, <1>8, SameListSound DEF InputOnly
<1>11. s \in Used(x)
    BY <1>2, <1>3, <1>8 DEF Used
<1>12. comm' = AddToFlush(x, s)
    BY <1>1, <1>5
<1> QED  BY <1>1, <1>8, <1>9, <1>10, <1>11, <1>12, PeersSame, AddedKeeps DEF s

LEMMA CloseKeeps ==
    ASSUME IInv, NEW c \in Conns, pc.at = "input", Conn(comm, pc.usr) = c, Close(c),
           UNCHANGED net
    PROVE  IInv'
<1> DEFINE s == pc.usr
<1>1. Sound(comm) /\ ListSound(comm) /\ s \in Used(comm)
    BY InputAt
<1>2. OperationIs(comm', comm, s) /\ pc' = ThreadTo("callouts")
    BY <1>1, UserOffIs DEF Close
<1>3. Sound(comm') /\ ListSound(comm') /\ OthersAre(comm', comm, s)
    <2> HIDE DEF s
    <2> QED  BY <1>1, <1>2, OperationSound
<1> QED  BY <1>2, <1>3, PeersSame, ToThread DEF OthersAre

LEMMA LastLineLen ==
    ASSUME NEW s
    PROVE  Len(LastLine(s)) \in {0, 1}
BY DEF LastLine

LEMMA TelnetClosedKeeps ==
    ASSUME IInv, NEW c \in Conns, TelnetClosed(c)
    PROVE  IInv'
<1> DEFINE u == comm.user[pc.usr]
<1>1. pc.at = "input" /\ Conn(comm, pc.usr) = c /\ ~IsFull /\ UNCHANGED net
    BY DEF TelnetClosed, MayRead, InputFrom
<1>2. ReadTelnet(LastLine(u.inbuf)) \/ Close(c) \/ NextTurn
    BY DEF TelnetClosed
<1>3. PeersStep
    BY <1>1, PeersSame
<1>4. CASE ReadTelnet(LastLine(u.inbuf))
    <2> DEFINE chunk == LastLine(u.inbuf)
    <2>1. Len(chunk) \in {0, 1}
        BY LastLineLen
    <2> HIDE DEF chunk
    <2>2. Len(u.inbuf) \in Nat /\ Len(u.inbuf) <= INBUF_SIZE /\ Len(u.inbuf) # INBUF_SIZE
        BY <1>1, InputLen DEF IsFull
    <2>3. Len(chunk) \in Nat /\ Len(u.inbuf) + Len(chunk) <= INBUF_SIZE
        <3> DEFINE i == Len(u.inbuf)
                   j == Len(chunk)
        <3> HIDE DEF i, j
        <3>1. i \in Nat /\ i <= INBUF_SIZE /\ i # INBUF_SIZE /\ j \in {0, 1}
            BY <2>1, <2>2 DEF i, j
        <3>2. j \in Nat /\ i + j <= INBUF_SIZE
            BY <3>1, ConstantsAre
        <3> QED  BY <3>2 DEF i, j
    <2> QED  BY <1>1, <1>3, <1>4, <2>3, ReadTelnetKeeps DEF chunk
<1>5. CASE Close(c)
    BY <1>1, <1>5, CloseKeeps
<1>6. CASE NextTurn
    BY <1>1, <1>3, <1>6, NextTurnKeeps DEF NextTurn
<1> QED  BY <1>2, <1>4, <1>5, <1>6

LEMMA BinaryInputKeeps ==
    ASSUME IInv, NEW c \in Conns, BinaryInput(c)
    PROVE  IInv'
<1>1. pc.at = "input"
    BY DEF BinaryInput, MayRead, InputFrom
<1>2. CASE NextTurn /\ UNCHANGED net
    BY <1>1, <1>2, PeersSame, NextTurnKeeps DEF NextTurn
<1>3. CASE /\ net.read < MaxRead
           /\ net' = [net EXCEPT !.read = @ + 1]
           /\ comm' = comm
           /\ pc' = ThreadTo("callouts")
    <2>1. net \in Nets /\ net.read \in 0 .. MaxRead /\ MaxRead \in Nat
        BY <1>1, InputAt, ConstantsAre DEF Nets
    <2>2. net.read + 1 \in 0 .. MaxRead
        BY <1>3, <2>1
    <2>3. PeersStep
        BY <1>3, <2>1, <2>2 DEF PeersStep, Nets
    <2>4. Sound(comm') /\ ListSound(comm') /\ Fresh(comm', comm)
        BY <1>3, FreshSame DEF IInv
    <2> QED  BY <1>3, <2>3, <2>4, ToThread
<1> QED  BY <1>2, <1>3 DEF BinaryInput

LEMMA BinaryClosedKeeps ==
    ASSUME IInv, NEW c \in Conns, BinaryClosed(c)
    PROVE  IInv'
<1>1. /\ pc.at = "input" /\ Conn(comm, pc.usr) = c /\ UNCHANGED net
      /\ NextTurn \/ Close(c)
    BY DEF BinaryClosed, MayRead, InputFrom
<1>2. CASE NextTurn
    BY <1>1, <1>2, PeersSame, NextTurnKeeps DEF NextTurn
<1>3. CASE Close(c)
    BY <1>1, <1>3, CloseKeeps
<1> QED  BY <1>1, <1>2, <1>3

LEMMA SkipKeeps ==
    ASSUME IInv, Skip
    PROVE  IInv'
BY PeersSame, NextTurnKeeps DEF Skip

LEMMA StillKeeps ==
    ASSUME IInv, comm' = comm, pc' = pc, PeersStep
    PROVE  IInv'
<1>1. PcSound'
    BY DEF IInv, PcSound, Used, Conn, Stuck, Arr
<1> QED  BY <1>1, SameKeeps

LEMMA HangUpKeeps ==
    ASSUME IInv, NEW c \in Conns, HangUp(c)
    PROVE  IInv'
<1>1. net \in Nets
    BY TypeIs DEF IInv
<1>2. PeersStep
    BY <1>1 DEF HangUp, PeersStep, Nets
<1> QED  BY <1>2, StillKeeps DEF HangUp

---------------------------------------------------------------------------
(* The beginning.                                                          *)

LEMMA NoLines ==
    ASSUME NEW m, \A s \in Slots : m.user[s].newlines = 0
    PROVE  Lines(m) = 0
<1>1. PICK f \in [0 .. maxusers -> Nat] :
              /\ f[0] = 0
              /\ \A k \in 1 .. maxusers : f[k] = f[k - 1] + m.user[k].newlines
              /\ Lines(m) = f[maxusers]
    BY LinesExist
<1> DEFINE T == {k \in 0 .. maxusers : f[k] = 0}
<1>2. 0 \in T
    BY <1>1, ConstantsAre
<1>3. ASSUME NEW k \in 1 .. maxusers, k - 1 \in T
      PROVE  k \in T
    <2>1. m.user[k].newlines = 0
        BY DEF Slots
    <2> QED  BY <1>1, <1>3, <2>1
<1> HIDE DEF T
<1>4. \A k \in 0 .. maxusers : k \in T
    BY <1>2, <1>3, ConstantsAre, StepByStep
<1>5. maxusers \in 0 .. maxusers
    BY ConstantsAre
<1> QED  BY <1>1, <1>4, <1>5 DEF T

AllFree == [s \in Slots |-> s]

LEMMA AllFreeIs ==
    AllFree \in Seq(Slots) /\ IsInjective(AllFree) /\ ToSet(AllFree) = Slots
<1>1. maxusers \in Nat
    BY ConstantsAre
<1>2. AllFree \in Seq(Slots)
    <2>1. AllFree \in [1 .. maxusers -> Slots]
        BY DEF AllFree, Slots
    <2> HIDE DEF AllFree
    <2> QED  BY <1>1, <2>1
<1>3. DOMAIN AllFree = Slots /\ \A s \in Slots : AllFree[s] = s
    BY DEF AllFree
<1>4. IsInjective(AllFree)
    BY <1>3 DEF IsInjective
<1>5. ToSet(AllFree) = Slots
    BY <1>3 DEF ToSet
<1> QED  BY <1>2, <1>4, <1>5

LEMMA NoneIs ==
    ASSUME NEW S
    PROVE  << >> \in Seq(S) /\ IsInjective(<< >>) /\ ToSet(<< >>) = {}
BY DEF IsInjective, ToSet

LEMMA InitSound ==
    ASSUME Init
    PROVE  IInv
<1> DEFINE none == << >>
<1>1. /\ none \in Seq(Slots) /\ IsInjective(none) /\ ToSet(none) = {}
    BY NoneIs
<1>2. comm = [user |-> [s \in Slots |-> NoUser], ring |-> none, freeuser |-> AllFree,
              flush |-> none, newlines |-> 0, odone |-> 0, nusers |-> 0, wait |-> {},
              obj |-> [c \in Conns |-> NoObject], got |-> [c \in Conns |-> NoneGot]]
    BY DEF Init, AllFree
<1> HIDE DEF none
<1>3. /\ NoUser \in User /\ NoUser.oindex = NoConn /\ NoUser.newlines = 0 /\ ~NoUser.odone
      /\ ~NoUser.flush /\ NoUser.inbuf = << >>
      /\ NoObject \in Object /\ NoObject.slot = 0 /\ NoneGot \in Got
    BY NoUserIs DEF NoUser, NoObject
<1> DEFINE us == [s \in Slots |-> NoUser]
           ob == [c \in Conns |-> NoObject]
           gs == [c \in Conns |-> NoneGot]
<1>4. us \in [Slots -> User] /\ ob \in [Conns -> Object] /\ gs \in [Conns -> Got]
    BY <1>3
<1>5. comm \in Comms
    <2>1. 0 \in 0 .. maxusers /\ {} \in SUBSET Conns /\ 0 \in Nat
        BY ConstantsAre
    <2> HIDE DEF us, ob, gs
    <2>2. comm = [user |-> us, ring |-> none, freeuser |-> AllFree,
                  flush |-> none, newlines |-> 0, odone |-> 0, nusers |-> 0, wait |-> {},
                  obj |-> ob, got |-> gs]
        BY <1>2 DEF us, ob, gs
    <2> QED  BY <1>1, <1>4, <2>1, <2>2, AllFreeIs DEF Comms
<1>6. /\ \A s \in Slots : comm.user[s] = NoUser
      /\ \A c \in Conns : comm.obj[c] = NoObject /\ comm.got[c] = NoneGot
      /\ comm.ring = none /\ comm.freeuser = AllFree /\ comm.flush = none
      /\ comm.newlines = 0 /\ comm.odone = 0 /\ comm.nusers = 0
    BY <1>2
<1>7. Used(comm) = {}
    BY <1>3, <1>6 DEF Used, Conn
<1>8. Linked(comm)
    BY <1>3, <1>6, <1>7 DEF Linked
<1>9. Shares(comm)
    BY <1>1, <1>6, <1>7, AllFreeIs, FS_EmptySet DEF Shares
<1>10. Sums(comm)
    <2>1. Lines(comm) = 0
        BY <1>3, <1>6, NoLines
    <2>2. {s \in Slots : comm.user[s].odone} = {}
        BY <1>3, <1>6
    <2> QED  BY <1>6, <2>1, <2>2, FS_EmptySet DEF Sums
<1>11. \A s \in Slots : InputSound(comm.user[s])
    <2>1. Len(<< >>) <= INBUF_SIZE
        BY ConstantsAre
    <2> QED  BY <1>3, <1>6, <2>1, LFsNone DEF InputSound
<1>12. Sound(comm)
    BY <1>5, <1>7, <1>8, <1>9, <1>10, <1>11 DEF Sound
<1>13. ListSound(comm)
    BY <1>3, <1>6, EmptyListSound DEF none
<1>14. net \in Nets /\ NewUnknown
    <2>1. 0 \in 0 .. MaxRead
        BY ConstantsAre
    <2> QED  BY <1>3, <1>6, <2>1 DEF Init, Nets, NewUnknown
<1>15. PcSound
    BY <1>6 DEF Init, PcSound, none
<1> QED  BY <1>5, <1>12, <1>13, <1>14, <1>15, TypeIs DEF IInv

---------------------------------------------------------------------------
(* Every step.                                                             *)

LEMMA NextSound ==
    ASSUME IInv, [Next]_vars
    PROVE  IInv'
<1>1. ASSUME NEW c \in Conns, Send(c) \/ Echo(c) \/ Block(c) \/ Destruct(c)
      PROVE  IInv'
    BY <1>1, SendKeeps, EchoKeeps, BlockKeeps, DestructKeeps
<1>2. ASSUME EndThread \/ Callout
      PROVE  IInv'
    BY <1>2, EndThreadKeeps, CalloutKeeps
<1>3. ASSUME NEW c \in Conns, Accept(c)
      PROVE  IInv'
    BY <1>3, AcceptKeeps
<1>4. ASSUME FirstTurn \/ Turn \/ NoTurn \/ Skip
      PROVE  IInv'
    BY <1>4, FirstTurnKeeps, TurnKeeps, NoTurnKeeps, SkipKeeps
<1>5. ASSUME NEW c \in Telnet, TelnetInput(c) \/ TelnetFull(c) \/ TelnetClosed(c)
      PROVE  IInv'
    <2>1. c \in Conns
        BY DEF Conns
    <2> QED  BY <1>5, <2>1, TelnetInputKeeps, TelnetFullKeeps, TelnetClosedKeeps
<1>6. ASSUME NEW c \in Binary, BinaryInput(c) \/ BinaryClosed(c)
      PROVE  IInv'
    <2>1. c \in Conns
        BY DEF Conns
    <2> QED  BY <1>6, <2>1, BinaryInputKeeps, BinaryClosedKeeps
<1>7. ASSUME NEW c \in Conns, HangUp(c)
      PROVE  IInv'
    BY <1>7, HangUpKeeps
<1>8. ASSUME UNCHANGED vars
      PROVE  IInv'
    BY <1>8, PeersSame, StillKeeps DEF vars
<1> QED  BY <1>1, <1>2, <1>3, <1>4, <1>5, <1>6, <1>7, <1>8 DEF Next, Process

(* The invariant that every step of the communication manager keeps, and   *)
(* that the properties follow from.                                        *)
THEOREM StaysSound == Spec => []IInv
<1>1. Init => IInv
    BY InitSound
<1>2. IInv /\ [Next]_vars => IInv'
    BY NextSound
<1> QED  BY <1>1, <1>2, PTL DEF Spec

LEMMA InUseIs == InUse = Used(comm)
BY DEF InUse, Used

(* The numbers of lines, of users whose message_done() is due and of users *)
(* by which comm_receive() chooses are right, and the ring and the free    *)
(* list share out the users, whoever goes in whatever state.               *)
THEOREM UsersAreSound == Spec => []UsersSound
<1>1. IInv => UsersSound
    <2> SUFFICES ASSUME IInv  PROVE UsersSound
        OBVIOUS
    <2>1. TypeOK /\ Linked(comm) /\ Shares(comm) /\ Sums(comm)
          /\ \A s \in Slots : InputSound(comm.user[s])
        BY DEF IInv, Sound
    <2>2. Counted
        BY <2>1, InUseIs DEF Counted, Shares, Sums, InputSound
    <2>3. RingSound
        <3>1. \A c \in Conns : comm.obj[c].user => comm.obj[c].slot # 0
            BY <2>1 DEF Linked, NoObject
        <3>2. \A c \in Conns : comm.obj[c].user => Conn(comm, comm.obj[c].slot) = c
            BY <2>1, <3>1 DEF Linked
        <3> QED  BY <2>1, <3>2, InUseIs DEF RingSound, Shares
    <2> QED  BY <2>1, <2>2, <2>3 DEF UsersSound
<1> QED  BY <1>1, StaysSound, PTL

(* When comm_receive() has returned, no user is left in the flush list, so *)
(* input is blocked as the object has it and every user has its object.    *)
THEOREM ThreadsAreSettled == Spec => []Settled
<1>1. IInv => Settled
    <2> SUFFICES ASSUME IInv, pc.at \in {"loop", "callouts"}
                 PROVE  /\ comm.flush = << >>
                        /\ \A s \in InUse : /\ comm.user[s].blocked = Arr(comm, s).blocked
                                            /\ Arr(comm, s).user
        BY DEF Settled
    <2>1. comm.flush = << >>
        BY DEF IInv, PcSound
    <2>2. Sound(comm) /\ ListSound(comm)
        BY DEF IInv
    <2>3. ASSUME NEW s \in InUse
          PROVE  comm.user[s].blocked = Arr(comm, s).blocked /\ Arr(comm, s).user
        <3>1. s \in Used(comm) /\ s \in Slots
            BY InUseIs DEF Used
        <3>2. ~comm.user[s].flush
            BY <2>1, <2>2, <3>1, EmptyList
        <3>3. OutputSound(comm.user[s], Arr(comm, s), comm.got[Conn(comm, s)])
            BY <2>2, <3>1, SoundIs
        <3> QED  BY <3>2, <3>3 DEF OutputSound, FlushedSound
    <2> QED  BY <2>1, <2>3
<1> QED  BY <1>1, StaysSound, PTL

(* An input buffer that comm_receive() finds full holds no complete line,  *)
(* so the object gets all of it as one message and no line twice.          *)
THEOREM FullBuffersHaveNoLine == Spec => []FullWithoutLine
<1>1. IInv => FullWithoutLine
    <2> SUFFICES ASSUME IInv, pc.at = "input", IsFull
                 PROVE  comm.user[pc.usr].newlines = 0
        BY DEF FullWithoutLine
    <2>1. /\ InputSound(comm.user[pc.usr])
          /\ Len(comm.user[pc.usr].inbuf) = INBUF_SIZE
        BY InputLen DEF IsFull
    <2> QED  BY <2>1, ConstantsAre DEF InputSound
<1> QED  BY <1>1, StaysSound, PTL

LEMMA EndIs ==
    ASSUME IInv, NEW s \in InUse
    PROVE  /\ InTheEnd(comm, s) = End(comm.user[s], Arr(comm, s), comm.got[Conn(comm, s)])
           /\ OutputSound(comm.user[s], Arr(comm, s), comm.got[Conn(comm, s)])
<1>1. Sound(comm) /\ s \in Used(comm)
    BY InUseIs DEF IInv
<1>2. InTheEnd(comm, s) = End(comm.user[s], Arr(comm, s), comm.got[Conn(comm, s)])
    BY DEF InTheEnd, Pending, SentOf, End, Rest, SentBy
<1> QED  BY <1>1, <1>2, SoundIs

(* Whatever a connection takes at a time, whenever it is flushed and       *)
(* whatever is rolled back, its peer gets what was written to the object,  *)
(* once and in order.                                                      *)
THEOREM OutputInOrder == Spec => []InOrder
<1>1. IInv => InOrder
    BY EndIs DEF InOrder, OutputSound, OrderSound
<1> QED  BY <1>1, StaysSound, PTL

(* The last telnet option that the peer gets says what CF_ECHO says.       *)
THEOREM EchoIsKnown == Spec => []EchoKnown
<1>1. IInv => EchoKnown
    BY EndIs DEF EchoKnown, OutputSound, EchoSound, Conn
<1> QED  BY <1>1, StaysSound, PTL

===========================================================================
