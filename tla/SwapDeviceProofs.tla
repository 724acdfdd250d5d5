------------------------- MODULE SwapDeviceProofs -------------------------
(***************************************************************************)
(* The operations of the swap device, for every number of sectors and      *)
(* slots: whatever is loaded, written, evicted, wiped, deleted or taken    *)
(* into use, every sector, place and slot keeps one owner, and nothing is  *)
(* lost of the sectors that the operation is not for.                      *)
(***************************************************************************)
EXTENDS Swap, FiniteSetTheorems, SequenceTheorems, WellFoundedInduction, TLAPS

---------------------------------------------------------------------------
(* Types.                                                                  *)

Place == Nat \cup {UNUSED}
Data == {Junk, MapSector} \cup
            [block : Blocks, part : 1 .. MaxVec, n : 1 .. MaxVec, v : {0, 1}]
Slot == [sec : Sectors \cup {UNUSED}, swap : Place, dirty : BOOLEAN, data : Data]
Value == [n : 1 .. MaxVec, v : {0, 1}]
Descriptor == Files \cup {NoFile}

Device ==
    [map : [Sectors -> Place], nsectors : Nat, mfree : Seq(Sectors), slot : [Slots -> Slot],
     order : Seq(Slots), lfree : Seq(Slots), sfree : Seq(Nat), ssectors : Nat,
     sbarrier : Nat, swapping : BOOLEAN, swap : Descriptor, dump : Descriptor]

Disk == [Files -> UNION {[S -> Data] : S \in SUBSET Nat}]

State == [dev : Device, disk : Disk, vec : [Blocks -> Seq(Sectors)],
          mem : [Blocks -> Seq(Data)], mod : [Blocks -> {"no", "var", "all"}]]

---------------------------------------------------------------------------
(* Sectors.                                                                *)

(* The sectors of the blocks in S.                                         *)
Held(vecs, S) == UNION {ToSet(vecs[b]) : b \in S}

(* No sector is in two places of the vectors.                              *)
Apart(vecs) ==
    /\ \A b \in Blocks : \A j, k \in DOMAIN vecs[b] : vecs[b][j] = vecs[b][k] => j = k
    /\ \A a, b \in Blocks : a # b => ToSet(vecs[a]) \cap ToSet(vecs[b]) = {}

(* The sectors up to nsectors are those in H and those that are free.      *)
Numbers(nsectors, mfree, H) ==
    /\ nsectors <= SWAPSIZE
    /\ IsInjective(mfree)
    /\ H \cap ToSet(mfree) = {}
    /\ H \cup ToSet(mfree) = 0 .. nsectors - 1

(* The place of a sector in a file, or UNUSED.                             *)
PlaceOf(v, t) == IF InSlot(v, t) THEN v.slot[v.map[t]].swap ELSE v.map[t]

(* The cache, with the sectors in H in use: a slot is listed or free; the  *)
(* listed one is where the map has its sector.                             *)
Cache(v, H) ==
    /\ IsInjective(v.order) /\ IsInjective(v.lfree)
    /\ ToSet(v.order) \cap ToSet(v.lfree) = {}
    /\ ToSet(v.order) \cup ToSet(v.lfree) = Slots
    /\ \A i \in ToSet(v.order) : v.slot[i].sec \in H /\ v.map[v.slot[i].sec] = i
    /\ \A i \in ToSet(v.lfree) : v.slot[i].sec = UNUSED /\ v.slot[i].swap = UNUSED
    /\ \A t \in Sectors \ H : v.map[t] = UNUSED

(* The places of the sectors in H, where those in P still have theirs in   *)
(* the snapshot.                                                           *)
Places(v, H, P) ==
    /\ \A s, t \in H \ P :
          PlaceOf(v, s) = PlaceOf(v, t) /\ PlaceOf(v, s) # UNUSED => s = t
    /\ \A s \in H \ P : PlaceOf(v, s) < v.ssectors /\ PlaceOf(v, s) \notin ToSet(v.sfree)
    /\ IsInjective(v.sfree)
    /\ ToSet(v.sfree) \subseteq v.sbarrier .. v.ssectors - 1
    /\ v.sbarrier <= v.ssectors
    /\ v.swap = NoFile => v.ssectors = 0
    /\ \A t \in P : /\ PlaceOf(v, t) < MaxIndex
                    /\ InSlot(v, t) => ~v.slot[v.map[t]].dirty

(* What a sector holds, with another v.                                    *)
WithV(c, v) == [c EXCEPT !.v = v]

(* Place i of file f has c.                                                *)
Filed(d, f, i, c) == i # UNUSED /\ ReadAt(d.disk, f, i) = c

(* Sector t has c: in its slot, which is to be written or is as the swap   *)
(* file has it, or in the swap file.                                       *)
Has(d, t, c) ==
    IF InSlot(d.dev, t)
    THEN LET h == d.dev.slot[d.dev.map[t]]
         IN h.data = c /\ (h.dirty \/ Filed(d, d.dev.swap, h.swap, c))
    ELSE Filed(d, d.dev.swap, d.dev.map[t], c)

(* Sector t has c in file f, a snapshot, and in its slot if it has one.    *)
HasIn(d, f, t, c) ==
    /\ InSlot(d.dev, t) =>
          d.dev.slot[d.dev.map[t]].data = c /\ ~d.dev.slot[d.dev.map[t]].dirty
    /\ Filed(d, f, PlaceOf(d.dev, t), c)

---------------------------------------------------------------------------
(* Walks.                                                                  *)

LEMMA LeastExists ==
    ASSUME NEW S \in SUBSET Int, S # {}, NEW lo \in Int, \A x \in S : x >= lo
    PROVE  \E x \in S : \A y \in S : x <= y
<1> DEFINE T == {n \in Nat : lo + n \in S}
<1>1. \A x \in S : x - lo \in T /\ lo + (x - lo) = x
    OBVIOUS
<1>2. T \subseteq Nat /\ T # {}
    BY <1>1
<1>3. IsWellFoundedOn(OpToRel(<, Nat), Nat)
    BY NatLessThanWellFounded
<1>4. \E n \in T : \A m \in T : << m, n >> \notin OpToRel(<, Nat)
    BY <1>2, <1>3, WFMin
<1>5. PICK n \in T : \A m \in T : ~(m < n)
    BY <1>2, <1>4 DEF OpToRel
<1>6. lo + n \in S /\ \A y \in S : lo + n <= y
    BY <1>1, <1>2, <1>5
<1> QED  BY <1>6

LEMMA StepByStep ==
    ASSUME NEW n \in Nat, NEW S, 0 \in S, \A k \in 1 .. n : k - 1 \in S => k \in S
    PROVE  \A k \in 0 .. n : k \in S
<1> DEFINE T == {k \in 0 .. n : k \notin S}
<1> SUFFICES ASSUME T # {}  PROVE FALSE
    OBVIOUS
<1>1. PICK k \in T : \A j \in T : k <= j
    <2>1. T \in SUBSET Int /\ 0 \in Int /\ \A x \in T : x >= 0
        OBVIOUS
    <2> HIDE DEF T
    <2> QED  BY <2>1, LeastExists
<1>2. k \in 1 .. n /\ k - 1 \in 0 .. n /\ ~(k <= k - 1)
    BY <1>1
<1>3. k - 1 \in S
    BY <1>1, <1>2
<1> QED  BY <1>1, <1>2, <1>3

(* A walk from x on through n places, within the pairs of I of a state and *)
(* the number of places that have been passed.                             *)
Walks(f, n, x, Op) ==
    f = [k \in 0 .. n |-> IF k = 0 THEN x ELSE Op[<< f[k - 1], k - 1 >>]]
Closed(I, n, Op) ==
    \A k \in 1 .. n : \A s : << s, k - 1 >> \in I => << Op[<< s, k - 1 >>], k >> \in I

LEMMA WalkWithin ==
    ASSUME NEW n \in Nat, NEW I, NEW x, << x, 0 >> \in I, NEW Op, Closed(I, n, Op)
    PROVE  \E f : Walks(f, n, x, Op) /\ \A k \in 0 .. n : << f[k], k >> \in I
<1> DEFINE F(f, j) == [k \in 0 .. j |-> IF k = 0 THEN x ELSE Op[<< f[k - 1], k - 1 >>]]
           S == {j \in 0 .. n : \E f : f = F(f, j) /\ \A k \in 0 .. j : << f[k], k >> \in I}
<1>1. 0 \in S
    <2> DEFINE g == [k \in 0 .. 0 |-> x]
    <2>1. g = F(g, 0) /\ \A k \in 0 .. 0 : << g[k], k >> \in I
        OBVIOUS
    <2> HIDE DEF F, g
    <2> QED  BY <2>1
<1>2. ASSUME NEW j \in 1 .. n, j - 1 \in S
      PROVE  j \in S
    <2>1. PICK f : f = F(f, j - 1) /\ \A k \in 0 .. j - 1 : << f[k], k >> \in I
        BY <1>2
    <2> DEFINE g == [k \in 0 .. j |-> IF k = j THEN Op[<< f[j - 1], j - 1 >>] ELSE f[k]]
    <2>2. j \in Nat /\ j > 0 /\ \A k \in 0 .. j : k = j \/ k \in 0 .. j - 1
        OBVIOUS
    <2>3. /\ \A k \in 0 .. j - 1 : g[k] = f[k]
          /\ g[j] = Op[<< f[j - 1], j - 1 >>] /\ g[j - 1] = f[j - 1]
          /\ g = [k \in 0 .. j |-> g[k]]
        BY <2>2
    <2>4. \A k \in 0 .. j - 1 : f[k] = IF k = 0 THEN x ELSE Op[<< f[k - 1], k - 1 >>]
        BY <2>1
    <2> HIDE DEF g
    <2>5. ASSUME NEW k \in 0 .. j
          PROVE  g[k] = IF k = 0 THEN x ELSE Op[<< g[k - 1], k - 1 >>]
        <3>1. CASE k = j
            <4>1. g[j] = Op[<< g[j - 1], j - 1 >>] /\ j # 0
                BY <2>2, <2>3
            <4> QED  BY <3>1, <4>1
        <3>2. CASE k \in 0 .. j - 1
            <4>1. k # 0 => k - 1 \in 0 .. j - 1
                BY <2>2, <3>2
            <4> QED  BY <2>3, <2>4, <3>2, <4>1
        <3> QED  BY <2>2, <3>1, <3>2
    <2>6. g = F(g, j)
        BY <2>3, <2>5
    <2>7. << g[j], j >> \in I
        <3>1. << f[j - 1], j - 1 >> \in I
            BY <2>1, <2>2
        <3> QED  BY <2>3, <3>1 DEF Closed
    <2>8. \A k \in 0 .. j : << g[k], k >> \in I
        BY <2>1, <2>2, <2>3, <2>7
    <2> HIDE DEF F
    <2> QED  BY <2>6, <2>8
<1> HIDE DEF S
<1>3. \A j \in 0 .. n : j \in S
    BY <1>1, <1>2, StepByStep
<1>4. n \in S
    BY <1>3
<1> QED  BY <1>4 DEF S, Walks

---------------------------------------------------------------------------
(* Sequences.                                                              *)

LEMMA ToSetIs ==
    ASSUME NEW T, NEW s \in Seq(T)
    PROVE  /\ Len(s) \in Nat /\ DOMAIN s = 1 .. Len(s)
           /\ \A x : x \in ToSet(s) <=> \E k \in 1 .. Len(s) : s[k] = x
           /\ \A k \in 1 .. Len(s) : s[k] \in ToSet(s) /\ s[k] \in T
           /\ ToSet(s) \subseteq T
           /\ IsInjective(s) <=> \A j, k \in 1 .. Len(s) : s[j] = s[k] => j = k
<1>1. Len(s) \in Nat /\ DOMAIN s = 1 .. Len(s) /\ \A k \in 1 .. Len(s) : s[k] \in T
    OBVIOUS
<1>2. \A x : x \in ToSet(s) <=> \E k \in 1 .. Len(s) : s[k] = x
    BY <1>1 DEF ToSet
<1>3. IsInjective(s) <=> \A j, k \in 1 .. Len(s) : s[j] = s[k] => j = k
    BY <1>1 DEF IsInjective
<1> QED  BY <1>1, <1>2, <1>3

LEMMA EmptyElem ==
    << >> \in Seq({}) /\ ToSet(<< >>) = {} /\ IsInjective(<< >>) /\ Len(<< >>) = 0
BY DEF ToSet, IsInjective

LEMMA ConcatElem ==
    ASSUME NEW T, NEW s \in Seq(T), NEW t \in Seq(T)
    PROVE  /\ s \o t \in Seq(T) /\ Len(s \o t) = Len(s) + Len(t)
           /\ \A k \in 1 .. Len(s) : (s \o t)[k] = s[k]
           /\ \A k \in 1 .. Len(t) : (s \o t)[Len(s) + k] = t[k]
OBVIOUS

LEMMA ConsElem ==
    ASSUME NEW T, NEW s \in Seq(T), NEW x \in T
    PROVE  /\ << x >> \o s \in Seq(T) /\ Len(<< x >> \o s) = Len(s) + 1
           /\ (<< x >> \o s)[1] = x /\ \A k \in 1 .. Len(s) : (<< x >> \o s)[k + 1] = s[k]
           /\ ToSet(<< x >> \o s) = ToSet(s) \cup {x}
           /\ IsInjective(s) /\ x \notin ToSet(s) => IsInjective(<< x >> \o s)
<1> DEFINE a == << x >>
           r == a \o s
           n == Len(s)
<1>1. a \in Seq(T) /\ Len(a) = 1 /\ a[1] = x
    OBVIOUS
<1> HIDE DEF a
<1>2. /\ r \in Seq(T) /\ Len(r) = Len(a) + Len(s)
      /\ \A k \in 1 .. Len(a) : r[k] = a[k]
      /\ \A k \in 1 .. Len(s) : r[Len(a) + k] = s[k]
    BY <1>1, ConcatElem
<1>3. n \in Nat
    BY ToSetIs
<1> HIDE DEF r, n
<1>4. Len(r) = 1 + n /\ r[1] = x /\ \A k \in 1 .. n : r[k + 1] = s[k]
    <2>1. 1 \in 1 .. 1 /\ \A k \in 1 .. n : 1 + k = k + 1
        BY <1>3
    <2> QED  BY <1>1, <1>2, <2>1 DEF n
<1>5. \A i \in 1 .. 1 + n : i = 1 \/ (i - 1 \in 1 .. n /\ r[i] = s[i - 1])
    <2> TAKE i \in 1 .. 1 + n
    <2>1. i = 1 \/ (i - 1 \in 1 .. n /\ (i - 1) + 1 = i)
        BY <1>3
    <2> QED  BY <1>4, <2>1
<1>6. ToSet(r) = ToSet(s) \cup {x}
    <2>1. \A y : y \in ToSet(r) => y \in ToSet(s) \cup {x}
        <3> TAKE y
        <3> HAVE y \in ToSet(r)
        <3>1. PICK i \in 1 .. Len(r) : r[i] = y
            BY <1>2, ToSetIs
        <3>2. \A k \in 1 .. n : s[k] \in ToSet(s)
            BY ToSetIs DEF n
        <3> QED  BY <1>4, <1>5, <3>1, <3>2
    <2>2. \A y : y \in ToSet(s) => y \in ToSet(r)
        <3> TAKE y
        <3> HAVE y \in ToSet(s)
        <3>1. PICK k \in 1 .. n : s[k] = y
            BY ToSetIs DEF n
        <3>2. k + 1 \in 1 .. Len(r) /\ r[k + 1] = y
            BY <1>3, <1>4, <3>1
        <3> QED  BY <1>2, <3>2, ToSetIs
    <2>3. x \in ToSet(r)
        <3>1. 1 \in 1 .. Len(r)
            BY <1>3, <1>4
        <3> QED  BY <1>2, <1>4, <3>1, ToSetIs
    <2> QED  BY <2>1, <2>2, <2>3
<1>7. ASSUME IsInjective(s), x \notin ToSet(s)
      PROVE  IsInjective(r)
    <2>1. \A j, k \in 1 .. n : s[j] = s[k] => j = k
        BY <1>7, ToSetIs DEF n
    <2>2. \A k \in 1 .. n : s[k] # x
        BY <1>7, ToSetIs DEF n
    <2>3. ASSUME NEW j \in 1 .. 1 + n, NEW k \in 1 .. 1 + n, r[j] = r[k]
          PROVE  j = k
        <3>1. CASE j = 1 \/ k = 1
            BY <1>4, <1>5, <2>2, <2>3, <3>1
        <3>2. CASE j # 1 /\ k # 1
            <4>1. j - 1 \in 1 .. n /\ k - 1 \in 1 .. n /\ s[j - 1] = s[k - 1]
                BY <1>5, <2>3, <3>2
            <4>2. j - 1 = k - 1
                BY <2>1, <4>1
            <4> QED  BY <1>3, <4>2
        <3> QED  BY <3>1, <3>2
    <2> QED  BY <1>2, <1>4, <2>3, ToSetIs
<1> QED  BY <1>2, <1>3, <1>4, <1>6, <1>7 DEF a, n, r

LEMMA RemoveElem ==
    ASSUME NEW T, NEW s \in Seq(T), NEW p \in 1 .. Len(s), IsInjective(s)
    PROVE  /\ RemoveAt(s, p) \in Seq(T) /\ Len(RemoveAt(s, p)) = Len(s) - 1
           /\ ToSet(RemoveAt(s, p)) = ToSet(s) \ {s[p]}
           /\ IsInjective(RemoveAt(s, p))
<1> DEFINE n == Len(s)
           a == SubSeq(s, 1, p - 1)
           b == SubSeq(s, p + 1, n)
           r == a \o b
<1>1. n \in Nat /\ p \in 1 .. n /\ p \in Int
    BY ToSetIs
<1>2. a \in Seq(T) /\ Len(a) = p - 1 /\ \A i \in 1 .. p - 1 : a[i] = s[i]
    BY <1>1
<1>3. b \in Seq(T) /\ Len(b) = n - p /\ \A i \in 1 .. n - p : b[i] = s[p + i]
    BY <1>1
<1>4. RemoveAt(s, p) = r
    BY DEF RemoveAt
<1> HIDE DEF a, b, n
<1>5. /\ r \in Seq(T) /\ Len(r) = Len(a) + Len(b)
      /\ \A k \in 1 .. Len(a) : r[k] = a[k]
      /\ \A k \in 1 .. Len(b) : r[Len(a) + k] = b[k]
    <2>1. a \in Seq(T) /\ b \in Seq(T)
        BY <1>2, <1>3
    <2> QED  BY ONLY <2>1, ConcatElem
<1> HIDE DEF r
<1> DEFINE old(k) == IF k < p THEN k ELSE k + 1
<1>6. Len(r) = n - 1
    BY <1>1, <1>2, <1>3, <1>5
<1>7. \A k \in 1 .. n - 1 : old(k) \in 1 .. n /\ old(k) # p /\ r[k] = s[old(k)]
    <2> TAKE k \in 1 .. n - 1
    <2>1. CASE k < p
        <3>1. k <= p - 1 /\ k \in 1 .. p - 1 /\ k \in 1 .. n
            BY <1>1, <2>1
        <3>2. r[k] = a[k]
            BY <1>1, <1>2, <1>3, <1>5, <3>1
        <3> QED  BY <1>2, <2>1, <3>1, <3>2
    <2>2. CASE ~(k < p)
        <3>1. ~(k <= p - 1) /\ k - (p - 1) \in 1 .. n - p /\ p + (k - (p - 1)) = k + 1
              /\ k + 1 \in 1 .. n /\ k + 1 # p /\ (p - 1) + (k - (p - 1)) = k
            BY <1>1, <2>2
        <3>2. r[k] = b[k - (p - 1)]
            BY <1>2, <1>3, <1>5, <3>1
        <3> QED  BY <1>3, <2>2, <3>1, <3>2
    <2> QED  BY <2>1, <2>2
<1>8. \A j \in 1 .. n : j # p => \E k \in 1 .. n - 1 : old(k) = j
    <2> TAKE j \in 1 .. n
    <2>1. CASE j < p
        <3>1. j \in 1 .. n - 1 /\ old(j) = j
            BY <1>1, <2>1
        <3> QED  BY <3>1
    <2>2. CASE j > p
        <3>1. j - 1 \in 1 .. n - 1 /\ old(j - 1) = j
            BY <1>1, <2>2
        <3> QED  BY <3>1
    <2> QED  BY <1>1, <2>1, <2>2
<1>9. \A j, k \in 1 .. n - 1 : old(j) = old(k) => j = k
    BY <1>1
<1> HIDE DEF old
<1>10. \A j, k \in 1 .. n : s[j] = s[k] => j = k
    BY ToSetIs DEF n
<1>11. IsInjective(r)
    <2>1. ASSUME NEW j \in 1 .. n - 1, NEW k \in 1 .. n - 1, r[j] = r[k]
          PROVE  j = k
        BY <1>7, <1>9, <1>10, <2>1
    <2> QED  BY <1>5, <1>6, <2>1, ToSetIs
<1>12. \A x : x \in ToSet(r) <=> x \in ToSet(s) \ {s[p]}
    <2> TAKE x
    <2>1. x \in ToSet(r) <=> \E k \in 1 .. n - 1 : r[k] = x
        BY <1>5, <1>6, ToSetIs
    <2>2. x \in ToSet(s) <=> \E k \in 1 .. n : s[k] = x
        BY ToSetIs DEF n
    <2>3. ASSUME x \in ToSet(r)  PROVE x \in ToSet(s) \ {s[p]}
        BY <1>1, <1>7, <1>10, <2>1, <2>2, <2>3
    <2>4. ASSUME x \in ToSet(s), x # s[p]  PROVE x \in ToSet(r)
        BY <1>7, <1>8, <2>1, <2>2, <2>4
    <2> QED  BY <2>3, <2>4
<1> QED  BY <1>4, <1>5, <1>6, <1>11, <1>12 DEF n

LEMMA TailElem ==
    ASSUME NEW T, NEW s \in Seq(T), s # << >>, IsInjective(s)
    PROVE  /\ Head(s) \in T /\ Head(s) \in ToSet(s)
           /\ Tail(s) \in Seq(T) /\ ToSet(Tail(s)) = ToSet(s) \ {Head(s)}
           /\ IsInjective(Tail(s))
<1> DEFINE n == Len(s)
           r == Tail(s)
<1>1. n \in Nat /\ n > 0 /\ Head(s) = s[1]
    OBVIOUS
<1>2. r \in Seq(T) /\ Len(r) = n - 1 /\ \A i \in 1 .. n - 1 : r[i] = s[i + 1]
    BY HeadTailProperties
<1>3. RemoveAt(s, 1) = r
    <2> DEFINE b == SubSeq(s, 2, n)
    <2>1. SubSeq(s, 1, 0) = << >>
        BY SubSeqEmpty
    <2>2. b \in Seq(T) /\ r = b
        BY <1>1, TailIsSubSeq
    <2>3. RemoveAt(s, 1) = << >> \o b
        BY <2>1 DEF RemoveAt
    <2> HIDE DEF b
    <2>4. << >> \o b = b
        BY <2>2, ConcatEmptySeq
    <2> QED  BY <2>2, <2>3, <2>4
<1>4. 1 \in 1 .. Len(s) /\ s[1] \in T /\ s[1] \in ToSet(s)
    BY <1>1, ToSetIs
<1>5. /\ ToSet(RemoveAt(s, 1)) = ToSet(s) \ {s[1]}
      /\ IsInjective(RemoveAt(s, 1))
    BY <1>4, RemoveElem
<1> QED  BY <1>1, <1>2, <1>3, <1>4, <1>5

LEMMA LastElem ==
    ASSUME NEW T, NEW s \in Seq(T), s # << >>, IsInjective(s)
    PROVE  /\ Last(s) \in T /\ Last(s) \in ToSet(s)
           /\ SubSeq(s, 1, Len(s) - 1) \in Seq(T)
           /\ ToSet(SubSeq(s, 1, Len(s) - 1)) = ToSet(s) \ {Last(s)}
           /\ IsInjective(SubSeq(s, 1, Len(s) - 1))
<1> DEFINE n == Len(s)
<1>1. n \in Nat /\ n > 0 /\ Last(s) = s[n] /\ n \in 1 .. Len(s)
    BY DEF Last
<1>2. RemoveAt(s, n) = SubSeq(s, 1, n - 1)
    <2> DEFINE b == SubSeq(s, 1, n - 1)
    <2>1. SubSeq(s, n + 1, n) = << >>
        BY <1>1, SubSeqEmpty
    <2>2. b \in Seq(T)
        BY <1>1
    <2>3. RemoveAt(s, n) = b \o << >>
        BY <2>1 DEF RemoveAt
    <2> HIDE DEF b
    <2>4. b \o << >> = b
        BY <2>2, ConcatEmptySeq
    <2> QED  BY <2>3, <2>4 DEF b
<1>3. s[n] \in T /\ s[n] \in ToSet(s)
    BY <1>1, ToSetIs
<1>4. /\ RemoveAt(s, n) \in Seq(T)
      /\ ToSet(RemoveAt(s, n)) = ToSet(s) \ {s[n]}
      /\ IsInjective(RemoveAt(s, n))
    BY <1>1, RemoveElem
<1> QED  BY <1>1, <1>2, <1>3, <1>4

LEMMA UnlinkedElem ==
    ASSUME NEW T, NEW s \in Seq(T), NEW x \in ToSet(s), IsInjective(s)
    PROVE  /\ Unlinked(s, x) \in Seq(T) /\ ToSet(Unlinked(s, x)) = ToSet(s) \ {x}
           /\ IsInjective(Unlinked(s, x))
<1> DEFINE p == CHOOSE k \in DOMAIN s : s[k] = x
<1>1. \E k \in DOMAIN s : s[k] = x
    BY DEF ToSet
<1>2. p \in DOMAIN s /\ s[p] = x
    BY <1>1
<1> HIDE DEF p
<1>3. p \in 1 .. Len(s)
    BY <1>2
<1>4. Unlinked(s, x) = RemoveAt(s, p)
    BY DEF Unlinked, p
<1> QED  BY <1>2, <1>3, <1>4, RemoveElem

LEMMA ReverseElem ==
    ASSUME NEW T, NEW s \in Seq(T)
    PROVE  /\ Reverse(s) \in Seq(T) /\ Len(Reverse(s)) = Len(s)
           /\ \A k \in 1 .. Len(s) : Reverse(s)[k] = s[Len(s) - k + 1]
           /\ ToSet(Reverse(s)) = ToSet(s)
<1> DEFINE n == Len(s)
           r == Reverse(s)
<1>1. n \in Nat /\ r = [k \in 1 .. n |-> s[(n - k) + 1]]
    BY DEF Reverse
<1>2. \A k \in 1 .. n : (n - k) + 1 \in 1 .. n /\ s[(n - k) + 1] \in T
    BY <1>1
<1> HIDE DEF n
<1>3. r \in Seq(T) /\ Len(r) = n /\ \A k \in 1 .. n : r[k] = s[(n - k) + 1]
    BY <1>1, <1>2
<1> HIDE DEF r
<1>4. \A x : x \in ToSet(r) <=> x \in ToSet(s)
    <2> TAKE x
    <2>1. x \in ToSet(r) <=> \E k \in 1 .. n : r[k] = x
        BY <1>3, ToSetIs
    <2>2. x \in ToSet(s) <=> \E k \in 1 .. n : s[k] = x
        BY ToSetIs DEF n
    <2>3. ASSUME NEW k \in 1 .. n, s[k] = x
          PROVE  \E j \in 1 .. n : r[j] = x
        <3>1. (n - k) + 1 \in 1 .. n /\ (n - ((n - k) + 1)) + 1 = k
            BY <1>1
        <3>2. r[(n - k) + 1] = x
            BY <1>3, <2>3, <3>1
        <3> QED  BY <3>1, <3>2
    <2> QED  BY <1>2, <1>3, <2>1, <2>2, <2>3
<1> QED  BY <1>3, <1>4 DEF n, r

LEMMA AppendElem ==
    ASSUME NEW T, NEW s \in Seq(T), NEW x \in T
    PROVE  /\ Append(s, x) \in Seq(T) /\ Len(Append(s, x)) = Len(s) + 1
           /\ \A k \in 1 .. Len(s) : Append(s, x)[k] = s[k]
           /\ Append(s, x)[Len(s) + 1] = x
BY AppendProperties

---------------------------------------------------------------------------
(* Constants and types.                                                    *)

LEMMA ConstantsAre ==
    /\ SWAPSIZE \in Nat /\ CACHESIZE \in Nat /\ CACHESIZE > 0
    /\ MaxVec \in Nat /\ MaxVec > 0 /\ MaxIndex \in Nat /\ IsFiniteSet(Blocks)
    /\ UNUSED = -1 /\ UNUSED \notin Nat /\ UNUSED \notin Slots /\ UNUSED \notin Sectors
    /\ Slots \subseteq Nat /\ Sectors \subseteq Nat
    /\ NoFile \notin Files /\ Junk \in Data /\ MapSector \in Data
BY SwapAssumption DEF UNUSED, Slots, Sectors, NoFile, Files, Data

LEMMA DeviceFields ==
    ASSUME NEW v \in Device
    PROVE  /\ v.map \in [Sectors -> Place] /\ v.nsectors \in Nat /\ v.mfree \in Seq(Sectors)
           /\ v.slot \in [Slots -> Slot] /\ v.order \in Seq(Slots) /\ v.lfree \in Seq(Slots)
           /\ v.sfree \in Seq(Nat) /\ v.ssectors \in Nat /\ v.sbarrier \in Nat
           /\ v.swapping \in BOOLEAN /\ v.swap \in Descriptor /\ v.dump \in Descriptor
           /\ \A i \in Slots : /\ v.slot[i].sec \in Sectors \cup {UNUSED}
                               /\ v.slot[i].swap \in Place /\ v.slot[i].dirty \in BOOLEAN
                               /\ v.slot[i].data \in Data
           /\ \A t \in Sectors : v.map[t] \in Place
<1>1. /\ v.map \in [Sectors -> Place] /\ v.nsectors \in Nat /\ v.mfree \in Seq(Sectors)
      /\ v.slot \in [Slots -> Slot] /\ v.order \in Seq(Slots) /\ v.lfree \in Seq(Slots)
      /\ v.sfree \in Seq(Nat) /\ v.ssectors \in Nat /\ v.sbarrier \in Nat
      /\ v.swapping \in BOOLEAN /\ v.swap \in Descriptor /\ v.dump \in Descriptor
    BY DEF Device
<1>2. \A i \in Slots : v.slot[i] \in Slot
    BY <1>1
<1>3. \A h \in Slot : /\ h.sec \in Sectors \cup {UNUSED} /\ h.swap \in Place
                      /\ h.dirty \in BOOLEAN /\ h.data \in Data
    BY DEF Slot
<1> QED  BY <1>1, <1>2, <1>3

LEMMA DiskIs ==
    ASSUME NEW k
    PROVE  k \in Disk <=>
              /\ k = [f \in Files |-> k[f]]
              /\ \A f \in Files : /\ k[f] = [i \in DOMAIN k[f] |-> k[f][i]]
                                  /\ DOMAIN k[f] \subseteq Nat
                                  /\ \A i \in DOMAIN k[f] : k[f][i] \in Data
<1> DEFINE F == UNION {[S -> Data] : S \in SUBSET Nat}
<1>1. ASSUME NEW g
      PROVE  g \in F <=> /\ g = [i \in DOMAIN g |-> g[i]] /\ DOMAIN g \subseteq Nat
                         /\ \A i \in DOMAIN g : g[i] \in Data
    <2>1. g \in F <=> \E S \in SUBSET Nat : g \in [S -> Data]
        OBVIOUS
    <2> HIDE DEF F
    <2> QED  BY <2>1
<1> HIDE DEF F
<1>2. k \in [Files -> F] <=> k = [f \in Files |-> k[f]] /\ \A f \in Files : k[f] \in F
    OBVIOUS
<1> QED  BY <1>1, <1>2 DEF Disk, F

LEMMA ReadsData ==
    ASSUME NEW k \in Disk, NEW f, NEW i
    PROVE  ReadAt(k, f, i) \in Data
BY ConstantsAre, DiskIs DEF ReadAt

(* Data x are written at place i of file f.                                *)
WritesTo(l, k, f, i, x) ==
    /\ l \in Disk /\ ReadAt(l, f, i) = x
    /\ \A j : j # i => ReadAt(l, f, j) = ReadAt(k, f, j)
    /\ \A g \in Files : g # f => l[g] = k[g]

LEMMA WritesToIs ==
    ASSUME NEW k \in Disk, NEW f \in Files, NEW i \in Nat, NEW x \in Data, NEW l,
           l = [g \in Files |-> l[g]], l[f] = Written(k[f], i, x),
           \A g \in Files : g # f => l[g] = k[g]
    PROVE  WritesTo(l, k, f, i, x)
<1> DEFINE m == l[f]
<1>1. /\ k = [g \in Files |-> k[g]]
      /\ \A g \in Files : /\ k[g] = [j \in DOMAIN k[g] |-> k[g][j]]
                          /\ DOMAIN k[g] \subseteq Nat
                          /\ \A j \in DOMAIN k[g] : k[g][j] \in Data
    BY DiskIs
<1>2. /\ l = [g \in Files |-> l[g]] /\ m = Written(k[f], i, x)
      /\ \A g \in Files : g # f => l[g] = k[g]
    OBVIOUS
<1> HIDE DEF m
<1>3. m = [j \in DOMAIN k[f] \cup {i} |-> IF j = i THEN x ELSE k[f][j]]
    BY <1>2 DEF Written
<1>4. /\ DOMAIN m = DOMAIN k[f] \cup {i} /\ m[i] = x /\ m = [j \in DOMAIN m |-> m[j]]
      /\ \A j \in DOMAIN k[f] : j # i => m[j] = k[f][j]
    BY <1>3
<1>5. DOMAIN m \subseteq Nat /\ \A j \in DOMAIN m : m[j] \in Data
    BY <1>1, <1>4
<1>6. \A g \in Files : /\ l[g] = [j \in DOMAIN l[g] |-> l[g][j]] /\ DOMAIN l[g] \subseteq Nat
                       /\ \A j \in DOMAIN l[g] : l[g][j] \in Data
    BY <1>1, <1>2, <1>4, <1>5 DEF m
<1>7. ReadAt(l, f, i) = x /\ \A j : j # i => ReadAt(l, f, j) = ReadAt(k, f, j)
    BY <1>4 DEF ReadAt, m
<1>8. l \in Disk
    BY ONLY <1>2, <1>6, DiskIs
<1> QED  BY <1>2, <1>7, <1>8 DEF WritesTo

LEMMA WrittenReads ==
    ASSUME NEW k \in Disk, NEW f \in Files, NEW i \in Nat, NEW x \in Data,
           NEW l, l = [k EXCEPT ![f] = Written(@, i, x)]
    PROVE  /\ l \in Disk /\ ReadAt(l, f, i) = x
           /\ \A j : j # i => ReadAt(l, f, j) = ReadAt(k, f, j)
           /\ \A g \in Files : g # f => l[g] = k[g]
<1>1. k = [g \in Files |-> k[g]]
    BY DiskIs
<1>2. /\ l = [g \in Files |-> l[g]] /\ l[f] = Written(k[f], i, x)
      /\ \A g \in Files : g # f => l[g] = k[g]
    BY <1>1
<1>3. WritesTo(l, k, f, i, x)
    BY ONLY <1>2, WritesToIs, k \in Disk, f \in Files, i \in Nat, x \in Data
<1> QED  BY <1>3 DEF WritesTo

LEMMA EmptiedReads ==
    ASSUME NEW k \in Disk, NEW f \in Files, NEW l, l = [k EXCEPT ![f] = EmptyFile]
    PROVE  l \in Disk /\ \A g \in Files : g # f => l[g] = k[g]
<1>1. /\ k = [g \in Files |-> k[g]]
      /\ \A g \in Files : /\ k[g] = [j \in DOMAIN k[g] |-> k[g][j]]
                          /\ DOMAIN k[g] \subseteq Nat
                          /\ \A j \in DOMAIN k[g] : k[g][j] \in Data
    BY DiskIs
<1>2. EmptyFile = [j \in {} |-> Junk]
    BY DEF EmptyFile
<1>3. /\ l = [g \in Files |-> l[g]] /\ l[f] = EmptyFile
      /\ \A g \in Files : g # f => l[g] = k[g]
    BY <1>1
<1>4. /\ EmptyFile = [j \in DOMAIN EmptyFile |-> EmptyFile[j]]
      /\ DOMAIN EmptyFile = {}
    BY <1>2
<1>5. \A g \in Files : /\ l[g] = [j \in DOMAIN l[g] |-> l[g][j]]
                       /\ DOMAIN l[g] \subseteq Nat
                       /\ \A j \in DOMAIN l[g] : l[g][j] \in Data
    BY <1>1, <1>3, <1>4
<1>6. l \in Disk
    BY ONLY <1>3, <1>5, DiskIs
<1> QED  BY <1>3, <1>6

---------------------------------------------------------------------------
(* The device d with sectors H in use, of which those in P are of the      *)
(* snapshot.                                                               *)

DeviceOk(d, H, P) ==
    /\ d \in State /\ H \subseteq Sectors /\ P \subseteq H
    /\ Cache(d.dev, H) /\ Places(d.dev, H, P)
    /\ d.dev.dump \in {NoFile, names.snapshot, names.old}
    /\ d.dev.dump # NoFile => d.dev.swap # d.dev.dump

(* What operations do to the files: only the swap file is written, and not *)
(* below the barrier.                                                      *)
Writes(e, d) ==
    /\ e.dev.sbarrier = d.dev.sbarrier /\ e.dev.swapping = d.dev.swapping
    /\ e.dev.dump = d.dev.dump
    /\ \/ e.dev.swap = d.dev.swap
       \/ d.dev.swap = NoFile /\ e.dev.swap \in Files \ {names.snapshot, names.old, d.dev.dump}
    /\ \A f \in Files : f # e.dev.swap => e.disk[f] = d.disk[f]
    /\ d.dev.swap # NoFile =>
          \A i \in Nat : i < d.dev.sbarrier =>
              ReadAt(e.disk, d.dev.swap, i) = ReadAt(d.disk, d.dev.swap, i)

SameNumbers(e, d) == e.dev.nsectors = d.dev.nsectors /\ e.dev.mfree = d.dev.mfree
SameBlocks(e, d) == e.vec = d.vec /\ e.mem = d.mem /\ e.mod = d.mod

(* Nothing is lost of the sectors in S.                                    *)
Keeps(e, d, S, P) ==
    \A t \in S :
        /\ t \notin P => \A c : Has(d, t, c) => Has(e, t, c)
        /\ t \in P => \A c : \A f \in Files : f # e.dev.swap =>
                          (HasIn(d, f, t, c) => HasIn(e, f, t, c))
        /\ ~InSlot(d.dev, t) => ~InSlot(e.dev, t) /\ e.dev.map[t] = d.dev.map[t]

SameView(w, v, t) ==
    /\ w.map[t] = v.map[t] /\ (InSlot(w, t) <=> InSlot(v, t))
    /\ InSlot(v, t) => w.slot[v.map[t]] = v.slot[v.map[t]]

LEMMA WritesSelf ==
    ASSUME NEW d
    PROVE  Writes(d, d)
BY DEF Writes

LEMMA WritesOn ==
    ASSUME NEW d, NEW e, NEW g, Writes(e, d), Writes(g, e), d.dev.swap \in Descriptor
    PROVE  Writes(g, d)
<1>1. /\ g.dev.sbarrier = d.dev.sbarrier /\ g.dev.swapping = d.dev.swapping
      /\ g.dev.dump = d.dev.dump
      /\ \/ g.dev.swap = d.dev.swap
         \/ d.dev.swap = NoFile /\ g.dev.swap \in Files \ {names.snapshot, names.old, d.dev.dump}
    BY ConstantsAre DEF Writes
<1>2. \A f \in Files : f # g.dev.swap => g.disk[f] = d.disk[f]
    <2> TAKE f \in Files
    <2> HAVE f # g.dev.swap
    <2>1. f # e.dev.swap
        BY ConstantsAre DEF Writes
    <2> QED  BY <2>1 DEF Writes
<1>3. ASSUME d.dev.swap # NoFile, NEW i \in Nat, i < d.dev.sbarrier
      PROVE  ReadAt(g.disk, d.dev.swap, i) = ReadAt(d.disk, d.dev.swap, i)
    <2>1. e.dev.swap = d.dev.swap /\ e.dev.sbarrier = d.dev.sbarrier
        BY <1>3 DEF Writes
    <2> QED  BY <1>3, <2>1 DEF Writes
<1> QED  BY <1>1, <1>2, <1>3 DEF Writes

LEMMA KeepsSelf ==
    ASSUME NEW d, NEW S, NEW P
    PROVE  Keeps(d, d, S, P)
BY DEF Keeps

LEMMA KeepsOn ==
    ASSUME NEW d, NEW e, NEW g, NEW S, NEW P, Keeps(e, d, S, P), Keeps(g, e, S, P), Writes(g, e)
    PROVE  Keeps(g, d, S, P)
<1> SUFFICES ASSUME NEW t \in S
             PROVE  /\ t \notin P => \A c : Has(d, t, c) => Has(g, t, c)
                    /\ t \in P => \A c : \A f \in Files : f # g.dev.swap =>
                                      (HasIn(d, f, t, c) => HasIn(g, f, t, c))
                    /\ ~InSlot(d.dev, t) => ~InSlot(g.dev, t) /\ g.dev.map[t] = d.dev.map[t]
    BY DEF Keeps
<1>1. t \notin P => \A c : Has(d, t, c) => Has(g, t, c)
    BY DEF Keeps
<1>2. ASSUME t \in P, NEW c, NEW f \in Files, f # g.dev.swap, HasIn(d, f, t, c)
      PROVE  HasIn(g, f, t, c)
    <2>1. f # e.dev.swap
        BY <1>2, ConstantsAre DEF Writes
    <2>2. HasIn(e, f, t, c)
        BY <1>2, <2>1 DEF Keeps
    <2> QED  BY <1>2, <2>2 DEF Keeps
<1>3. ~InSlot(d.dev, t) => ~InSlot(g.dev, t) /\ g.dev.map[t] = d.dev.map[t]
    BY DEF Keeps
<1> QED  BY <1>1, <1>2, <1>3

LEMMA ViewPlace ==
    ASSUME NEW w, NEW v, NEW t, SameView(w, v, t)
    PROVE  PlaceOf(w, t) = PlaceOf(v, t)
BY DEF SameView, PlaceOf

LEMMA ViewHas ==
    ASSUME NEW e, NEW d, NEW t, SameView(e.dev, d.dev, t), e.dev.swap = d.dev.swap,
           LET i == PlaceOf(d.dev, t)
           IN ReadAt(e.disk, d.dev.swap, i) = ReadAt(d.disk, d.dev.swap, i)
    PROVE  \A c : Has(d, t, c) => Has(e, t, c)
BY DEF SameView, Has, Filed, PlaceOf

LEMMA ViewHasIn ==
    ASSUME NEW e, NEW d, NEW t, SameView(e.dev, d.dev, t), NEW f \in Files,
           e.disk[f] = d.disk[f]
    PROVE  \A c : HasIn(d, f, t, c) => HasIn(e, f, t, c)
BY DEF SameView, HasIn, Filed, PlaceOf, ReadAt

LEMMA InSlotIs ==
    ASSUME NEW v \in Device, NEW H, H \subseteq Sectors, Cache(v, H)
    PROVE  /\ \A t \in H : InSlot(v, t) => v.map[t] \in ToSet(v.order)
           /\ \A i \in ToSet(v.order) : /\ i \in Slots /\ v.slot[i].sec \in H
                                        /\ InSlot(v, v.slot[i].sec)
                                        /\ v.map[v.slot[i].sec] = i
<1>1. v.order \in Seq(Slots) /\ v.lfree \in Seq(Slots)
    BY DeviceFields
<1>2. \A i \in ToSet(v.order) : i \in Slots
    BY <1>1, ToSetIs
<1>3. \A i \in ToSet(v.order) : v.slot[i].sec \in H /\ v.map[v.slot[i].sec] = i
    BY DEF Cache
<1>4. \A t \in H : InSlot(v, t) => v.map[t] \in ToSet(v.order)
    <2> TAKE t \in H
    <2> HAVE InSlot(v, t)
    <2>1. v.map[t] \in Slots /\ v.slot[v.map[t]].sec = t /\ t # UNUSED
        BY ConstantsAre DEF InSlot
    <2> QED  BY <2>1 DEF Cache
<1> QED  BY <1>2, <1>3, <1>4 DEF InSlot

---------------------------------------------------------------------------
(* sw_load()                                                               *)

LEMMA PlacesKept ==
    ASSUME NEW v, NEW w, NEW H, NEW P, P \subseteq H, Places(v, H, P),
           \A t \in H : PlaceOf(w, t) = PlaceOf(v, t),
           \A t \in P : InSlot(w, t) => ~w.slot[w.map[t]].dirty,
           w.sfree = v.sfree, w.sbarrier = v.sbarrier, w.ssectors = v.ssectors,
           w.swap = v.swap
    PROVE  Places(w, H, P)
BY DEF Places

Taken(d, m, i, h, order, lfree) ==
    [d EXCEPT !.dev = [d.dev EXCEPT !.map = m, !.slot = [d.dev.slot EXCEPT ![i] = h],
                                    !.order = order, !.lfree = lfree]]

(* The slot i, with all that is left of its sector in the swap file, or a  *)
(* free one, is given to another sector.                                   *)
Clean(h, d, sec) == h \in Slot /\ h.sec = sec /\ h.swap = d.dev.map[sec] /\ ~h.dirty

MayTake(d, H, i, sec, m, order, lfree) ==
    /\ i \in Slots /\ sec \in H /\ ~InSlot(d.dev, sec)
    /\ d.dev.slot[i].sec \in H /\ d.dev.slot[i].dirty =>
           Filed(d, d.dev.swap, d.dev.slot[i].swap, d.dev.slot[i].data)
    /\ order \in Seq(Slots) /\ IsInjective(order)
    /\ ToSet(order) = ToSet(d.dev.order) \cup {i}
    /\ lfree \in Seq(Slots) /\ IsInjective(lfree)
    /\ ToSet(lfree) = ToSet(d.dev.lfree) \ {i}
    /\ m \in [Sectors -> Place]
    /\ \A t \in Sectors : m[t] = IF t = sec THEN i
                                 ELSE IF t = d.dev.slot[i].sec THEN d.dev.slot[i].swap
                                 ELSE d.dev.map[t]

Others(H, sec) == H \ {sec}

SlotTaken(e, d, H, P, i, sec, h) ==
    /\ DeviceOk(e, H, P) /\ SameNumbers(e, d) /\ Writes(e, d) /\ Keeps(e, d, Others(H, sec), P)
    /\ InSlot(e.dev, sec) /\ e.dev.map[sec] = i /\ e.dev.slot[i] = h
    /\ PlaceOf(e.dev, sec) = d.dev.map[sec]
    /\ e.dev.ssectors = d.dev.ssectors /\ e.dev.swap = d.dev.swap
    /\ SameBlocks(e, d) /\ e.disk = d.disk

LEMMA TakeSlot ==
    ASSUME NEW d, NEW H, NEW P, DeviceOk(d, H, P), NEW i, NEW sec, NEW m, NEW order, NEW lfree,
           MayTake(d, H, i, sec, m, order, lfree),
           NEW h, Clean(h, d, sec),
           NEW e, e = Taken(d, m, i, h, order, lfree)
    PROVE  SlotTaken(e, d, H, P, i, sec, h)
<1> /\ i \in Slots /\ sec \in H /\ ~InSlot(d.dev, sec)
    /\ d.dev.slot[i].sec \in H /\ d.dev.slot[i].dirty =>
           Filed(d, d.dev.swap, d.dev.slot[i].swap, d.dev.slot[i].data)
    /\ order \in Seq(Slots) /\ IsInjective(order)
    /\ ToSet(order) = ToSet(d.dev.order) \cup {i}
    /\ lfree \in Seq(Slots) /\ IsInjective(lfree)
    /\ ToSet(lfree) = ToSet(d.dev.lfree) \ {i}
    /\ m \in [Sectors -> Place]
    /\ \A t \in Sectors : m[t] = IF t = sec THEN i
                                 ELSE IF t = d.dev.slot[i].sec THEN d.dev.slot[i].swap
                                 ELSE d.dev.map[t]
    BY DEF MayTake
<1> h \in Slot /\ h.sec = sec /\ h.swap = d.dev.map[sec] /\ ~h.dirty
    BY DEF Clean
<1> DEFINE v == d.dev
           w == e.dev
           u == v.slot[i].sec
<1>1. /\ v \in Device /\ H \subseteq Sectors /\ P \subseteq H
      /\ Cache(v, H) /\ Places(v, H, P)
      /\ v.dump \in {NoFile, names.snapshot, names.old}
      /\ v.dump # NoFile => v.swap # v.dump
    BY DEF DeviceOk, State
<1>0. /\ w = [v EXCEPT !.map = m, !.slot = [v.slot EXCEPT ![i] = h],
                       !.order = order, !.lfree = lfree]
      /\ SameBlocks(e, d) /\ e.disk = d.disk
    BY DEF DeviceOk, State, SameBlocks, Taken
<1> HIDE DEF v, w
<1>2. /\ v.map \in [Sectors -> Place] /\ v.slot \in [Slots -> Slot]
      /\ v.order \in Seq(Slots) /\ v.lfree \in Seq(Slots)
    BY <1>1, DeviceFields
<1>3. /\ w.map = m /\ w.slot = [v.slot EXCEPT ![i] = h] /\ w.order = order /\ w.lfree = lfree
      /\ w.sfree = v.sfree /\ w.ssectors = v.ssectors /\ w.sbarrier = v.sbarrier
      /\ w.nsectors = v.nsectors /\ w.mfree = v.mfree /\ w.swapping = v.swapping
      /\ w.swap = v.swap /\ w.dump = v.dump
    BY <1>0, <1>1 DEF Device
<1>4. w \in Device
    <2>1. [v.slot EXCEPT ![i] = h] \in [Slots -> Slot]
        BY <1>2
    <2> QED  BY <1>0, <1>1, <2>1 DEF Device
<1>5. w.slot[i] = h /\ \A j \in Slots : j # i => w.slot[j] = v.slot[j]
    BY <1>2, <1>3
<1>6. /\ \A t \in H : InSlot(v, t) => v.map[t] \in ToSet(v.order)
      /\ \A j \in ToSet(v.order) : /\ j \in Slots /\ v.slot[j].sec \in H
                                   /\ InSlot(v, v.slot[j].sec)
                                   /\ v.map[v.slot[j].sec] = j
    BY <1>1, InSlotIs
<1>7. /\ \A j \in Slots : j \in ToSet(v.order) \/ (j \in ToSet(v.lfree) /\ v.slot[j].sec = UNUSED)
      /\ \A t \in Sectors \ H : v.map[t] = UNUSED
      /\ UNUSED \notin Sectors
    BY <1>1, ConstantsAre DEF Cache
<1>8. u \in H => i \in ToSet(v.order) /\ v.map[u] = i /\ InSlot(v, u) /\ u # sec
    <2> HAVE u \in H
    <2>1. u # UNUSED
        BY <1>1, <1>7
    <2>2. i \in ToSet(v.order)
        BY <1>7, <2>1
    <2> QED  BY <1>6, <2>2 DEF v
<1>9. u \in H \/ u = UNUSED
    BY <1>6, <1>7
<1>10. \A t \in Sectors : w.map[t] = IF t = sec THEN i ELSE IF t = u THEN v.slot[i].swap
                                     ELSE v.map[t]
    BY <1>3 DEF v
<1> HIDE DEF u
<1>11. ASSUME NEW t \in H, t # sec, t # u
       PROVE  SameView(w, v, t)
    <2>1. w.map[t] = v.map[t] /\ t \in Sectors
        BY <1>1, <1>10, <1>11
    <2>2. InSlot(v, t) => v.map[t] # i
        BY <1>11 DEF InSlot, u
    <2>3. InSlot(w, t) => v.map[t] # i
        BY <1>5, <1>11, <2>1 DEF InSlot
    <2> QED  BY <1>5, <2>1, <2>2, <2>3 DEF SameView, InSlot
<1>12. ASSUME u \in H
       PROVE  ~InSlot(w, u) /\ w.map[u] = v.slot[i].swap /\ PlaceOf(w, u) = PlaceOf(v, u)
    <2>1. w.map[u] = v.slot[i].swap /\ PlaceOf(v, u) = v.slot[i].swap
        BY <1>1, <1>8, <1>10, <1>12 DEF PlaceOf
    <2>2. ~InSlot(w, u)
        <3> SUFFICES ASSUME InSlot(w, u)  PROVE FALSE
            OBVIOUS
        <3>1. w.map[u] \in Slots /\ w.slot[w.map[u]].sec = u
            BY DEF InSlot
        <3>2. w.map[u] # i
            BY <1>5, <1>8, <1>12, <3>1
        <3>3. v.slot[w.map[u]].sec = u
            BY <1>5, <3>1, <3>2
        <3>4. w.map[u] \in ToSet(v.order)
            BY <1>1, <1>7, <1>12, <3>1, <3>3
        <3>5. v.map[u] = w.map[u]
            BY <1>6, <3>3, <3>4
        <3> QED  BY <1>8, <1>12, <3>2, <3>5
    <2> QED  BY <2>1, <2>2 DEF PlaceOf
<1>13. InSlot(w, sec) /\ w.map[sec] = i /\ PlaceOf(w, sec) = v.map[sec]
    <2>1. w.map[sec] = i
        BY <1>1, <1>10
    <2> QED  BY <1>5, <2>1 DEF InSlot, PlaceOf, v
<1>14. \A t \in H : PlaceOf(w, t) = PlaceOf(v, t)
    <2> TAKE t \in H
    <2>1. CASE t = sec
        BY <1>13, <2>1 DEF PlaceOf, v
    <2>2. CASE t # sec /\ t = u
        BY <1>12, <2>2
    <2>3. CASE t # sec /\ t # u
        BY <1>11, <2>3, ViewPlace
    <2> QED  BY <2>1, <2>2, <2>3
<1>15. \A t \in P : InSlot(w, t) => ~w.slot[w.map[t]].dirty
    <2> TAKE t \in P
    <2> HAVE InSlot(w, t)
    <2>1. t \in H /\ (InSlot(v, t) => ~v.slot[v.map[t]].dirty)
        BY <1>1 DEF Places
    <2>2. CASE t = sec
        BY <1>5, <1>13, <2>2
    <2>3. CASE t # sec
        BY <1>11, <1>12, <2>1, <2>3 DEF SameView
    <2> QED  BY <2>2, <2>3
<1>16. Places(w, H, P)
    <2>1. /\ P \subseteq H /\ Places(v, H, P)
          /\ w.sfree = v.sfree /\ w.sbarrier = v.sbarrier
          /\ w.ssectors = v.ssectors /\ w.swap = v.swap
        BY <1>1, <1>3
    <2> QED  BY ONLY <1>14, <1>15, <2>1, PlacesKept
<1>17. Cache(w, H)
    <2>1. \A j \in ToSet(w.order) : w.slot[j].sec \in H /\ w.map[w.slot[j].sec] = j
        <3> TAKE j \in ToSet(w.order)
        <3>1. CASE j = i
            BY <1>5, <1>13, <3>1
        <3>2. CASE j # i
            <4>1. j \in ToSet(v.order)
                BY <1>3, <3>2 DEF v
            <4>2. PICK t : t = v.slot[j].sec
                OBVIOUS
            <4>3. t \in H /\ InSlot(v, t) /\ v.map[t] = j /\ w.slot[j].sec = t
                BY <1>5, <1>6, <3>2, <4>1, <4>2
            <4>4. t # sec
                BY <4>3 DEF v
            <4>5. t # u
                BY <1>8, <3>2, <4>3
            <4>6. w.map[t] = j
                BY <1>11, <4>3, <4>4, <4>5 DEF SameView
            <4> QED  BY <4>3, <4>6
        <3> QED  BY <3>1, <3>2
    <2>2. \A j \in ToSet(w.lfree) : w.slot[j].sec = UNUSED /\ w.slot[j].swap = UNUSED
        <3> TAKE j \in ToSet(w.lfree)
        <3>1. j \in ToSet(v.lfree) /\ j # i
            BY <1>3 DEF v
        <3>2. j \in Slots
            BY <1>2, <3>1, ToSetIs DEF v
        <3>3. v.slot[j].sec = UNUSED /\ v.slot[j].swap = UNUSED
            BY <1>1, <3>1 DEF Cache
        <3> QED  BY <1>5, <3>1, <3>2, <3>3
    <2>3. \A t \in Sectors \ H : w.map[t] = UNUSED
        <3> TAKE t \in Sectors \ H
        <3>1. t # sec /\ t # u
            BY <1>7, <1>9
        <3> QED  BY <1>7, <1>10, <3>1
    <2>4. ToSet(w.order) \cap ToSet(w.lfree) = {} /\ ToSet(w.order) \cup ToSet(w.lfree) = Slots
        <3>1. ToSet(v.order) \cap ToSet(v.lfree) = {} /\ ToSet(v.order) \cup ToSet(v.lfree) = Slots
            BY <1>1 DEF Cache
        <3>2. /\ ToSet(w.order) = ToSet(v.order) \cup {i}
              /\ ToSet(w.lfree) = ToSet(v.lfree) \ {i}
            BY <1>3 DEF v
        <3> QED  BY <3>1, <3>2
    <2> QED  BY <1>3, <2>1, <2>2, <2>3, <2>4 DEF Cache
<1>18. DeviceOk(e, H, P)
    <2>1. e \in State
        BY <1>4 DEF DeviceOk, State, Taken, w
    <2> QED  BY <1>1, <1>3, <1>16, <1>17, <2>1 DEF DeviceOk, v, w
<1>19. Writes(e, d)
    BY <1>0, <1>3 DEF Writes, v, w
<1>20. Keeps(e, d, Others(H, sec), P)
    <2> SUFFICES ASSUME NEW t \in H, t # sec
                 PROVE  /\ t \notin P => \A c : Has(d, t, c) => Has(e, t, c)
                        /\ t \in P => \A c : \A f \in Files : f # w.swap =>
                                          (HasIn(d, f, t, c) => HasIn(e, f, t, c))
                        /\ ~InSlot(v, t) => ~InSlot(w, t) /\ w.map[t] = v.map[t]
        BY DEF Keeps, Others, v, w
    <2>1. CASE t = u
        <3>1. u \in H
            BY <2>1
        <3>2. /\ ~InSlot(w, u) /\ w.map[u] = v.slot[i].swap /\ InSlot(v, u) /\ v.map[u] = i
            BY <1>8, <1>12, <3>1
        <3>3. ASSUME NEW c, Has(d, u, c)
              PROVE  Has(e, u, c)
            <4>1. v.slot[i].data = c /\ (v.slot[i].dirty \/ Filed(d, v.swap, v.slot[i].swap, c))
                BY <3>2, <3>3 DEF Has, v
            <4>2. Filed(d, v.swap, v.slot[i].swap, c)
                BY <3>1, <4>1 DEF u, v
            <4>3. Filed(e, w.swap, w.map[u], c)
                BY <1>0, <1>3, <3>2, <4>2 DEF Filed
            <4> QED  BY <3>2, <4>3 DEF Has, w
        <3>4. ASSUME NEW c, NEW f \in Files, HasIn(d, f, u, c)
              PROVE  HasIn(e, f, u, c)
            <4>1. Filed(d, f, v.slot[i].swap, c)
                BY <3>2, <3>4 DEF HasIn, PlaceOf, v
            <4>2. Filed(e, f, PlaceOf(w, u), c)
                BY <1>0, <3>2, <4>1 DEF Filed, PlaceOf
            <4> QED  BY <3>2, <4>2 DEF HasIn, w
        <3> QED  BY <2>1, <3>2, <3>3, <3>4
    <2>2. CASE t # u
        <3>1. SameView(w, v, t)
            BY <1>11, <2>2
        <3>2. \A c : Has(d, t, c) => Has(e, t, c)
            BY <1>0, <1>3, <3>1, ViewHas DEF v, w
        <3>3. \A f \in Files : \A c : HasIn(d, f, t, c) => HasIn(e, f, t, c)
            BY <1>0, <3>1, ViewHasIn DEF v, w
        <3> QED  BY <3>1, <3>2, <3>3 DEF SameView
    <2> QED  BY <2>1, <2>2
<1> QED  BY <1>0, <1>3, <1>5, <1>13, <1>18, <1>19, <1>20 DEF SlotTaken, SameNumbers, v, w

---------------------------------------------------------------------------
(* sw_create() and sw_writev(): the swap file and what is written to it.   *)

Reslot(v, i, h, free, n) ==
    [v EXCEPT !.slot = [v.slot EXCEPT ![i] = h], !.sfree = free, !.ssectors = n]

LEMMA SetSlot ==
    ASSUME NEW v \in Device, NEW H, H \subseteq Sectors, Cache(v, H), NEW i \in Slots,
           NEW h \in Slot, h.sec = v.slot[i].sec, h.sec \in H,
           NEW free \in Seq(Nat), NEW n \in Nat,
           NEW w, w = Reslot(v, i, h, free, n)
    PROVE  /\ w \in Device /\ Cache(w, H)
           /\ w.map = v.map /\ w.order = v.order /\ w.lfree = v.lfree /\ w.dump = v.dump
           /\ w.nsectors = v.nsectors /\ w.mfree = v.mfree /\ w.sbarrier = v.sbarrier
           /\ w.swapping = v.swapping /\ w.swap = v.swap /\ w.sfree = free /\ w.ssectors = n
           /\ w.slot[i] = h /\ \A j \in Slots : j # i => w.slot[j] = v.slot[j]
           /\ \A t : InSlot(w, t) <=> InSlot(v, t)
           /\ \A t : t # h.sec => SameView(w, v, t)
<1>1. /\ w.map = v.map /\ w.order = v.order /\ w.lfree = v.lfree /\ w.dump = v.dump
      /\ w.nsectors = v.nsectors /\ w.mfree = v.mfree /\ w.sbarrier = v.sbarrier
      /\ w.swapping = v.swapping /\ w.swap = v.swap /\ w.sfree = free /\ w.ssectors = n
      /\ w.slot = [v.slot EXCEPT ![i] = h]
    BY DEF Device, Reslot
<1>2. v.slot \in [Slots -> Slot] /\ v.order \in Seq(Slots) /\ v.lfree \in Seq(Slots)
    BY DeviceFields
<1>3. w.slot[i] = h /\ \A j \in Slots : j # i => w.slot[j] = v.slot[j]
    BY <1>1, <1>2
<1>4. w \in Device
    <2>1. [v.slot EXCEPT ![i] = h] \in [Slots -> Slot]
        BY <1>2
    <2> QED  BY <2>1 DEF Device, Reslot
<1>5. \A j \in Slots : w.slot[j].sec = v.slot[j].sec
    BY <1>3
<1>6. \A t : InSlot(w, t) <=> InSlot(v, t)
    BY <1>1, <1>5 DEF InSlot
<1>7. \A t : t # h.sec => SameView(w, v, t)
    <2> TAKE t
    <2> HAVE t # h.sec
    <2>1. InSlot(v, t) => v.map[t] \in Slots /\ v.map[t] # i
        BY DEF InSlot
    <2> QED  BY <1>1, <1>3, <1>6, <2>1 DEF SameView
<1>8. Cache(w, H)
    <2>1. \A j \in ToSet(v.order) : j \in Slots
        BY <1>2, ToSetIs
    <2>2. \A j \in ToSet(v.lfree) : j \in Slots
        BY <1>2, ToSetIs
    <2>3. \A j \in ToSet(v.lfree) : j # i
        BY ConstantsAre DEF Cache
    <2>4. \A j \in ToSet(v.lfree) : w.slot[j] = v.slot[j]
        BY <1>3, <2>2, <2>3
    <2> HIDE DEF Device
    <2> QED  BY <1>1, <1>5, <2>1, <2>2, <2>4 DEF Cache
<1> HIDE DEF Device
<1> QED  BY <1>1, <1>3, <1>4, <1>6, <1>7, <1>8

(* From the device d to e nothing is lost, of blocks or of sectors.        *)
Goes(e, d, H, P) ==
    /\ DeviceOk(e, H, P) /\ SameNumbers(e, d) /\ SameBlocks(e, d)
    /\ Writes(e, d) /\ Keeps(e, d, H, P)

Created(e, d, H, P) ==
    /\ Goes(e, d, H, P)
    /\ e.dev.swap \in Files /\ e.dev = [d.dev EXCEPT !.swap = e.dev.swap]
    /\ e.dev.map = d.dev.map /\ e.dev.slot = d.dev.slot /\ e.dev.order = d.dev.order
    /\ e.dev.lfree = d.dev.lfree /\ e.dev.sfree = d.dev.sfree
    /\ e.dev.ssectors = d.dev.ssectors

LEMMA CreateIs ==
    ASSUME NEW d, NEW H, NEW P, DeviceOk(d, H, P), NEW e, e = Create(d)
    PROVE  Created(e, d, H, P)
<1> DEFINE v == d.dev
           w == e.dev
           used == {names.snapshot, names.old, v.dump}
           f == CHOOSE x \in Files : x \notin used
<1>1. /\ v \in Device /\ d \in State /\ H \subseteq Sectors /\ P \subseteq H
      /\ Cache(v, H) /\ Places(v, H, P) /\ v.dump \in {NoFile, names.snapshot, names.old}
      /\ v.dump # NoFile => v.swap # v.dump
    BY DEF DeviceOk, State
<1>2. v.swap \in Files \cup {NoFile}
    BY <1>1, DeviceFields DEF Descriptor
<1>3. CASE v.swap # NoFile
    <2>1. e = d
        BY <1>3 DEF Create
    <2>2. v = [v EXCEPT !.swap = v.swap]
        BY <1>1 DEF Device
    <2> QED  BY <1>2, <1>3, <2>1, <2>2, WritesSelf, KeepsSelf
             DEF Created, Goes, SameNumbers, SameBlocks
<1>4. CASE v.swap = NoFile
    <2>1. f \in Files /\ f \notin used
        <3>1. \E x \in Files : x \notin used
            <4>1. used \subseteq {NoFile, names.snapshot, names.old}
                BY <1>1
            <4> HIDE DEF used
            <4>2. "A" # "B" /\ "A" # "C" /\ "B" # "C" /\ NoFile \notin {"A", "B", "C"}
                BY DEF NoFile
            <4> QED  BY <4>1, <4>2 DEF Files
        <3> QED  BY <3>1
    <2>2. e = [d EXCEPT !.dev.swap = f, !.disk[f] = EmptyFile]
        BY <1>4 DEF Create
    <2> HIDE DEF f
    <2>3. /\ w = [v EXCEPT !.swap = f] /\ e.disk = [d.disk EXCEPT ![f] = EmptyFile]
          /\ SameBlocks(e, d) /\ e = [d EXCEPT !.dev = w, !.disk = e.disk]
        BY <1>1, <2>2 DEF State, SameBlocks
    <2> HIDE DEF v, w
    <2>4. /\ w.map = v.map /\ w.slot = v.slot /\ w.order = v.order /\ w.lfree = v.lfree
          /\ w.nsectors = v.nsectors /\ w.mfree = v.mfree /\ w.sbarrier = v.sbarrier
          /\ w.swapping = v.swapping /\ w.sfree = v.sfree /\ w.ssectors = v.ssectors
          /\ w.swap = f /\ w.dump = v.dump /\ w \in Device
        <3>1. f \in Descriptor
            BY <2>1 DEF Descriptor
        <3> QED  BY <1>1, <2>3, <3>1 DEF Device
    <2>5. e.disk \in Disk /\ \A g \in Files : g # f => e.disk[g] = d.disk[g]
        <3>1. d.disk \in Disk
            BY <1>1 DEF State
        <3> QED  BY <2>1, <2>3, <3>1, EmptiedReads
    <2>6. e \in State
        <3>1. e = [d EXCEPT !.dev = w, !.disk = e.disk] /\ w \in Device /\ e.disk \in Disk
            BY <2>3, <2>4, <2>5
        <3> QED  BY <1>1, <3>1 DEF State
    <2>7. \A t : SameView(w, v, t)
        BY <2>4 DEF SameView, InSlot
    <2>8. Cache(w, H)
        BY <1>1, <2>4 DEF Cache
    <2>9. \A t : PlaceOf(w, t) = PlaceOf(v, t)
        BY <2>7, ViewPlace
    <2>10. v.ssectors = 0
        BY <1>1, <1>4 DEF Places
    <2>11. Places(w, H, P)
        <3>1. w.swap = NoFile => w.ssectors = 0
            BY <2>4, <2>10
        <3>2. \A t \in P : InSlot(w, t) => ~w.slot[w.map[t]].dirty
            BY <1>1, <2>4, <2>7 DEF Places, SameView
        <3> QED  BY <1>1, <2>4, <2>9, <3>1, <3>2 DEF Places
    <2>12. DeviceOk(e, H, P)
        <3>1. w.dump \in {NoFile, names.snapshot, names.old} /\ w.swap # w.dump
            BY <1>1, <2>1, <2>4
        <3> QED  BY <1>1, <2>6, <2>8, <2>11, <3>1 DEF DeviceOk, w
    <2>13. Writes(e, d)
        <3>1. w.swap \in Files \ {names.snapshot, names.old, v.dump}
            BY <2>1, <2>4
        <3> QED  BY <1>4, <2>4, <2>5, <3>1 DEF Writes, v, w
    <2>14. Keeps(e, d, H, P)
        <3> SUFFICES ASSUME NEW t \in H
                     PROVE  /\ t \notin P => \A c : Has(d, t, c) => Has(e, t, c)
                            /\ \A g \in Files : g # w.swap =>
                                  \A c : HasIn(d, g, t, c) => HasIn(e, g, t, c)
            BY <2>7 DEF Keeps, SameView, v, w
        <3>1. ASSUME t \notin P, NEW c, Has(d, t, c)
              PROVE  Has(e, t, c)
            <4>1. PlaceOf(v, t) < 0
                BY <1>1, <2>10, <3>1 DEF Places
            <4>2. PlaceOf(v, t) = UNUSED
                <5>1. /\ \A j \in Slots : v.slot[j].swap \in Place
                      /\ \A s \in Sectors : v.map[s] \in Place
                    BY <1>1, DeviceFields
                <5>2. PlaceOf(v, t) \in Place
                    BY <1>1, <5>1 DEF PlaceOf, InSlot
                <5> QED  BY <4>1, <5>2 DEF Place
            <4>3. InSlot(v, t) /\ v.slot[v.map[t]].data = c /\ v.slot[v.map[t]].dirty
                BY <3>1, <4>2 DEF Has, Filed, PlaceOf, v
            <4>4. InSlot(w, t) /\ w.slot[w.map[t]] = v.slot[v.map[t]]
                BY <2>7, <4>3 DEF SameView
            <4> QED  BY <4>3, <4>4 DEF Has, w
        <3>2. ASSUME NEW g \in Files, g # w.swap
              PROVE  \A c : HasIn(d, g, t, c) => HasIn(e, g, t, c)
            <4>1. e.disk[g] = d.disk[g] /\ SameView(e.dev, d.dev, t)
                BY <2>4, <2>5, <2>7, <3>2 DEF v, w
            <4> QED  BY <4>1, ViewHasIn
        <3> QED  BY <3>1, <3>2
    <2> QED  BY <2>1, <2>3, <2>4, <2>12, <2>13, <2>14 DEF Created, Goes, SameNumbers, v, w
<1> QED  BY <1>3, <1>4

(* What a slot holds is in the swap file, at its place.                    *)
Saved(d, j) == Filed(d, d.dev.swap, d.dev.slot[j].swap, d.dev.slot[j].data)

Wrote(e, d, H, P, i) ==
    /\ Goes(e, d, H, P)
    /\ e.dev.map = d.dev.map /\ e.dev.order = d.dev.order /\ e.dev.lfree = d.dev.lfree
    /\ e.dev.swap = d.dev.swap
    /\ \A j \in Slots : /\ e.dev.slot[j].sec = d.dev.slot[j].sec
                        /\ e.dev.slot[j].dirty = d.dev.slot[j].dirty
                        /\ e.dev.slot[j].data = d.dev.slot[j].data
    /\ e.dev.slot[i].dirty => Saved(e, i)
    /\ \A j \in ToSet(d.dev.order) : d.dev.slot[j].dirty /\ Saved(d, j) => Saved(e, j)

LEMMA WriteIs ==
    ASSUME NEW d, NEW H, NEW P, DeviceOk(d, H, P), NEW i \in ToSet(d.dev.order),
           d.dev.slot[i].dirty => d.dev.swap # NoFile, NEW e, e = Write(d, i)
    PROVE  Wrote(e, d, H, P, i)
<1> DEFINE v == d.dev
           w == e.dev
           h == v.slot[i]
           u == h.sec
           keep == h.swap # UNUSED /\ h.swap >= v.sbarrier
           s == IF keep THEN h.swap
                ELSE IF v.sfree = << >> THEN v.ssectors ELSE Head(v.sfree)
           free == IF keep \/ v.sfree = << >> THEN v.sfree ELSE Tail(v.sfree)
           n == IF ~keep /\ v.sfree = << >> THEN v.ssectors + 1 ELSE v.ssectors
           g == [h EXCEPT !.swap = s]
<1>1. /\ v \in Device /\ d \in State /\ H \subseteq Sectors /\ P \subseteq H
      /\ Cache(v, H) /\ Places(v, H, P) /\ v.dump \in {NoFile, names.snapshot, names.old}
      /\ v.dump # NoFile => v.swap # v.dump
    BY DEF DeviceOk, State
<1>2. CASE ~h.dirty
    <2>1. e = d
        BY <1>2 DEF Write, WriteFrom
    <2> QED  BY <1>2, <2>1, WritesSelf, KeepsSelf DEF Wrote, Goes, SameNumbers, SameBlocks
<1>3. CASE h.dirty
    <2>1. /\ i \in Slots /\ u \in H /\ InSlot(v, u) /\ v.map[u] = i
        BY <1>1, InSlotIs
    <2>2. /\ h \in Slot /\ h.swap \in Place /\ v.sfree \in Seq(Nat)
          /\ v.ssectors \in Nat /\ v.sbarrier \in Nat /\ v.swap \in Files /\ h.data \in Data
          /\ d.disk \in Disk
        <3>1. v.slot \in [Slots -> Slot] /\ v.swap \in Descriptor
            BY <1>1, DeviceFields
        <3>2. v.swap \in Files
            BY <1>3, <3>1 DEF Descriptor
        <3> QED  BY <1>1, <2>1, <3>1, <3>2, DeviceFields DEF State
    <2>3. u \in H \ P /\ PlaceOf(v, u) = h.swap
        <3>1. u \notin P
            BY <1>1, <1>3, <2>1 DEF Places
        <3> QED  BY <2>1, <3>1 DEF PlaceOf
    <2>4. /\ \A t \in H \ P : t # u => PlaceOf(v, t) # PlaceOf(v, u) \/ PlaceOf(v, t) = UNUSED
          /\ \A t \in H \ P : PlaceOf(v, t) < v.ssectors /\ PlaceOf(v, t) \notin ToSet(v.sfree)
          /\ IsInjective(v.sfree) /\ ToSet(v.sfree) \subseteq v.sbarrier .. v.ssectors - 1
          /\ v.sbarrier <= v.ssectors
        BY <1>1, <2>3 DEF Places
    <2>5. /\ s \in Nat /\ s >= v.sbarrier /\ free \in Seq(Nat) /\ n \in Nat /\ v.ssectors <= n
          /\ s < n /\ IsInjective(free) /\ ToSet(free) = ToSet(v.sfree) \ {s}
          /\ \A t \in H \ P : t # u => PlaceOf(v, t) # s
        <3>1. CASE keep
            <4>1. s = h.swap /\ free = v.sfree /\ n = v.ssectors
                BY <3>1
            <4>2. h.swap \in Nat /\ h.swap >= v.sbarrier
                BY <2>2, <3>1 DEF Place
            <4>3. h.swap < v.ssectors /\ h.swap \notin ToSet(v.sfree)
                BY <2>3, <2>4
            <4>4. \A t \in H \ P : t # u => PlaceOf(v, t) # h.swap
                BY <2>3, <2>4, <3>1
            <4> HIDE DEF s, free, n, keep, h, v, u
            <4>5. ToSet(free) = ToSet(v.sfree) \ {s}
                BY <4>1, <4>3
            <4> QED  BY <2>2, <2>4, <4>1, <4>2, <4>3, <4>4, <4>5
        <3>2. CASE ~keep /\ v.sfree = << >>
            <4>1. s = v.ssectors /\ free = v.sfree /\ n = v.ssectors + 1
                BY <3>2
            <4>2. ToSet(v.sfree) = {}
                BY <3>2, EmptyElem
            <4>3. \A t \in H \ P : PlaceOf(v, t) # v.ssectors
                BY <2>2, <2>4
            <4> HIDE DEF s, free, n, keep, h, v, u
            <4> QED  BY <2>2, <2>4, <4>1, <4>2, <4>3
        <3>3. CASE ~keep /\ v.sfree # << >>
            <4>1. s = Head(v.sfree) /\ free = Tail(v.sfree) /\ n = v.ssectors
                BY <3>3
            <4>2. /\ Head(v.sfree) \in Nat /\ Head(v.sfree) \in ToSet(v.sfree)
                  /\ Tail(v.sfree) \in Seq(Nat) /\ IsInjective(Tail(v.sfree))
                  /\ ToSet(Tail(v.sfree)) = ToSet(v.sfree) \ {Head(v.sfree)}
                BY <2>2, <2>4, <3>3, TailElem
            <4> HIDE DEF s, free, n, keep, h, v, u
            <4>3. s \in Nat /\ s \in ToSet(v.sfree) /\ s >= v.sbarrier /\ s < v.ssectors
                BY <2>2, <2>4, <4>1, <4>2
            <4> QED  BY <2>2, <2>4, <4>1, <4>2, <4>3
        <3> QED  BY <3>1, <3>2, <3>3
    <2>6. e = [d EXCEPT !.dev = [v EXCEPT !.slot = [v.slot EXCEPT ![i] = g],
                                          !.sfree = free, !.ssectors = n],
                        !.disk = [d.disk EXCEPT ![v.swap] = Written(@, s, h.data)]]
        <3>1. e = [d EXCEPT
                    !.dev.slot[i].swap = s,
                    !.dev.sfree = IF keep \/ @ = << >> THEN @ ELSE Tail(@),
                    !.dev.ssectors = IF ~keep /\ v.sfree = << >> THEN @ + 1 ELSE @,
                    !.disk[v.swap] = Written(@, s, h.data)]
            BY <1>3 DEF Write, WriteFrom
        <3> HIDE DEF s, keep
        <3> QED  BY <1>1, <3>1 DEF State, Device
    <2> HIDE DEF s, free, n, keep
    <2>7. /\ w = [v EXCEPT !.slot = [v.slot EXCEPT ![i] = g], !.sfree = free, !.ssectors = n]
          /\ e.disk = [d.disk EXCEPT ![v.swap] = Written(@, s, h.data)]
          /\ SameBlocks(e, d) /\ e = [d EXCEPT !.dev = w, !.disk = e.disk]
        <3> HIDE DEF g, h
        <3> QED  BY <1>1, <2>6 DEF State, SameBlocks
    <2>8. /\ g \in Slot /\ g.sec = u /\ g.swap = s /\ g.dirty = h.dirty /\ g.data = h.data
        <3>1. s \in Place
            BY <2>5 DEF Place
        <3> HIDE DEF h
        <3> QED  BY <2>2, <3>1 DEF Slot, u
    <2> HIDE DEF g, w, v
    <2>9. /\ w \in Device /\ Cache(w, H)
          /\ w.map = v.map /\ w.order = v.order /\ w.lfree = v.lfree /\ w.dump = v.dump
          /\ w.nsectors = v.nsectors /\ w.mfree = v.mfree /\ w.sbarrier = v.sbarrier
          /\ w.swapping = v.swapping /\ w.swap = v.swap /\ w.sfree = free /\ w.ssectors = n
          /\ w.slot[i] = g /\ \A j \in Slots : j # i => w.slot[j] = v.slot[j]
          /\ \A t : InSlot(w, t) <=> InSlot(v, t)
          /\ \A t : t # g.sec => SameView(w, v, t)
        <3>1. /\ v \in Device /\ H \subseteq Sectors /\ Cache(v, H) /\ i \in Slots /\ g \in Slot
              /\ g.sec = v.slot[i].sec /\ g.sec \in H /\ free \in Seq(Nat) /\ n \in Nat
              /\ w = Reslot(v, i, g, free, n)
            BY <1>1, <2>1, <2>5, <2>7, <2>8 DEF Reslot
        <3> QED  BY ONLY <3>1, SetSlot
    <2>10. /\ e.disk \in Disk /\ ReadAt(e.disk, v.swap, s) = h.data
           /\ \A j : j # s => ReadAt(e.disk, v.swap, j) = ReadAt(d.disk, v.swap, j)
           /\ \A f \in Files : f # v.swap => e.disk[f] = d.disk[f]
        <3>1. /\ d.disk \in Disk /\ v.swap \in Files /\ s \in Nat /\ h.data \in Data
              /\ e.disk = [d.disk EXCEPT ![v.swap] = Written(@, s, h.data)]
            BY <2>2, <2>5, <2>7
        <3> HIDE DEF h
        <3> QED  BY ONLY <3>1, WrittenReads
    <2>11. PlaceOf(w, u) = s /\ \A t : t # u => PlaceOf(w, t) = PlaceOf(v, t)
        <3>1. PlaceOf(w, u) = s
            BY <2>1, <2>8, <2>9 DEF PlaceOf
        <3> QED  BY <2>8, <2>9, <3>1, ViewPlace
    <2>12. Places(w, H, P)
        <3>1. \A t, r \in H \ P : PlaceOf(w, t) = PlaceOf(w, r) /\ PlaceOf(w, t) # UNUSED => t = r
            BY <1>1, <2>5, <2>11 DEF Places
        <3>2. \A t \in H \ P : PlaceOf(w, t) < w.ssectors /\ PlaceOf(w, t) \notin ToSet(w.sfree)
            <4> TAKE t \in H \ P
            <4>1. CASE t = u
                BY <2>5, <2>9, <2>11, <4>1
            <4>2. CASE t # u
                <5>1. PlaceOf(w, t) = PlaceOf(v, t)
                    BY <2>11, <4>2
                <5>2. PlaceOf(v, t) < v.ssectors /\ PlaceOf(v, t) \notin ToSet(v.sfree)
                    BY <2>4
                <5>3. PlaceOf(v, t) \in Int
                    <6>1. PlaceOf(v, t) \in Place
                        BY <1>1, DeviceFields DEF PlaceOf, InSlot
                    <6> QED  BY <6>1 DEF Place, UNUSED
                <5> QED  BY <2>2, <2>5, <2>9, <5>1, <5>2, <5>3
            <4> QED  BY <4>1, <4>2
        <3>3. ToSet(w.sfree) \subseteq w.sbarrier .. w.ssectors - 1
            BY <2>2, <2>4, <2>5, <2>9
        <3>4. w.sbarrier <= w.ssectors /\ w.swap # NoFile
            <4>1. v.swap # NoFile
                BY <2>2, ConstantsAre
            <4> QED  BY <2>2, <2>4, <2>5, <2>9, <4>1
        <3>5. \A t \in P : /\ PlaceOf(w, t) < MaxIndex
                           /\ InSlot(w, t) => ~w.slot[w.map[t]].dirty
            <4> TAKE t \in P
            <4>1. t # u
                BY <2>3
            <4> QED  BY <1>1, <2>8, <2>9, <2>11, <4>1 DEF Places, SameView
        <3> QED  BY <2>5, <2>9, <3>1, <3>2, <3>3, <3>4, <3>5 DEF Places
    <2>13. DeviceOk(e, H, P)
        <3>1. e \in State
            <4>1. e = [d EXCEPT !.dev = w, !.disk = e.disk] /\ w \in Device /\ e.disk \in Disk
                BY <2>7, <2>9, <2>10
            <4> QED  BY <1>1, <4>1 DEF State
        <3> QED  BY <1>1, <2>9, <2>12, <3>1 DEF DeviceOk, w
    <2>14. Writes(e, d)
        <3>1. \A j \in Nat : j < v.sbarrier => ReadAt(e.disk, v.swap, j) = ReadAt(d.disk, v.swap, j)
            BY <2>2, <2>5, <2>10
        <3> QED  BY <2>9, <2>10, <3>1 DEF Writes, v, w
    <2>15. Keeps(e, d, H, P)
        <3> SUFFICES ASSUME NEW t \in H
                     PROVE  /\ t \notin P => \A c : Has(d, t, c) => Has(e, t, c)
                            /\ t \in P => \A c : \A f \in Files : f # w.swap =>
                                              (HasIn(d, f, t, c) => HasIn(e, f, t, c))
                            /\ ~InSlot(v, t) => ~InSlot(w, t) /\ w.map[t] = v.map[t]
            BY DEF Keeps, v, w
        <3>1. CASE t = u
            <4>1. /\ InSlot(w, u) /\ w.slot[w.map[u]] = g /\ v.slot[v.map[u]] = h
                BY <2>1, <2>9 DEF v
            <4>2. \A c : Has(d, u, c) => Has(e, u, c)
                BY <1>3, <2>1, <2>8, <4>1 DEF Has, v, w
            <4> QED  BY <2>1, <2>3, <3>1, <4>2
        <3>2. CASE t # u
            <4>1. SameView(e.dev, d.dev, t) /\ e.dev.swap = d.dev.swap
                BY <2>8, <2>9, <3>2 DEF v, w
            <4>2. ASSUME t \notin P  PROVE \A c : Has(d, t, c) => Has(e, t, c)
                <5>1. PlaceOf(d.dev, t) # s
                    BY <2>5, <3>2, <4>2 DEF v
                <5>2. ReadAt(e.disk, d.dev.swap, PlaceOf(d.dev, t))
                        = ReadAt(d.disk, d.dev.swap, PlaceOf(d.dev, t))
                    BY <2>10, <5>1 DEF v
                <5> QED  BY <4>1, <5>2, ViewHas
            <4>3. ASSUME NEW f \in Files, f # w.swap
                  PROVE  \A c : HasIn(d, f, t, c) => HasIn(e, f, t, c)
                <5>1. e.disk[f] = d.disk[f]
                    BY <2>9, <2>10, <4>3
                <5> QED  BY <4>1, <5>1, ViewHasIn
            <4> QED  BY <4>1, <4>2, <4>3 DEF SameView, v, w
        <3> QED  BY <3>1, <3>2
    <2>16. Saved(e, i)
        <3>1. s # UNUSED
            BY <2>5, ConstantsAre
        <3> QED  BY <2>8, <2>9, <2>10, <3>1 DEF Saved, Filed, v, w
    <2>17. ASSUME NEW j \in ToSet(v.order), v.slot[j].dirty, Saved(d, j)
           PROVE  Saved(e, j)
        <3>1. CASE j = i
            BY <2>16, <3>1
        <3>2. CASE j # i
            <4>1. /\ j \in Slots /\ v.slot[j].sec \in H /\ InSlot(v, v.slot[j].sec)
                  /\ v.map[v.slot[j].sec] = j
                BY <1>1, InSlotIs
            <4>2. PICK t : t = v.slot[j].sec
                OBVIOUS
            <4>3. t \in H /\ v.map[t] = j /\ InSlot(v, t) /\ PlaceOf(v, t) = v.slot[j].swap
                BY <4>1, <4>2 DEF PlaceOf
            <4>4. t # u /\ t \notin P
                BY <1>1, <2>1, <2>17, <3>2, <4>3 DEF Places
            <4>5. v.slot[j].swap # s
                BY <2>5, <4>3, <4>4
            <4>6. w.slot[j] = v.slot[j]
                BY <2>9, <3>2, <4>1
            <4> QED  BY <2>9, <2>10, <2>17, <4>5, <4>6 DEF Saved, Filed, v, w
        <3> QED  BY <3>1, <3>2
    <2>18. \A j \in Slots : /\ w.slot[j].sec = v.slot[j].sec /\ w.slot[j].dirty = v.slot[j].dirty
                            /\ w.slot[j].data = v.slot[j].data
        BY <2>8, <2>9 DEF h, u, v
    <2> QED  BY <2>9, <2>7, <2>13, <2>14, <2>15, <2>16, <2>17, <2>18
             DEF Wrote, Goes, SameNumbers, v, w
<1> QED  BY <1>2, <1>3

---------------------------------------------------------------------------
(* sw_load()                                                               *)

(* What a load of a sector comes to.                                       *)
Loaded(e, d, H, P, sec, f) ==
    /\ DeviceOk(e, H, P) /\ SameNumbers(e, d) /\ SameBlocks(e, d) /\ Writes(e, d)
    /\ Keeps(e, d, Others(H, sec), P)
    /\ InSlot(e.dev, sec) /\ PlaceOf(e.dev, sec) = PlaceOf(d.dev, sec)
    /\ f = "swap" /\ sec \notin P => \A c : Has(d, sec, c) => Has(e, sec, c)
    /\ f = "dump" /\ sec \in P /\ d.dev.dump # NoFile =>
          \A c : HasIn(d, d.dev.dump, sec, c) => HasIn(e, d.dev.dump, sec, c)

Fetched(d, sec, f, i, free) ==
    [sec |-> sec, swap |-> i, dirty |-> FALSE,
     data |-> IF i # UNUSED
              THEN ReadAt(d.disk, IF f = "swap" THEN d.dev.swap ELSE d.dev.dump, i)
              ELSE IF f = "swap" THEN Junk ELSE d.dev.slot[free].data]

LEMMA TakeSlotFor ==
    ASSUME NEW d, NEW H, NEW P, DeviceOk(d, H, P), NEW i, NEW sec, NEW m, NEW order, NEW lfree,
           MayTake(d, H, i, sec, m, order, lfree), NEW f \in {"swap", "dump"},
           NEW e, e = Taken(d, m, i, Fetched(d, sec, f, d.dev.map[sec], i), order, lfree)
    PROVE  Loaded(e, d, H, P, sec, f)
<1> DEFINE h == Fetched(d, sec, f, d.dev.map[sec], i)
<1>1. /\ d.disk \in Disk /\ d.dev \in Device /\ sec \in Sectors
      /\ d.dev.map[sec] \in Place /\ d.dev.slot[i].data \in Data
    <2>1. d.disk \in Disk /\ d.dev \in Device /\ sec \in Sectors /\ i \in Slots
        BY DEF DeviceOk, State, MayTake
    <2> QED  BY <2>1, DeviceFields
<1>2. Clean(h, d, sec)
    <2>1. h.data \in Data
        BY <1>1, ReadsData, ConstantsAre DEF Fetched
    <2> QED  BY <1>1, <2>1 DEF Slot, Fetched, Clean
<1>3. /\ h.data = IF d.dev.map[sec] # UNUSED
                  THEN ReadAt(d.disk, IF f = "swap" THEN d.dev.swap ELSE d.dev.dump, d.dev.map[sec])
                  ELSE IF f = "swap" THEN Junk ELSE d.dev.slot[i].data
    BY DEF Fetched
<1> HIDE DEF h
<1>4. /\ DeviceOk(e, H, P) /\ SameNumbers(e, d) /\ Writes(e, d) /\ Keeps(e, d, Others(H, sec), P)
      /\ InSlot(e.dev, sec) /\ e.dev.map[sec] = i /\ e.dev.slot[i] = h
      /\ PlaceOf(e.dev, sec) = d.dev.map[sec]
      /\ e.dev.ssectors = d.dev.ssectors /\ e.dev.swap = d.dev.swap
      /\ SameBlocks(e, d) /\ e.disk = d.disk
    <2>1. e = Taken(d, m, i, h, order, lfree)
        BY DEF h
    <2>2. SlotTaken(e, d, H, P, i, sec, h)
        BY <1>2, <2>1, TakeSlot
    <2> QED  BY <2>2 DEF SlotTaken
<1>5. ~InSlot(d.dev, sec) /\ PlaceOf(d.dev, sec) = d.dev.map[sec]
    BY DEF PlaceOf, MayTake
<1>6. ASSUME f = "swap", NEW c, Has(d, sec, c)
      PROVE  Has(e, sec, c)
    <2>1. Filed(d, d.dev.swap, d.dev.map[sec], c)
        BY <1>5, <1>6 DEF Has
    <2>2. h.data = c
        BY <1>3, <1>6, <2>1 DEF Filed
    <2>3. Filed(e, e.dev.swap, h.swap, c)
        BY <1>2, <1>4, <2>1 DEF Filed, Clean
    <2> QED  BY <1>4, <2>2, <2>3 DEF Has
<1>7. ASSUME f = "dump", NEW c, HasIn(d, d.dev.dump, sec, c)
      PROVE  HasIn(e, d.dev.dump, sec, c)
    <2>1. Filed(d, d.dev.dump, d.dev.map[sec], c)
        BY <1>5, <1>7 DEF HasIn
    <2>2. h.data = c
        BY <1>3, <1>7, <2>1 DEF Filed
    <2>3. Filed(e, d.dev.dump, PlaceOf(e.dev, sec), c)
        BY <1>4, <2>1 DEF Filed
    <2> QED  BY <1>2, <1>4, <2>2, <2>3 DEF HasIn, Clean
<1> QED  BY <1>4, <1>5, <1>6, <1>7 DEF Loaded

LEMMA FreeLoad ==
    ASSUME NEW d, NEW H, NEW P, DeviceOk(d, H, P), d.dev.lfree # << >>,
           NEW sec \in H, ~InSlot(d.dev, sec), NEW f \in {"swap", "dump"},
           NEW e, e = LoadFrom(d, sec, f, d.dev.map[sec])
    PROVE  Loaded(e, d, H, P, sec, f)
<1> DEFINE v == d.dev
           i == Head(v.lfree)
           order == << i >> \o v.order
           m == [v.map EXCEPT ![sec] = i]
           h == Fetched(d, sec, f, v.map[sec], i)
<1>1. /\ d \in State /\ v \in Device /\ sec \in Sectors /\ Cache(v, H) /\ H \subseteq Sectors
      /\ v.order \in Seq(Slots) /\ v.lfree \in Seq(Slots) /\ v.map \in [Sectors -> Place]
    <2>1. d \in State /\ v \in Device /\ sec \in Sectors /\ Cache(v, H) /\ H \subseteq Sectors
        BY DEF DeviceOk, State
    <2> QED  BY <2>1, DeviceFields
<1>2. /\ i \in Slots /\ i \in ToSet(v.lfree) /\ Tail(v.lfree) \in Seq(Slots)
      /\ ToSet(Tail(v.lfree)) = ToSet(v.lfree) \ {i} /\ IsInjective(Tail(v.lfree))
    <2>1. IsInjective(v.lfree)
        BY <1>1 DEF Cache
    <2> QED  BY <1>1, <2>1, TailElem
<1>3. v.slot[i].sec = UNUSED /\ i \notin ToSet(v.order) /\ IsInjective(v.order)
    BY <1>1, <1>2 DEF Cache
<1>4. order \in Seq(Slots) /\ ToSet(order) = ToSet(v.order) \cup {i} /\ IsInjective(order)
    BY <1>1, <1>2, <1>3, ConsElem
<1>5. e = Taken(d, m, i, h, order, Tail(v.lfree))
    <2>1. e = [d EXCEPT !.dev.slot[i] = h, !.dev.map[sec] = i,
                        !.dev.lfree = Tail(@), !.dev.order = << i >> \o @]
        BY DEF LoadFrom, Fetched
    <2> HIDE DEF i, h
    <2>2. e = [d EXCEPT !.dev = [v EXCEPT !.slot = [v.slot EXCEPT ![i] = h], !.map = m,
                                         !.lfree = Tail(v.lfree), !.order = order]]
        BY <1>1, <2>1 DEF State, Device
    <2> HIDE DEF m, order
    <2> QED  BY <1>1, <2>2 DEF Taken, Device
<1>6. /\ m \in [Sectors -> Place]
      /\ \A t \in Sectors : m[t] = IF t = sec THEN i
                                   ELSE IF t = v.slot[i].sec THEN v.slot[i].swap
                                   ELSE v.map[t]
    <2>1. i \in Place /\ UNUSED \notin Sectors
        BY <1>2, ConstantsAre DEF Place
    <2> HIDE DEF i
    <2> QED  BY <1>1, <1>3, <2>1
<1>7. v.slot[i].sec \notin H
    BY <1>1, <1>3, ConstantsAre
<1>8. MayTake(d, H, i, sec, m, order, Tail(v.lfree))
    <2> HIDE DEF i, order, m
    <2> QED  BY <1>2, <1>4, <1>6, <1>7 DEF MayTake
<1> HIDE DEF i, order, m
<1> QED  BY <1>5, <1>8, TakeSlotFor DEF h

LEMMA GoesSelf ==
    ASSUME NEW d, NEW H, NEW P, DeviceOk(d, H, P)
    PROVE  Goes(d, d, H, P)
BY WritesSelf, KeepsSelf DEF Goes, SameNumbers, SameBlocks

LEMMA GoesOn ==
    ASSUME NEW d, NEW e, NEW g, NEW H, NEW P, DeviceOk(d, H, P), Goes(e, d, H, P), Goes(g, e, H, P)
    PROVE  Goes(g, d, H, P)
<1>1. d.dev.swap \in Descriptor
    <2>1. d.dev \in Device
        BY DEF DeviceOk, State
    <2> QED  BY <2>1, DeviceFields
<1>2. Writes(e, d) /\ Writes(g, e) /\ Keeps(e, d, H, P) /\ Keeps(g, e, H, P)
    BY DEF Goes
<1>3. Writes(g, d)
    BY <1>1, <1>2, WritesOn
<1>4. Keeps(g, d, H, P)
    BY <1>2, KeepsOn
<1> QED  BY <1>3, <1>4 DEF Goes, SameNumbers, SameBlocks

(* A load after something by which nothing is lost.                        *)
LEMMA LoadedAfter ==
    ASSUME NEW d, NEW g, NEW e, NEW H, NEW P, NEW sec \in H, NEW f, DeviceOk(d, H, P),
           Goes(g, d, H, P), ~InSlot(d.dev, sec), Loaded(e, g, H, P, sec, f)
    PROVE  Loaded(e, d, H, P, sec, f)
<1>1. d.dev.swap \in Descriptor /\ d.dev.dump \in Descriptor
    <2>1. d.dev \in Device
        BY DEF DeviceOk, State
    <2> QED  BY <2>1, DeviceFields
<1>2. /\ DeviceOk(g, H, P) /\ Writes(g, d) /\ Keeps(g, d, H, P)
      /\ SameNumbers(g, d) /\ SameBlocks(g, d)
    BY DEF Goes
<1>3. /\ DeviceOk(e, H, P) /\ SameNumbers(e, g) /\ SameBlocks(e, g) /\ Writes(e, g)
      /\ Keeps(e, g, Others(H, sec), P)
      /\ InSlot(e.dev, sec) /\ PlaceOf(e.dev, sec) = PlaceOf(g.dev, sec)
    BY DEF Loaded
<1>4. Writes(e, d)
    BY <1>1, <1>2, <1>3, WritesOn
<1>5. Keeps(e, d, Others(H, sec), P)
    <2>1. Keeps(g, d, Others(H, sec), P)
        BY <1>2 DEF Keeps, Others
    <2> QED  BY <1>3, <2>1, KeepsOn
<1>6. ~InSlot(g.dev, sec) /\ PlaceOf(g.dev, sec) = PlaceOf(d.dev, sec)
    BY <1>2 DEF Keeps, PlaceOf
<1>7. f = "swap" /\ sec \notin P => \A c : Has(d, sec, c) => Has(e, sec, c)
    BY <1>2 DEF Keeps, Loaded
<1>8. ASSUME f = "dump", sec \in P, d.dev.dump # NoFile, NEW c, HasIn(d, d.dev.dump, sec, c)
      PROVE  HasIn(e, d.dev.dump, sec, c)
    <2>1. d.dev.dump \in Files /\ g.dev.dump = d.dev.dump
        BY <1>1, <1>2, <1>8 DEF Descriptor, Writes
    <2>2. d.dev.dump # g.dev.swap
        BY <1>2, <1>8, <2>1 DEF DeviceOk
    <2>3. HasIn(g, d.dev.dump, sec, c)
        BY <1>2, <1>8, <2>1, <2>2 DEF Keeps
    <2> QED  BY <1>8, <2>1, <2>3 DEF Loaded
<1> QED  BY <1>2, <1>3, <1>4, <1>5, <1>6, <1>7, <1>8 DEF Loaded, SameNumbers, SameBlocks

(* The write before the last slot is given up.                             *)
LEMMA SaveSlot ==
    ASSUME NEW d, NEW H, NEW P, DeviceOk(d, H, P), NEW i \in ToSet(d.dev.order),
           NEW g, g = IF d.dev.slot[i].dirty THEN Write(Create(d), i) ELSE d
    PROVE  /\ Goes(g, d, H, P)
           /\ g.dev.map = d.dev.map /\ g.dev.order = d.dev.order /\ g.dev.lfree = d.dev.lfree
           /\ \A j \in Slots : g.dev.slot[j].sec = d.dev.slot[j].sec
           /\ g.dev.slot[i].dirty => Saved(g, i)
<1>1. CASE ~d.dev.slot[i].dirty
    BY <1>1, GoesSelf
<1>2. CASE d.dev.slot[i].dirty
    <2> DEFINE e == Create(d)
    <2>1. Created(e, d, H, P)
        BY CreateIs
    <2>2. /\ Goes(e, d, H, P) /\ e.dev.swap \in Files
          /\ e.dev.map = d.dev.map /\ e.dev.slot = d.dev.slot /\ e.dev.order = d.dev.order
          /\ e.dev.lfree = d.dev.lfree
        BY <2>1 DEF Created
    <2>3. DeviceOk(e, H, P) /\ i \in ToSet(e.dev.order) /\ e.dev.swap # NoFile
        BY <2>2, ConstantsAre DEF Goes
    <2>4. g = Write(e, i)
        BY <1>2
    <2> HIDE DEF e
    <2>5. Wrote(g, e, H, P, i)
        BY <2>3, <2>4, WriteIs
    <2>6. Goes(g, d, H, P)
        <3>1. Goes(g, e, H, P)
            BY <2>5 DEF Wrote
        <3> QED  BY <2>2, <3>1, GoesOn
    <2> QED  BY <2>2, <2>5, <2>6 DEF Wrote
<1> QED  BY <1>1, <1>2

LEMMA FullLoad ==
    ASSUME NEW d, NEW H, NEW P, DeviceOk(d, H, P), d.dev.lfree = << >>,
           NEW sec \in H, ~InSlot(d.dev, sec), NEW f \in {"swap", "dump"},
           NEW e, e = LoadFrom(Evict(d), sec, f, d.dev.map[sec])
    PROVE  Loaded(e, d, H, P, sec, f)
<1> DEFINE i == Last(d.dev.order)
           g == IF d.dev.slot[i].dirty THEN Write(Create(d), i) ELSE d
           v == g.dev
           rest == SubSeq(v.order, 1, Len(v.order) - 1)
           u == v.slot[i].sec
           m == [[v.map EXCEPT ![u] = v.slot[i].swap] EXCEPT ![sec] = i]
           h == Fetched(g, sec, f, v.map[sec], i)
           order == << i >> \o rest
<1>1. /\ d.dev \in Device /\ Cache(d.dev, H) /\ sec \in Sectors /\ H \subseteq Sectors
      /\ d.dev.order \in Seq(Slots)
    <2>1. d.dev \in Device /\ Cache(d.dev, H) /\ sec \in Sectors /\ H \subseteq Sectors
        BY DEF DeviceOk, State
    <2> QED  BY <2>1, DeviceFields
<1>2. d.dev.order # << >> /\ IsInjective(d.dev.order)
    <2>1. ToSet(d.dev.order) \cup ToSet(d.dev.lfree) = Slots /\ 0 \in Slots
        BY <1>1, ConstantsAre DEF Cache, Slots
    <2>2. ToSet(d.dev.lfree) = {}
        BY EmptyElem
    <2> QED  BY <1>1, <2>1, <2>2, EmptyElem DEF Cache
<1>3. /\ i \in Slots /\ i \in ToSet(d.dev.order)
      /\ SubSeq(d.dev.order, 1, Len(d.dev.order) - 1) \in Seq(Slots)
      /\ ToSet(SubSeq(d.dev.order, 1, Len(d.dev.order) - 1)) = ToSet(d.dev.order) \ {i}
      /\ IsInjective(SubSeq(d.dev.order, 1, Len(d.dev.order) - 1))
    BY <1>1, <1>2, LastElem
<1>4. /\ Goes(g, d, H, P)
      /\ v.map = d.dev.map /\ v.order = d.dev.order /\ v.lfree = d.dev.lfree
      /\ \A j \in Slots : v.slot[j].sec = d.dev.slot[j].sec
      /\ v.slot[i].dirty => Saved(g, i)
    <2> HIDE DEF i
    <2> QED  BY <1>3, SaveSlot
<1>5. e = LoadFrom(GiveUp(g, i), sec, f, v.map[sec])
    <2>1. Evict(d) = GiveUp(g, i)
        BY DEF Evict
    <2> QED  BY <1>4, <2>1
<1> HIDE DEF g, i
<1>6. DeviceOk(g, H, P) /\ g \in State /\ v \in Device /\ ~InSlot(v, sec)
    BY <1>4 DEF Goes, DeviceOk, State, Keeps
<1>7. /\ v.map \in [Sectors -> Place] /\ v.slot[i].swap \in Place /\ u \in Sectors
    <2>1. u \in H
        BY <1>1, <1>3, <1>4, InSlotIs
    <2> QED  BY <1>1, <1>3, <1>6, <2>1, DeviceFields
<1>8. e = Taken(g, m, i, h, order, << >>)
    <2>1. GiveUp(g, i) = [g EXCEPT !.dev = [v EXCEPT !.map = [v.map EXCEPT ![u] = v.slot[i].swap],
                                                     !.order = rest, !.lfree = << i >>]]
        BY <1>6 DEF GiveUp, State, Device
    <2> DEFINE k == GiveUp(g, i)
               hh == Fetched(k, sec, f, v.map[sec], i)
    <2>2. /\ k.dev = [v EXCEPT !.map = [v.map EXCEPT ![u] = v.slot[i].swap],
                               !.order = rest, !.lfree = << i >>]
          /\ k = [g EXCEPT !.dev = k.dev] /\ k.disk = g.disk
        BY <1>6, <2>1 DEF State
    <2>3. /\ k.dev.map = [v.map EXCEPT ![u] = v.slot[i].swap] /\ k.dev.order = rest
          /\ k.dev.lfree = << i >> /\ k.dev.slot = v.slot /\ k.dev.swap = v.swap
          /\ k.dev.dump = v.dump
        BY <1>6, <2>2 DEF Device
    <2>4. Head(k.dev.lfree) = i /\ Tail(k.dev.lfree) = << >>
        BY <2>3
    <2>5. hh = h
        BY <2>2, <2>3 DEF Fetched
    <2>6. e = [k EXCEPT !.dev.slot[i] = hh, !.dev.map[sec] = i,
                        !.dev.lfree = Tail(@), !.dev.order = << i >> \o @]
        BY <1>5, <2>4 DEF LoadFrom, Fetched
    <2>11. rest \in Seq(Slots) /\ << i >> \in Seq(Slots)
        BY <1>3, <1>4
    <2> HIDE DEF k, hh, h, u, rest
    <2>12. k \in State /\ k.dev \in Device
        <3>1. k.dev \in Device
            <4>1. [v.map EXCEPT ![u] = v.slot[i].swap] \in [Sectors -> Place]
                BY <1>7
            <4> QED  BY <1>6, <2>2, <2>11, <4>1 DEF Device
        <3> QED  BY <1>6, <2>2, <3>1 DEF State
    <2>7. e = [k EXCEPT !.dev = [k.dev EXCEPT !.slot = [k.dev.slot EXCEPT ![i] = hh],
                                              !.map = [k.dev.map EXCEPT ![sec] = i],
                                              !.lfree = Tail(k.dev.lfree),
                                              !.order = << i >> \o k.dev.order]]
        BY <2>6, <2>12 DEF State, Device
    <2>8. k.dev.map = [v.map EXCEPT ![u] = v.slot[i].swap] /\ hh = h /\ k.dev.slot = v.slot
        BY <2>3, <2>5
    <2>9. e = [k EXCEPT !.dev = [k.dev EXCEPT !.slot = [v.slot EXCEPT ![i] = h],
                                              !.map = m, !.lfree = << >>, !.order = order]]
        BY <2>3, <2>4, <2>7, <2>8
    <2> HIDE DEF m, order
    <2>10. [k.dev EXCEPT !.slot = [v.slot EXCEPT ![i] = h],
                         !.map = m, !.lfree = << >>, !.order = order]
             = [v EXCEPT !.map = m, !.slot = [v.slot EXCEPT ![i] = h],
                         !.order = order, !.lfree = << >>]
        BY <1>6, <2>2 DEF Device
    <2> QED  BY <1>6, <2>2, <2>9, <2>10 DEF Taken, State
<1>9. /\ m \in [Sectors -> Place]
      /\ \A t \in Sectors : m[t] = IF t = sec THEN i
                                   ELSE IF t = v.slot[i].sec THEN v.slot[i].swap
                                   ELSE v.map[t]
    <2>1. i \in Place
        BY <1>3, ConstantsAre DEF Place
    <2> QED  BY <1>1, <1>7, <2>1
<1>10. /\ order \in Seq(Slots) /\ ToSet(order) = ToSet(v.order) \cup {i} /\ IsInjective(order)
    <2>1. rest \in Seq(Slots) /\ ToSet(rest) = ToSet(v.order) \ {i} /\ IsInjective(rest)
        BY <1>3, <1>4
    <2>2. i \notin ToSet(rest) /\ i \in ToSet(v.order)
        BY <1>3, <1>4, <2>1
    <2> HIDE DEF rest
    <2>3. /\ order \in Seq(Slots) /\ ToSet(order) = ToSet(rest) \cup {i} /\ IsInjective(order)
        BY <1>3, <2>1, <2>2, ConsElem
    <2> QED  BY <2>1, <2>2, <2>3
<1>11. /\ << >> \in Seq(Slots) /\ IsInjective(<< >>) /\ ToSet(<< >>) = ToSet(v.lfree) \ {i}
    BY <1>4, EmptyElem
<1>12. MayTake(g, H, i, sec, m, order, << >>)
    <2> HIDE DEF m, order, v
    <2>1. g.dev.slot[i].sec \in H /\ g.dev.slot[i].dirty =>
             Filed(g, g.dev.swap, g.dev.slot[i].swap, g.dev.slot[i].data)
        BY <1>4 DEF Saved, v
    <2> QED  BY <1>3, <1>6, <1>9, <1>10, <1>11, <2>1 DEF MayTake, v
<1>13. Loaded(e, g, H, P, sec, f)
    <2> DEFINE none == << >>
    <2>1. MayTake(g, H, i, sec, m, order, none) /\ e = Taken(g, m, i, h, order, none)
        BY <1>8, <1>12
    <2> HIDE DEF m, order, none
    <2> QED  BY <1>6, <2>1, TakeSlotFor DEF h
<1> QED  BY <1>4, <1>13, LoadedAfter

LEMMA HitLoad ==
    ASSUME NEW d, NEW H, NEW P, DeviceOk(d, H, P), NEW sec \in H, InSlot(d.dev, sec), NEW f,
           NEW e, e = [d EXCEPT !.dev = ToFront(@, @.map[sec])]
    PROVE  Loaded(e, d, H, P, sec, f)
<1> DEFINE v == d.dev
           w == e.dev
           i == v.map[sec]
           rest == Unlinked(v.order, i)
           order == << i >> \o rest
<1>1. /\ d \in State /\ v \in Device /\ Cache(v, H) /\ Places(v, H, P)
      /\ H \subseteq Sectors /\ P \subseteq H
      /\ v.order \in Seq(Slots) /\ v.lfree \in Seq(Slots) /\ IsInjective(v.order)
    <2>1. /\ d \in State /\ v \in Device /\ Cache(v, H) /\ H \subseteq Sectors
          /\ P \subseteq H /\ Places(v, H, P)
        BY DEF DeviceOk, State
    <2>2. IsInjective(v.order)
        BY <2>1 DEF Cache
    <2> QED  BY <2>1, <2>2, DeviceFields
<1>2. i \in ToSet(v.order) /\ i \in Slots
    <2>1. i \in Slots
        BY DEF InSlot
    <2> QED  BY <1>1, <2>1, InSlotIs
<1>3. rest \in Seq(Slots) /\ ToSet(rest) = ToSet(v.order) \ {i} /\ IsInjective(rest)
    <2> HIDE DEF i
    <2> QED  BY <1>1, <1>2, UnlinkedElem
<1>4. order \in Seq(Slots) /\ ToSet(order) = ToSet(v.order) /\ IsInjective(order)
    <2> HIDE DEF rest, i
    <2>1. i \notin ToSet(rest)
        BY <1>3
    <2>2. /\ order \in Seq(Slots) /\ ToSet(order) = ToSet(rest) \cup {i} /\ IsInjective(order)
        BY <1>2, <1>3, <2>1, ConsElem
    <2> QED  BY <1>2, <1>3, <2>2
<1>5. /\ w = [v EXCEPT !.order = order] /\ e = [d EXCEPT !.dev = w]
      /\ SameBlocks(e, d) /\ e.disk = d.disk
    BY <1>1 DEF ToFront, State, Device, SameBlocks
<1> HIDE DEF order, w, i, v
<1>6. /\ w \in Device /\ w.order = order /\ w.map = v.map /\ w.slot = v.slot
      /\ w.lfree = v.lfree /\ w.nsectors = v.nsectors /\ w.mfree = v.mfree
      /\ w.sbarrier = v.sbarrier /\ w.swapping = v.swapping /\ w.sfree = v.sfree
      /\ w.ssectors = v.ssectors /\ w.swap = v.swap /\ w.dump = v.dump
    BY <1>1, <1>4, <1>5 DEF Device
<1>7. \A t : SameView(w, v, t)
    BY <1>6 DEF SameView, InSlot
<1>8. Cache(w, H)
    BY <1>1, <1>4, <1>6 DEF Cache
<1>9. Places(w, H, P)
    <2>1. \A t \in H : PlaceOf(w, t) = PlaceOf(v, t)
        BY <1>7, ViewPlace
    <2>2. \A t \in P : InSlot(w, t) => ~w.slot[w.map[t]].dirty
        BY <1>1, <1>6, <1>7 DEF Places, SameView
    <2>3. /\ P \subseteq H /\ Places(v, H, P)
          /\ w.sfree = v.sfree /\ w.sbarrier = v.sbarrier
          /\ w.ssectors = v.ssectors /\ w.swap = v.swap
        BY <1>1, <1>6
    <2> QED  BY ONLY <2>1, <2>2, <2>3, PlacesKept
<1>10. DeviceOk(e, H, P)
    <2>1. e \in State
        BY <1>1, <1>5, <1>6 DEF State
    <2> QED  BY <1>1, <1>6, <1>8, <1>9, <2>1 DEF DeviceOk, v, w
<1>11. Writes(e, d) /\ SameNumbers(e, d)
    BY <1>5, <1>6 DEF Writes, SameNumbers, v, w
<1>12. \A t : \A c : Has(d, t, c) => Has(e, t, c)
    BY <1>5, <1>6, <1>7, ViewHas DEF v, w
<1>13. \A f1, t, c : HasIn(d, f1, t, c) => HasIn(e, f1, t, c)
    BY <1>5, <1>6 DEF HasIn, Filed, PlaceOf, InSlot, v, w
<1>14. Keeps(e, d, Others(H, sec), P)
    BY <1>6, <1>7, <1>12, <1>13 DEF Keeps, SameView, v, w
<1>15. InSlot(w, sec) /\ PlaceOf(w, sec) = PlaceOf(v, sec)
    BY <1>7, ViewPlace DEF SameView, v
<1> QED  BY <1>5, <1>10, <1>11, <1>12, <1>13, <1>14, <1>15 DEF Loaded, v, w

LEMMA LoadIs ==
    ASSUME NEW d, NEW H, NEW P, DeviceOk(d, H, P), NEW sec \in H, NEW f \in {"swap", "dump"},
           NEW e, e = Load(d, sec, f)
    PROVE  Loaded(e, d, H, P, sec, f)
<1>1. CASE InSlot(d.dev, sec)
    <2>1. e = [d EXCEPT !.dev = ToFront(@, @.map[sec])]
        BY <1>1 DEF Load
    <2> QED  BY <1>1, <2>1, HitLoad
<1>2. CASE ~InSlot(d.dev, sec) /\ d.dev.lfree = << >>
    <2>1. e = LoadFrom(Evict(d), sec, f, d.dev.map[sec])
        BY <1>2 DEF Load
    <2> QED  BY <1>2, <2>1, FullLoad
<1>3. CASE ~InSlot(d.dev, sec) /\ d.dev.lfree # << >>
    <2>1. e = LoadFrom(d, sec, f, d.dev.map[sec])
        BY <1>3 DEF Load
    <2> QED  BY <1>3, <2>1, FreeLoad
<1> QED  BY <1>1, <1>2, <1>3

---------------------------------------------------------------------------
(* What blocks do with a sector in its slot.                               *)

(* Another memory on the same device.                                      *)
LEMMA SameDevice ==
    ASSUME NEW d, NEW e \in State, NEW H, NEW P, DeviceOk(d, H, P),
           e.dev = d.dev, e.disk = d.disk
    PROVE  /\ DeviceOk(e, H, P) /\ SameNumbers(e, d) /\ Writes(e, d)
           /\ \A S, Q : Keeps(e, d, S, Q)
           /\ \A t, c : Has(e, t, c) <=> Has(d, t, c)
           /\ \A f, t, c : HasIn(e, f, t, c) <=> HasIn(d, f, t, c)
<1>1. DeviceOk(e, H, P)
    BY DEF DeviceOk
<1>2. \A t, c : Has(e, t, c) <=> Has(d, t, c)
    BY DEF Has, Filed
<1>3. \A f, t, c : HasIn(e, f, t, c) <=> HasIn(d, f, t, c)
    BY DEF HasIn, Filed
<1>4. SameNumbers(e, d) /\ Writes(e, d) /\ \A S, Q : Keeps(e, d, S, Q)
    BY <1>2, <1>3 DEF SameNumbers, Writes, Keeps
<1> QED  BY <1>1, <1>2, <1>3, <1>4

(* What a change of one sector comes to: of the other sectors nothing is   *)
(* lost.                                                                   *)
Changed(e, d, H, P, Q, sec) ==
    /\ DeviceOk(e, H, Q) /\ SameNumbers(e, d) /\ SameBlocks(e, d)
    /\ Writes(e, d) /\ e.disk = d.disk /\ e.dev.swap = d.dev.swap
    /\ Keeps(e, d, Others(H, sec), P)

SlotChanged(e, d, H, P, Q, sec, i, h) ==
    /\ Changed(e, d, H, P, Q, sec)
    /\ e.dev.map = d.dev.map /\ e.dev.slot[i] = h /\ InSlot(e.dev, sec)

(* A slot changes, but for the sector it is for.                           *)
LEMMA SlotChanges ==
    ASSUME NEW d, NEW H, NEW P, DeviceOk(d, H, P), NEW sec \in H, InSlot(d.dev, sec),
           NEW i, i = d.dev.map[sec], NEW h \in Slot, h.sec = sec,
           NEW e, e = [d EXCEPT !.dev.slot[i] = h],
           NEW Q, Q \subseteq P, \A t \in P : t # sec => t \in Q,
           sec \notin Q, (PlaceOf(d.dev, sec) = h.swap /\ sec \notin P) \/ h.swap = UNUSED
    PROVE  SlotChanged(e, d, H, P, Q, sec, i, h)
<1> DEFINE v == d.dev
           w == e.dev
<1>1. /\ d \in State /\ v \in Device /\ Cache(v, H) /\ Places(v, H, P)
      /\ H \subseteq Sectors /\ P \subseteq H
      /\ i \in Slots /\ v.slot[i].sec = sec
      /\ v.sfree \in Seq(Nat) /\ v.ssectors \in Nat
    <2>1. /\ d \in State /\ v \in Device /\ Cache(v, H) /\ H \subseteq Sectors
          /\ P \subseteq H /\ Places(v, H, P)
        BY DEF DeviceOk, State
    <2>2. i \in Slots /\ v.slot[i].sec = sec
        BY DEF InSlot
    <2> QED  BY <2>1, <2>2, DeviceFields
<1>2. w = Reslot(v, i, h, v.sfree, v.ssectors) /\ e = [d EXCEPT !.dev = w] /\ e.disk = d.disk
      /\ SameBlocks(e, d)
    BY <1>1 DEF Reslot, State, Device, SameBlocks
<1> HIDE DEF v, w
<1>3. /\ w \in Device /\ Cache(w, H)
      /\ w.map = v.map /\ w.order = v.order /\ w.lfree = v.lfree /\ w.dump = v.dump
      /\ w.nsectors = v.nsectors /\ w.mfree = v.mfree /\ w.sbarrier = v.sbarrier
      /\ w.swapping = v.swapping /\ w.swap = v.swap /\ w.sfree = v.sfree
      /\ w.ssectors = v.ssectors
      /\ w.slot[i] = h /\ \A j \in Slots : j # i => w.slot[j] = v.slot[j]
      /\ \A t : InSlot(w, t) <=> InSlot(v, t)
      /\ \A t : t # h.sec => SameView(w, v, t)
    <2>1. /\ v \in Device /\ H \subseteq Sectors /\ Cache(v, H) /\ i \in Slots /\ h \in Slot
          /\ h.sec = v.slot[i].sec /\ h.sec \in H /\ v.sfree \in Seq(Nat) /\ v.ssectors \in Nat
          /\ w = Reslot(v, i, h, v.sfree, v.ssectors)
        BY <1>1, <1>2
    <2> QED  BY ONLY <2>1, SetSlot
<1>4. InSlot(w, sec) /\ v.map[sec] = i /\ w.map[sec] = i /\ PlaceOf(w, sec) = h.swap
    BY <1>3 DEF PlaceOf, v
<1>5. \A t \in H : t # sec => PlaceOf(w, t) = PlaceOf(v, t)
    BY <1>3, ViewPlace
<1>6. Places(w, H, Q)
    <2>1. \A t \in H \ Q : t # sec => t \in H \ P
        OBVIOUS
    <2>2. h.swap # UNUSED => sec \in H \ P /\ PlaceOf(v, sec) = h.swap
        BY DEF v
    <2>3. \A s, t \in H \ Q : PlaceOf(w, s) = PlaceOf(w, t) /\ PlaceOf(w, s) # UNUSED => s = t
        BY <1>1, <1>4, <1>5, <2>1, <2>2 DEF Places
    <2>4. \A t \in H \ Q : PlaceOf(w, t) < w.ssectors /\ PlaceOf(w, t) \notin ToSet(w.sfree)
        <3> TAKE t \in H \ Q
        <3>1. CASE t # sec \/ h.swap # UNUSED
            BY <1>1, <1>3, <1>4, <1>5, <2>1, <2>2, <3>1 DEF Places
        <3>2. CASE t = sec /\ h.swap = UNUSED
            <4>1. PlaceOf(w, t) = -1
                BY <1>4, <3>2 DEF UNUSED
            <4>2. \A x \in ToSet(v.sfree) : x \in Nat
                BY <1>1, ToSetIs
            <4> QED  BY <1>1, <1>3, <4>1, <4>2
        <3> QED  BY <3>1, <3>2
    <2>5. \A t \in Q : PlaceOf(w, t) < MaxIndex /\ (InSlot(w, t) => ~w.slot[w.map[t]].dirty)
        <3> TAKE t \in Q
        <3>1. t # sec /\ t \in P /\ t \in H
            BY <1>1
        <3>2. SameView(w, v, t) /\ PlaceOf(w, t) = PlaceOf(v, t)
            BY <1>3, <1>5, <3>1
        <3> QED  BY <1>1, <3>1, <3>2 DEF Places, SameView
    <2> QED  BY <1>1, <1>3, <2>3, <2>4, <2>5 DEF Places
<1>7. DeviceOk(e, H, Q)
    <2>1. e \in State
        BY <1>1, <1>2, <1>3 DEF State
    <2>2. Q \subseteq H
        BY <1>1
    <2> QED  BY <1>1, <1>3, <1>6, <2>1, <2>2 DEF DeviceOk, v, w
<1>8. Writes(e, d) /\ SameNumbers(e, d)
    BY <1>2, <1>3 DEF Writes, SameNumbers, v, w
<1>9. Keeps(e, d, Others(H, sec), P)
    <2> SUFFICES ASSUME NEW t \in H, t # sec
                 PROVE  /\ \A c : Has(d, t, c) => Has(e, t, c)
                        /\ \A g \in Files : \A c : HasIn(d, g, t, c) => HasIn(e, g, t, c)
                        /\ ~InSlot(v, t) => ~InSlot(w, t) /\ w.map[t] = v.map[t]
        BY DEF Keeps, Others, v, w
    <2>1. SameView(e.dev, d.dev, t) /\ e.dev.swap = d.dev.swap /\ e.disk = d.disk
        BY <1>2, <1>3 DEF v, w
    <2>2. \A c : Has(d, t, c) => Has(e, t, c)
        BY <2>1, ViewHas
    <2>3. \A g \in Files : \A c : HasIn(d, g, t, c) => HasIn(e, g, t, c)
        BY <2>1, ViewHasIn
    <2> QED  BY <2>1, <2>2, <2>3 DEF SameView, v, w
<1> QED  BY <1>2, <1>3, <1>4, <1>7, <1>8, <1>9 DEF SlotChanged, Changed, v, w

(* sw_writev(): the sector's slot is given other data.                     *)
LEMMA PutIs ==
    ASSUME NEW d, NEW H, NEW P, DeviceOk(d, H, P), NEW sec \in H, sec \notin P,
           InSlot(d.dev, sec), NEW data \in Data, NEW e, e = Put(d, d.dev.map[sec], data)
    PROVE  Changed(e, d, H, P, P, sec) /\ Has(e, sec, data) /\ InSlot(e.dev, sec)
<1> DEFINE i == d.dev.map[sec]
           h == [d.dev.slot[i] EXCEPT !.data = data, !.dirty = TRUE]
<1>1. /\ d \in State /\ d.dev \in Device /\ i \in Slots /\ d.dev.slot[i].sec = sec
      /\ d.dev.slot[i] \in Slot
    <2>1. /\ d \in State /\ d.dev \in Device /\ i \in Slots /\ d.dev.slot[i].sec = sec
        BY DEF DeviceOk, State, InSlot
    <2>2. d.dev.slot \in [Slots -> Slot]
        BY <2>1, DeviceFields
    <2> QED  BY <2>1, <2>2
<1> HIDE DEF i
<1>2. /\ h \in Slot /\ h.sec = sec /\ h.swap = d.dev.slot[i].swap /\ h.data = data /\ h.dirty
    BY <1>1 DEF Slot
<1>3. e = [d EXCEPT !.dev.slot[i] = h]
    <2>1. e = [d EXCEPT !.dev.slot[i].data = data, !.dev.slot[i].dirty = TRUE]
        BY DEF Put, i
    <2>2. \A f \in [Slots -> Slot] :
             [f EXCEPT ![i].data = data, ![i].dirty = TRUE]
                = [f EXCEPT ![i] = [f[i] EXCEPT !.data = data, !.dirty = TRUE]]
        BY <1>1
    <2>3. d.dev.slot \in [Slots -> Slot]
        BY <1>1, DeviceFields
    <2>4. e = [d EXCEPT !.dev.slot = [d.dev.slot EXCEPT ![i].data = data, ![i].dirty = TRUE]]
        BY <1>1, <2>1 DEF State, Device
    <2> QED  BY <2>2, <2>3, <2>4
<1>4. PlaceOf(d.dev, sec) = h.swap
    BY <1>2 DEF PlaceOf, i
<1> HIDE DEF h
<1>5. SlotChanged(e, d, H, P, P, sec, i, h)
    <2>1. /\ i = d.dev.map[sec] /\ h \in Slot /\ h.sec = sec /\ P \subseteq P
          /\ \A t \in P : t # sec => t \in P
          /\ (PlaceOf(d.dev, sec) = h.swap /\ sec \notin P) \/ h.swap = UNUSED
        BY <1>2, <1>4 DEF i
    <2> QED  BY <1>3, <2>1, SlotChanges
<1>6. Has(e, sec, data)
    BY <1>2, <1>5 DEF Has, SlotChanged, i
<1> QED  BY <1>5, <1>6 DEF SlotChanged

(* A sector of the snapshot, in its slot, becomes one without a place.     *)
LEMMA ReleaseIs ==
    ASSUME NEW d, NEW H, NEW P, DeviceOk(d, H, P), NEW sec \in H, sec \in P,
           InSlot(d.dev, sec), NEW e, e = [d EXCEPT !.dev.slot[d.dev.map[sec]].swap = UNUSED]
    PROVE  Changed(e, d, H, P, Others(P, sec), sec)
<1> DEFINE i == d.dev.map[sec]
           h == [d.dev.slot[i] EXCEPT !.swap = UNUSED]
           Q == Others(P, sec)
<1>1. /\ d \in State /\ d.dev \in Device /\ i \in Slots /\ d.dev.slot[i].sec = sec
      /\ d.dev.slot[i] \in Slot
    <2>1. /\ d \in State /\ d.dev \in Device /\ i \in Slots /\ d.dev.slot[i].sec = sec
        BY DEF DeviceOk, State, InSlot
    <2>2. d.dev.slot \in [Slots -> Slot]
        BY <2>1, DeviceFields
    <2> QED  BY <2>1, <2>2
<1> HIDE DEF i
<1>2. /\ h \in Slot /\ h.sec = sec /\ h.swap = UNUSED
    BY <1>1 DEF Slot, Place
<1>3. e = [d EXCEPT !.dev.slot[i] = h]
    BY <1>1 DEF State, Device, i
<1> HIDE DEF h
<1>4. Q \subseteq P /\ sec \notin Q /\ \A t \in P : t # sec => t \in Q
    BY DEF Others
<1> HIDE DEF Q
<1>5. SlotChanged(e, d, H, P, Q, sec, i, h)
    <2>1. i = d.dev.map[sec]
        BY DEF i
    <2> QED  BY <1>2, <1>3, <1>4, <2>1, SlotChanges
<1> QED  BY <1>5 DEF Q, SlotChanged

MayFree(v, sec, P, free) ==
    \/ free = v.sfree
    \/ /\ sec \notin P /\ PlaceOf(v, sec) \in Nat /\ PlaceOf(v, sec) >= v.sbarrier
       /\ free = << PlaceOf(v, sec) >> \o v.sfree

(* A sector loses its place, which may become free.                        *)
LEMMA Unplaced ==
    ASSUME NEW v \in Device, NEW w \in Device, NEW H, NEW P, P \subseteq H, Places(v, H, P),
           NEW sec \in H, PlaceOf(w, sec) = UNUSED, H \subseteq Sectors,
           \A t \in H : t # sec => SameView(w, v, t), MayFree(v, sec, P, w.sfree),
           w.sbarrier = v.sbarrier, w.ssectors = v.ssectors, w.swap = v.swap,
           NEW Q, Q \subseteq P, \A t \in P : t # sec => t \in Q, sec \notin Q
    PROVE  Places(w, H, Q)
<1>1. \A t \in H : t # sec => PlaceOf(w, t) = PlaceOf(v, t)
    BY ViewPlace
<1>2. \A t \in H \ Q : t # sec => t \in H \ P
    OBVIOUS
<1>3. v.sfree \in Seq(Nat) /\ v.ssectors \in Nat /\ v.sbarrier \in Nat
    BY DeviceFields
<1>4. \A s, t \in H \ Q : PlaceOf(w, s) = PlaceOf(w, t) /\ PlaceOf(w, s) # UNUSED => s = t
    BY <1>1, <1>2 DEF Places
<1>5. /\ IsInjective(w.sfree) /\ ToSet(w.sfree) \subseteq v.sbarrier .. v.ssectors - 1
      /\ \A t \in H \ P : t # sec => PlaceOf(v, t) \notin ToSet(w.sfree)
    <2>1. CASE w.sfree = v.sfree
        BY <2>1 DEF Places
    <2>2. CASE w.sfree # v.sfree
        <3> DEFINE s == PlaceOf(v, sec)
        <3>1. sec \in H \ P /\ s \in Nat /\ s >= v.sbarrier /\ w.sfree = << s >> \o v.sfree
            BY <2>2 DEF MayFree
        <3>2. /\ s < v.ssectors /\ s \notin ToSet(v.sfree) /\ IsInjective(v.sfree)
              /\ ToSet(v.sfree) \subseteq v.sbarrier .. v.ssectors - 1
            BY <3>1 DEF Places
        <3>3. \A t \in H \ P : t # sec => PlaceOf(v, t) # s /\ PlaceOf(v, t) \notin ToSet(v.sfree)
            BY <3>1, ConstantsAre DEF Places
        <3> HIDE DEF s
        <3>4. ToSet(w.sfree) = ToSet(v.sfree) \cup {s} /\ IsInjective(w.sfree)
            BY <1>3, <3>1, <3>2, ConsElem
        <3>5. s \in v.sbarrier .. v.ssectors - 1
            BY <1>3, <3>1, <3>2
        <3> QED  BY <3>2, <3>3, <3>4, <3>5
    <2> QED  BY <2>1, <2>2
<1>6. \A t \in H \ Q : PlaceOf(w, t) < w.ssectors /\ PlaceOf(w, t) \notin ToSet(w.sfree)
    <2> TAKE t \in H \ Q
    <2>1. CASE t # sec
        BY <1>1, <1>2, <1>5, <2>1 DEF Places
    <2>2. CASE t = sec
        <3>1. UNUSED < v.ssectors /\ UNUSED \notin v.sbarrier .. v.ssectors - 1
            BY <1>3 DEF UNUSED
        <3> QED  BY <1>5, <2>2, <3>1
    <2> QED  BY <2>1, <2>2
<1>7. \A t \in Q : PlaceOf(w, t) < MaxIndex /\ (InSlot(w, t) => ~w.slot[w.map[t]].dirty)
    <2> TAKE t \in Q
    <2>1. t # sec /\ t \in P /\ t \in H
        OBVIOUS
    <2>2. SameView(w, v, t) /\ PlaceOf(w, t) = PlaceOf(v, t)
        BY <1>1, <2>1
    <2> QED  BY <2>1, <2>2 DEF Places, SameView
<1> QED  BY <1>4, <1>5, <1>6, <1>7 DEF Places

(* A sector that is in no slot is nowhere any more.                        *)
Unmap(v, sec, free) == [v EXCEPT !.map[sec] = UNUSED, !.sfree = free]

LEMMA UnmapIs ==
    ASSUME NEW v \in Device, NEW H, H \subseteq Sectors, Cache(v, H), NEW sec \in H,
           ~InSlot(v, sec), NEW free \in Seq(Nat), NEW w, w = Unmap(v, sec, free)
    PROVE  /\ w \in Device /\ Cache(w, H) /\ PlaceOf(w, sec) = UNUSED
           /\ w.order = v.order /\ w.lfree = v.lfree /\ w.dump = v.dump
           /\ w.nsectors = v.nsectors /\ w.mfree = v.mfree /\ w.sbarrier = v.sbarrier
           /\ w.swapping = v.swapping /\ w.swap = v.swap /\ w.sfree = free
           /\ w.ssectors = v.ssectors
           /\ \A t \in H : t # sec => SameView(w, v, t)
           /\ ~InSlot(w, sec)
<1>1. /\ w.order = v.order /\ w.lfree = v.lfree /\ w.dump = v.dump
      /\ w.nsectors = v.nsectors /\ w.mfree = v.mfree /\ w.sbarrier = v.sbarrier
      /\ w.swapping = v.swapping /\ w.swap = v.swap /\ w.sfree = free
      /\ w.ssectors = v.ssectors /\ w.slot = v.slot /\ w.map = [v.map EXCEPT ![sec] = UNUSED]
    BY DEF Device, Unmap
<1>2. /\ v.map \in [Sectors -> Place] /\ UNUSED \notin Slots /\ sec \in Sectors
      /\ UNUSED \in Place /\ UNUSED \notin Sectors
    BY DeviceFields, ConstantsAre DEF Place
<1>3. w \in Device
    <2>1. [v.map EXCEPT ![sec] = UNUSED] \in [Sectors -> Place]
        BY <1>2
    <2> QED  BY <1>2, <2>1 DEF Device, Unmap
<1>4. w.map[sec] = UNUSED /\ \A t \in Sectors : t # sec => w.map[t] = v.map[t]
    BY <1>1, <1>2
<1>5. ~InSlot(w, sec) /\ PlaceOf(w, sec) = UNUSED
    BY <1>2, <1>4 DEF InSlot, PlaceOf
<1>6. \A t \in H : t # sec => SameView(w, v, t)
    BY <1>1, <1>4 DEF SameView, InSlot
<1>7. Cache(w, H)
    <2>1. \A i \in ToSet(v.order) : w.slot[i].sec \in H /\ w.map[w.slot[i].sec] = i
        <3> TAKE i \in ToSet(v.order)
        <3>1. /\ v.slot[i].sec \in H /\ InSlot(v, v.slot[i].sec) /\ v.map[v.slot[i].sec] = i
            BY InSlotIs
        <3>2. v.slot[i].sec # sec
            BY <3>1
        <3> QED  BY <1>1, <1>4, <3>1, <3>2
    <2> QED  BY <1>1, <1>4, <2>1 DEF Cache
<1> HIDE DEF Device
<1> QED  BY <1>1, <1>3, <1>5, <1>6, <1>7

SameFiles(w, v) ==
    /\ w.nsectors = v.nsectors /\ w.mfree = v.mfree /\ w.sbarrier = v.sbarrier
    /\ w.swapping = v.swapping /\ w.swap = v.swap /\ w.dump = v.dump

(* A device with other tables, but the same for the other sectors.         *)
LEMMA ChangedBy ==
    ASSUME NEW d, NEW H, NEW P, DeviceOk(d, H, P), NEW sec, NEW w \in Device, Cache(w, H),
           NEW Q, Q \subseteq P, Places(w, H, Q), SameFiles(w, d.dev),
           \A t \in H : t # sec => SameView(w, d.dev, t), NEW e, e = [d EXCEPT !.dev = w]
    PROVE  Changed(e, d, H, P, Q, sec) /\ e.dev = w
<1>1. /\ d \in State /\ H \subseteq Sectors /\ P \subseteq H
      /\ d.dev.dump \in {NoFile, names.snapshot, names.old}
      /\ d.dev.dump # NoFile => d.dev.swap # d.dev.dump
    BY DEF DeviceOk
<1>2. e.dev = w /\ e.disk = d.disk /\ SameBlocks(e, d) /\ e \in State
    BY <1>1 DEF State, SameBlocks
<1>3. DeviceOk(e, H, Q)
    BY <1>1, <1>2 DEF DeviceOk, SameFiles
<1>4. Writes(e, d) /\ SameNumbers(e, d) /\ e.dev.swap = d.dev.swap
    BY <1>2 DEF Writes, SameNumbers, SameFiles
<1>5. Keeps(e, d, Others(H, sec), P)
    <2> SUFFICES ASSUME NEW t \in H, t # sec
                 PROVE  /\ \A c : Has(d, t, c) => Has(e, t, c)
                        /\ \A g \in Files : \A c : HasIn(d, g, t, c) => HasIn(e, g, t, c)
                        /\ ~InSlot(d.dev, t) => ~InSlot(e.dev, t) /\ e.dev.map[t] = d.dev.map[t]
        BY DEF Keeps, Others
    <2>1. SameView(e.dev, d.dev, t) /\ e.dev.swap = d.dev.swap /\ e.disk = d.disk
        BY <1>2, <1>4
    <2>2. \A c : Has(d, t, c) => Has(e, t, c)
        BY <2>1, ViewHas
    <2>3. \A g \in Files : \A c : HasIn(d, g, t, c) => HasIn(e, g, t, c)
        BY <2>1, ViewHasIn
    <2> QED  BY <2>1, <2>2, <2>3 DEF SameView
<1> QED  BY <1>2, <1>3, <1>4, <1>5 DEF Changed

LEMMA MapChanges ==
    ASSUME NEW d, NEW H, NEW P, DeviceOk(d, H, P), NEW sec \in H, ~InSlot(d.dev, sec),
           NEW free \in Seq(Nat), MayFree(d.dev, sec, P, free),
           NEW e, e = [d EXCEPT !.dev = Unmap(d.dev, sec, free)],
           NEW Q, Q \subseteq P, \A t \in P : t # sec => t \in Q, sec \notin Q
    PROVE  Changed(e, d, H, P, Q, sec) /\ ~InSlot(e.dev, sec)
<1> DEFINE v == d.dev
           w == e.dev
<1>1. /\ d \in State /\ v \in Device /\ Cache(v, H) /\ Places(v, H, P)
      /\ H \subseteq Sectors /\ P \subseteq H
    BY DEF DeviceOk, State
<1>2. w = Unmap(v, sec, free) /\ e = [d EXCEPT !.dev = w] /\ e.disk = d.disk /\ SameBlocks(e, d)
    BY <1>1 DEF State, SameBlocks
<1> HIDE DEF v, w
<1>3. /\ w \in Device /\ Cache(w, H) /\ PlaceOf(w, sec) = UNUSED
      /\ w.order = v.order /\ w.lfree = v.lfree /\ w.dump = v.dump
      /\ w.nsectors = v.nsectors /\ w.mfree = v.mfree /\ w.sbarrier = v.sbarrier
      /\ w.swapping = v.swapping /\ w.swap = v.swap /\ w.sfree = free
      /\ w.ssectors = v.ssectors
      /\ \A t \in H : t # sec => SameView(w, v, t)
      /\ ~InSlot(w, sec)
    <2>1. /\ v \in Device /\ H \subseteq Sectors /\ Cache(v, H) /\ sec \in H
          /\ ~InSlot(v, sec) /\ free \in Seq(Nat) /\ w = Unmap(v, sec, free)
        BY <1>1, <1>2 DEF v
    <2> QED  BY ONLY <2>1, UnmapIs
<1>4. Places(w, H, Q)
    <2>1. /\ v \in Device /\ w \in Device /\ P \subseteq H /\ Places(v, H, P) /\ sec \in H
          /\ PlaceOf(w, sec) = UNUSED /\ H \subseteq Sectors
          /\ \A t \in H : t # sec => SameView(w, v, t)
          /\ MayFree(v, sec, P, w.sfree)
          /\ w.sbarrier = v.sbarrier /\ w.ssectors = v.ssectors /\ w.swap = v.swap
          /\ Q \subseteq P /\ (\A t \in P : t # sec => t \in Q) /\ sec \notin Q
        BY <1>1, <1>3 DEF v
    <2> QED  BY ONLY <2>1, Unplaced
<1>5. Changed(e, d, H, P, Q, sec)
    <2>1. w \in Device /\ Cache(w, H) /\ Q \subseteq P /\ Places(w, H, Q)
          /\ SameFiles(w, d.dev) /\ (\A t \in H : t # sec => SameView(w, d.dev, t))
          /\ e = [d EXCEPT !.dev = w]
        BY <1>2, <1>3, <1>4 DEF SameFiles, v
    <2> QED  BY <2>1, ChangedBy
<1> QED  BY <1>3, <1>5 DEF w

(* sw_wipev()                                                              *)
LEMMA WipeIs ==
    ASSUME NEW d, NEW H, NEW P, DeviceOk(d, H, P), NEW sec \in H, sec \notin P,
           NEW e, e = [d EXCEPT !.dev = Wipe(d.dev, sec)]
    PROVE  Changed(e, d, H, P, P, sec)
<1> DEFINE v == d.dev
           i == v.map[sec]
           s == PlaceOf(v, sec)
           free == IF s # UNUSED /\ s >= v.sbarrier THEN << s >> \o v.sfree ELSE v.sfree
<1>1. /\ d \in State /\ v \in Device /\ Cache(v, H) /\ Places(v, H, P)
      /\ H \subseteq Sectors /\ P \subseteq H /\ sec \in Sectors
    BY DEF DeviceOk, State
<1>2. s \in Place /\ v.sfree \in Seq(Nat) /\ v.ssectors \in Nat
    BY <1>1, DeviceFields DEF PlaceOf, InSlot
<1>3. free \in Seq(Nat) /\ MayFree(v, sec, P, free)
    <2> HIDE DEF v
    <2>1. CASE s # UNUSED /\ s >= v.sbarrier
        <3>1. s \in Nat /\ free = << s >> \o v.sfree
            BY <1>2, <2>1 DEF Place
        <3>2. << s >> \o v.sfree \in Seq(Nat)
            BY <1>2, <3>1, ConsElem
        <3> QED  BY <2>1, <3>1, <3>2 DEF MayFree
    <2>2. CASE ~(s # UNUSED /\ s >= v.sbarrier)
        BY <1>2, <2>2 DEF MayFree
    <2> QED  BY <2>1, <2>2
<1>4. CASE ~InSlot(v, sec)
    <2>1. Wipe(v, sec) = Unmap(v, sec, free)
        <3>1. s = i
            BY <1>4 DEF PlaceOf
        <3> QED  BY <1>1, <1>4, <3>1 DEF Wipe, WipeFrom, Unmap, Device
    <2>2. e = [d EXCEPT !.dev = Unmap(d.dev, sec, free)]
        BY <2>1
    <2> HIDE DEF free
    <2>3. P \subseteq P /\ \A t \in P : t # sec => t \in P
        OBVIOUS
    <2> QED  BY <1>3, <1>4, <2>2, <2>3, MapChanges
<1>5. CASE InSlot(v, sec)
    <2> DEFINE h == [v.slot[i] EXCEPT !.swap = UNUSED]
               w == Wipe(v, sec)
    <2>1. i \in Slots /\ v.slot[i].sec = sec /\ s = v.slot[i].swap /\ v.slot \in [Slots -> Slot]
        <3>1. i \in Slots /\ v.slot[i].sec = sec /\ s = v.slot[i].swap
            BY <1>5 DEF InSlot, PlaceOf
        <3> QED  BY <1>1, <3>1, DeviceFields
    <2>2. h \in Slot /\ h.sec = sec /\ h.swap = UNUSED
        <3>1. v.slot[i] \in Slot
            BY <2>1
        <3> QED  BY <2>1, <3>1 DEF Slot, Place
    <2>3. w = Reslot(v, i, h, free, v.ssectors)
        <3>1. w = [v EXCEPT !.slot[i].swap = UNUSED, !.sfree = free]
            BY <1>1, <1>5, <2>1 DEF Wipe, WipeFrom, Device
        <3>2. \A f \in [Slots -> Slot] :
                 [f EXCEPT ![i].swap = UNUSED] = [f EXCEPT ![i] = [f[i] EXCEPT !.swap = UNUSED]]
            BY <2>1
        <3> HIDE DEF free
        <3> QED  BY <1>1, <2>1, <3>1, <3>2 DEF Reslot, Device
    <2> HIDE DEF h, free, w, v
    <2>4. /\ w \in Device /\ Cache(w, H)
          /\ w.map = v.map /\ w.order = v.order /\ w.lfree = v.lfree /\ w.dump = v.dump
          /\ w.nsectors = v.nsectors /\ w.mfree = v.mfree /\ w.sbarrier = v.sbarrier
          /\ w.swapping = v.swapping /\ w.swap = v.swap /\ w.sfree = free
          /\ w.ssectors = v.ssectors
          /\ w.slot[i] = h /\ \A j \in Slots : j # i => w.slot[j] = v.slot[j]
          /\ \A t : InSlot(w, t) <=> InSlot(v, t)
          /\ \A t : t # h.sec => SameView(w, v, t)
        <3>1. /\ v \in Device /\ H \subseteq Sectors /\ Cache(v, H) /\ i \in Slots /\ h \in Slot
              /\ h.sec = v.slot[i].sec /\ h.sec \in H /\ free \in Seq(Nat) /\ v.ssectors \in Nat
              /\ w = Reslot(v, i, h, free, v.ssectors)
            BY <1>1, <1>2, <1>3, <2>1, <2>2, <2>3
        <3> HIDE DEF i, s
        <3> QED  BY ONLY <3>1, SetSlot
    <2>5. PlaceOf(w, sec) = UNUSED /\ \A t \in H : t # sec => SameView(w, v, t)
        BY <1>5, <2>2, <2>4 DEF PlaceOf
    <2>6. Places(w, H, P)
        <3>1. /\ v \in Device /\ w \in Device /\ P \subseteq H /\ Places(v, H, P) /\ sec \in H
              /\ PlaceOf(w, sec) = UNUSED /\ H \subseteq Sectors
              /\ \A t \in H : t # sec => SameView(w, v, t)
              /\ MayFree(v, sec, P, w.sfree)
              /\ w.sbarrier = v.sbarrier /\ w.ssectors = v.ssectors /\ w.swap = v.swap
              /\ P \subseteq P /\ (\A t \in P : t # sec => t \in P) /\ sec \notin P
            BY <1>1, <1>3, <2>4, <2>5
        <3> QED  BY ONLY <3>1, Unplaced
    <2>7. /\ w \in Device /\ Cache(w, H) /\ P \subseteq P /\ Places(w, H, P)
          /\ SameFiles(w, d.dev) /\ (\A t \in H : t # sec => SameView(w, d.dev, t))
          /\ e = [d EXCEPT !.dev = w]
        BY <2>4, <2>5, <2>6 DEF SameFiles, v, w
    <2> QED  BY <2>7, ChangedBy
<1> QED  BY <1>4, <1>5

(* sw_delv()                                                               *)
DelOne(e, d, H, P, sec) ==
    /\ DeviceOk(e, Others(H, sec), P) /\ SameBlocks(e, d) /\ Writes(e, d)
    /\ e.disk = d.disk /\ e.dev.swap = d.dev.swap
    /\ Keeps(e, d, Others(H, sec), P)
    /\ e.dev.nsectors = d.dev.nsectors /\ e.dev.mfree = << sec >> \o d.dev.mfree

LEMMA DelIs ==
    ASSUME NEW d, NEW H, NEW P, DeviceOk(d, H, P), NEW sec \in H, sec \notin P,
           NEW e, e = [d EXCEPT !.dev = Del(d.dev, sec)]
    PROVE  DelOne(e, d, H, P, sec)
<1> DEFINE v == d.dev
           w == e.dev
           i == v.map[sec]
           G == Others(H, sec)
           m == [v.map EXCEPT ![sec] = UNUSED]
           slot == IF InSlot(v, sec) THEN [v.slot EXCEPT ![i] = EmptySlot] ELSE v.slot
           order == IF InSlot(v, sec) THEN Unlinked(v.order, i) ELSE v.order
           lfree == IF InSlot(v, sec) THEN << i >> \o v.lfree ELSE v.lfree
<1>1. /\ d \in State /\ v \in Device /\ Cache(v, H) /\ Places(v, H, P)
      /\ H \subseteq Sectors /\ P \subseteq H /\ sec \in Sectors
      /\ v.dump \in {NoFile, names.snapshot, names.old}
      /\ v.dump # NoFile => v.swap # v.dump
    BY DEF DeviceOk, State
<1>2. /\ v.order \in Seq(Slots) /\ v.lfree \in Seq(Slots) /\ v.slot \in [Slots -> Slot]
      /\ v.map \in [Sectors -> Place] /\ v.mfree \in Seq(Sectors)
    BY <1>1, DeviceFields
<1>3. /\ w = [v EXCEPT !.map = m, !.slot = slot, !.order = order, !.lfree = lfree,
                       !.mfree = << sec >> \o v.mfree]
      /\ e = [d EXCEPT !.dev = w] /\ e.disk = d.disk /\ SameBlocks(e, d)
    <2>1. e.dev = Del(v, sec) /\ e = [d EXCEPT !.dev = w] /\ e.disk = d.disk /\ SameBlocks(e, d)
        BY <1>1 DEF State, SameBlocks
    <2>2. Del(v, sec) = [v EXCEPT !.map = m, !.slot = slot, !.order = order, !.lfree = lfree,
                                  !.mfree = << sec >> \o v.mfree]
        <3>1. CASE InSlot(v, sec)
            BY <1>1, <3>1 DEF Del, Device
        <3>2. CASE ~InSlot(v, sec)
            BY <1>1, <3>2 DEF Del, Device
        <3> QED  BY <3>1, <3>2
    <2> QED  BY <2>1, <2>2
<1>4. /\ m \in [Sectors -> Place] /\ m[sec] = UNUSED
      /\ \A t \in Sectors : t # sec => m[t] = v.map[t]
    <2>1. UNUSED \in Place
        BY DEF Place
    <2> QED  BY <1>1, <1>2, <2>1
<1>5. /\ InSlot(v, sec) => i \in ToSet(v.order) /\ i \in Slots /\ v.slot[i].sec = sec
      /\ IsInjective(v.order) /\ IsInjective(v.lfree)
      /\ ToSet(v.order) \cap ToSet(v.lfree) = {}
      /\ ToSet(v.order) \cup ToSet(v.lfree) = Slots
    <2>1. InSlot(v, sec) => i \in ToSet(v.order) /\ i \in Slots /\ v.slot[i].sec = sec
        BY <1>1, InSlotIs DEF InSlot
    <2> QED  BY <1>1, <2>1 DEF Cache
<1>6. /\ slot \in [Slots -> Slot]
      /\ \A j \in Slots : slot[j] = IF InSlot(v, sec) /\ j = i THEN EmptySlot ELSE v.slot[j]
    <2>1. EmptySlot \in Slot
        BY ConstantsAre DEF EmptySlot, Slot, Place
    <2> QED  BY <1>2, <1>5, <2>1
<1>7. /\ order \in Seq(Slots) /\ lfree \in Seq(Slots) /\ IsInjective(order) /\ IsInjective(lfree)
      /\ ToSet(order) = IF InSlot(v, sec) THEN ToSet(v.order) \ {i} ELSE ToSet(v.order)
      /\ ToSet(lfree) = IF InSlot(v, sec) THEN ToSet(v.lfree) \cup {i} ELSE ToSet(v.lfree)
    <2>1. CASE InSlot(v, sec)
        <3>1. /\ Unlinked(v.order, i) \in Seq(Slots) /\ IsInjective(Unlinked(v.order, i))
              /\ ToSet(Unlinked(v.order, i)) = ToSet(v.order) \ {i}
            BY <1>2, <1>5, <2>1, UnlinkedElem
        <3>2. /\ << i >> \o v.lfree \in Seq(Slots) /\ IsInjective(<< i >> \o v.lfree)
              /\ ToSet(<< i >> \o v.lfree) = ToSet(v.lfree) \cup {i}
            <4>1. i \notin ToSet(v.lfree)
                BY <1>5, <2>1
            <4> HIDE DEF i
            <4> QED  BY <1>2, <1>5, <2>1, <4>1, ConsElem
        <3> HIDE DEF i
        <3> QED  BY <2>1, <3>1, <3>2
    <2>2. CASE ~InSlot(v, sec)
        BY <1>2, <1>5, <2>2
    <2> QED  BY <2>1, <2>2
<1> DEFINE mfree == << sec >> \o v.mfree
<1>8. mfree \in Seq(Sectors)
    BY <1>1, <1>2, ConsElem
<1> HIDE DEF v, w, m, slot, order, lfree, mfree, i
<1>9. /\ w \in Device /\ w.map = m /\ w.slot = slot /\ w.order = order /\ w.lfree = lfree
      /\ w.mfree = mfree /\ w.nsectors = v.nsectors /\ w.sfree = v.sfree
      /\ w.ssectors = v.ssectors /\ w.sbarrier = v.sbarrier /\ w.swapping = v.swapping
      /\ w.swap = v.swap /\ w.dump = v.dump
    <2>1. w = [v EXCEPT !.map = m, !.slot = slot, !.order = order, !.lfree = lfree,
                        !.mfree = mfree]
        BY <1>3 DEF mfree
    <2> QED  BY <1>1, <1>4, <1>6, <1>7, <1>8, <2>1 DEF Device
<1>10. ASSUME NEW t \in H, t # sec
       PROVE  SameView(w, v, t)
    <2>1. w.map[t] = v.map[t] /\ t \in Sectors /\ t # UNUSED
        BY <1>1, <1>4, <1>9, <1>10, ConstantsAre
    <2>2. \A j \in Slots : InSlot(v, sec) /\ j = i => v.slot[j].sec # t /\ slot[j].sec # t
        BY <1>5, <1>6, <1>10, <2>1 DEF EmptySlot
    <2> QED  BY <1>6, <1>9, <2>1, <2>2 DEF SameView, InSlot
<1>11. Cache(w, G)
    <2>1. \A j \in ToSet(order) : slot[j].sec \in G /\ m[slot[j].sec] = j
        <3> TAKE j \in ToSet(order)
        <3>1. j \in ToSet(v.order) /\ j \in Slots /\ (InSlot(v, sec) => j # i)
            BY <1>2, <1>7, ToSetIs
        <3>2. /\ v.slot[j].sec \in H /\ InSlot(v, v.slot[j].sec) /\ v.map[v.slot[j].sec] = j
            BY <1>1, <3>1, InSlotIs
        <3>3. v.slot[j].sec # sec
            BY <3>1, <3>2 DEF i
        <3>4. slot[j] = v.slot[j]
            BY <1>6, <3>1
        <3> QED  BY <1>1, <1>4, <3>2, <3>3, <3>4 DEF Others
    <2>2. \A j \in ToSet(lfree) : slot[j].sec = UNUSED /\ slot[j].swap = UNUSED
        <3> TAKE j \in ToSet(lfree)
        <3>1. CASE InSlot(v, sec) /\ j = i
            BY <1>5, <1>6, <3>1 DEF EmptySlot
        <3>2. CASE ~(InSlot(v, sec) /\ j = i)
            <4>1. j \in ToSet(v.lfree)
                BY <1>7, <3>2
            <4>2. j \in Slots /\ v.slot[j].sec = UNUSED /\ v.slot[j].swap = UNUSED
                BY <1>1, <1>2, <4>1, ToSetIs DEF Cache
            <4> QED  BY <1>6, <3>2, <4>2
        <3> QED  BY <3>1, <3>2
    <2>3. \A t \in Sectors \ G : m[t] = UNUSED
        BY <1>1, <1>4 DEF Cache, Others
    <2>4. ToSet(order) \cap ToSet(lfree) = {} /\ ToSet(order) \cup ToSet(lfree) = Slots
        BY <1>5, <1>7
    <2> QED  BY <1>7, <1>9, <2>1, <2>2, <2>3, <2>4 DEF Cache
<1>12. Places(w, G, P)
    <2>1. \A t \in G : PlaceOf(w, t) = PlaceOf(v, t)
        BY <1>10, ViewPlace DEF Others
    <2>2. G \ P \subseteq H \ P /\ P \subseteq G
        BY <1>1 DEF Others
    <2>3. \A t \in P : InSlot(w, t) => ~w.slot[w.map[t]].dirty
        BY <1>1, <1>10 DEF Places, SameView
    <2>4. Places(v, G, P)
        BY <1>1, <2>2 DEF Places
    <2>5. /\ P \subseteq G /\ w.sfree = v.sfree /\ w.sbarrier = v.sbarrier
          /\ w.ssectors = v.ssectors /\ w.swap = v.swap
        BY <1>9, <2>2
    <2> HIDE DEF G
    <2> QED  BY ONLY <2>1, <2>3, <2>4, <2>5, PlacesKept
<1>13. DeviceOk(e, G, P)
    <2>1. e \in State
        BY <1>1, <1>3, <1>9 DEF State
    <2>2. G \subseteq Sectors /\ P \subseteq G
        BY <1>1 DEF Others
    <2> HIDE DEF G
    <2> QED  BY <1>1, <1>9, <1>11, <1>12, <2>1, <2>2 DEF DeviceOk, w
<1>14. Writes(e, d)
    BY <1>3, <1>9 DEF Writes, v, w
<1>15. Keeps(e, d, G, P)
    <2> SUFFICES ASSUME NEW t \in H, t # sec
                 PROVE  /\ \A c : Has(d, t, c) => Has(e, t, c)
                        /\ \A g \in Files : \A c : HasIn(d, g, t, c) => HasIn(e, g, t, c)
                        /\ ~InSlot(v, t) => ~InSlot(w, t) /\ w.map[t] = v.map[t]
        BY DEF Keeps, Others, v, w
    <2>1. SameView(e.dev, d.dev, t) /\ e.dev.swap = d.dev.swap /\ e.disk = d.disk
        BY <1>3, <1>9, <1>10 DEF v, w
    <2>2. \A c : Has(d, t, c) => Has(e, t, c)
        BY <2>1, ViewHas
    <2>3. \A g \in Files : \A c : HasIn(d, g, t, c) => HasIn(e, g, t, c)
        BY <2>1, ViewHasIn
    <2> QED  BY <2>1, <2>2, <2>3 DEF SameView, v, w
<1> QED  BY <1>3, <1>9, <1>13, <1>14, <1>15 DEF DelOne, mfree, v, w

---------------------------------------------------------------------------
(* One sector of a block comes into memory.                                *)

AppendTo(memory, b, c) == [memory EXCEPT ![b] = Append(@, c)]

(* What is read is c; of the other sectors nothing is lost.                *)
ReadOne(e, d, H, P, Q, b, sec, c) ==
    /\ DeviceOk(e, H, Q) /\ SameNumbers(e, d) /\ Writes(e, d)
    /\ Keeps(e, d, Others(H, sec), P)
    /\ e.vec = d.vec /\ e.mod = d.mod /\ e.mem = AppendTo(d.mem, b, c)

LEMMA AppendIs ==
    ASSUME NEW d \in State, NEW b \in Blocks, NEW c \in Data
    PROVE  AppendTo(d.mem, b, c) \in [Blocks -> Seq(Data)]
<1>1. d.mem \in [Blocks -> Seq(Data)]
    BY DEF State
<1>2. d.mem[b] \in Seq(Data)
    BY <1>1
<1>3. Append(d.mem[b], c) \in Seq(Data)
    BY <1>2, AppendElem
<1> QED  BY <1>1, <1>3 DEF AppendTo

LEMMA CopyIs ==
    ASSUME NEW d \in State, NEW b \in Blocks, NEW sec \in Sectors, InSlot(d.dev, sec),
           NEW e, e = Copy(d, b, sec)
    PROVE  /\ e \in State /\ e.dev = d.dev /\ e.disk = d.disk /\ e.vec = d.vec /\ e.mod = d.mod
           /\ e.mem = AppendTo(d.mem, b, DataOf(d, sec)) /\ DataOf(d, sec) \in Data
<1> DEFINE c == DataOf(d, sec)
<1>1. c \in Data
    <2>1. d.dev \in Device /\ d.dev.map[sec] \in Slots
        BY DEF State, InSlot
    <2> QED  BY <2>1, DeviceFields DEF DataOf
<1>2. e = [d EXCEPT !.mem[b] = Append(@, c)]
    BY DEF Copy
<1> HIDE DEF c
<1>3. e = [d EXCEPT !.mem = AppendTo(d.mem, b, c)]
    BY <1>2 DEF AppendTo, State
<1>4. AppendTo(d.mem, b, c) \in [Blocks -> Seq(Data)]
    BY <1>1, AppendIs
<1> HIDE DEF State
<1>5. e.dev = d.dev /\ e.disk = d.disk /\ e.vec = d.vec /\ e.mod = d.mod
      /\ e.mem = AppendTo(d.mem, b, c)
    BY <1>3 DEF State
<1>6. e \in State
    BY <1>3, <1>4 DEF State
<1> QED  BY <1>1, <1>5, <1>6 DEF c

(* sw_readv(): and the sector itself is kept as well.                      *)
LEMMA ReadSector ==
    ASSUME NEW d, NEW H, NEW P, DeviceOk(d, H, P), NEW b \in Blocks, NEW sec \in H,
           sec \notin P, NEW c, Has(d, sec, c), NEW e, e = Copy(Load(d, sec, "swap"), b, sec)
    PROVE  ReadOne(e, d, H, P, P, b, sec, c) /\ \A x : Has(d, sec, x) => Has(e, sec, x)
<1> DEFINE g == Load(d, sec, "swap")
<1>1. Loaded(g, d, H, P, sec, "swap")
    BY LoadIs
<1> HIDE DEF g
<1>2. /\ DeviceOk(g, H, P) /\ g \in State /\ sec \in Sectors /\ InSlot(g.dev, sec)
      /\ Has(g, sec, c)
    BY <1>1 DEF Loaded, DeviceOk
<1>3. DataOf(g, sec) = c
    BY <1>2 DEF Has, DataOf
<1>4. /\ e \in State /\ e.dev = g.dev /\ e.disk = g.disk /\ e.vec = g.vec /\ e.mod = g.mod
      /\ e.mem = AppendTo(g.mem, b, c)
    BY <1>2, <1>3, CopyIs DEF g
<1>5. /\ DeviceOk(e, H, P) /\ SameNumbers(e, g) /\ Writes(e, g)
      /\ Keeps(e, g, Others(H, sec), P) /\ \A t, x : Has(e, t, x) <=> Has(g, t, x)
    BY <1>2, <1>4, SameDevice
<1>6. /\ SameNumbers(g, d) /\ SameBlocks(g, d) /\ Writes(g, d)
      /\ Keeps(g, d, Others(H, sec), P)
      /\ \A x : Has(d, sec, x) => Has(g, sec, x)
    BY <1>1 DEF Loaded
<1>7. Writes(e, d) /\ Keeps(e, d, Others(H, sec), P)
    <2>1. d.dev.swap \in Descriptor
        BY DEF DeviceOk, State, Device
    <2> QED  BY <1>5, <1>6, <2>1, WritesOn, KeepsOn
<1> QED  BY <1>4, <1>5, <1>6, <1>7 DEF ReadOne, SameNumbers, SameBlocks

(* sw_dreadv()                                                             *)
LEMMA CopyOutSector ==
    ASSUME NEW d, NEW H, NEW P, DeviceOk(d, H, P), NEW b \in Blocks, NEW sec \in H,
           sec \in P, d.dev.dump # NoFile, NEW c, HasIn(d, d.dev.dump, sec, c),
           NEW e, e = CopyOut(Load(d, sec, "dump"), b, sec)
    PROVE  ReadOne(e, d, H, P, Others(P, sec), b, sec, c)
<1> DEFINE g == Load(d, sec, "dump")
           h == Copy(g, b, sec)
<1>1. Loaded(g, d, H, P, sec, "dump")
    BY LoadIs
<1>2. e = [h EXCEPT !.dev.slot[g.dev.map[sec]].swap = UNUSED]
    BY DEF CopyOut
<1> HIDE DEF g
<1>3. /\ DeviceOk(g, H, P) /\ g \in State /\ sec \in Sectors /\ InSlot(g.dev, sec)
      /\ HasIn(g, d.dev.dump, sec, c)
    BY <1>1 DEF Loaded, DeviceOk
<1>4. DataOf(g, sec) = c
    BY <1>3 DEF HasIn, DataOf
<1>5. /\ h \in State /\ h.dev = g.dev /\ h.disk = g.disk /\ h.vec = g.vec /\ h.mod = g.mod
      /\ h.mem = AppendTo(g.mem, b, c)
    BY <1>3, <1>4, CopyIs
<1> HIDE DEF h
<1>6. /\ DeviceOk(h, H, P) /\ SameNumbers(h, g) /\ Writes(h, g)
      /\ Keeps(h, g, Others(H, sec), P)
    BY <1>3, <1>5, SameDevice
<1>7. Changed(e, h, H, P, Others(P, sec), sec)
    <2>1. InSlot(h.dev, sec) /\ e = [h EXCEPT !.dev.slot[h.dev.map[sec]].swap = UNUSED]
        BY <1>2, <1>3, <1>5
    <2> QED  BY <1>6, <2>1, ReleaseIs
<1>8. /\ DeviceOk(e, H, Others(P, sec)) /\ SameNumbers(e, h) /\ SameBlocks(e, h) /\ Writes(e, h)
      /\ Keeps(e, h, Others(H, sec), P)
    BY <1>7 DEF Changed
<1>9. /\ SameNumbers(g, d) /\ SameBlocks(g, d) /\ Writes(g, d)
      /\ Keeps(g, d, Others(H, sec), P)
    BY <1>1 DEF Loaded
<1>10. Writes(e, d) /\ Keeps(e, d, Others(H, sec), P)
    <2>1. d.dev.swap \in Descriptor /\ g.dev.swap \in Descriptor
        BY <1>3 DEF DeviceOk, State, Device
    <2>2. Writes(h, d) /\ Keeps(h, d, Others(H, sec), P)
        BY <1>6, <1>9, <2>1, WritesOn, KeepsOn
    <2> QED  BY <1>8, <2>1, <2>2, WritesOn, KeepsOn
<1> QED  BY <1>5, <1>6, <1>8, <1>9, <1>10 DEF ReadOne, SameNumbers, SameBlocks

(* sw_conv()                                                               *)
LEMMA ConvertSector ==
    ASSUME NEW d, NEW H, NEW P, DeviceOk(d, H, P), NEW b \in Blocks, NEW sec \in H,
           sec \in P, ~InSlot(d.dev, sec), NEW f, NEW c, HasIn(d, f, sec, c),
           NEW e, e = ConvSector(d, b, f, sec)
    PROVE  ReadOne(e, d, H, P, Others(P, sec), b, sec, c) /\ e.disk = d.disk
<1> DEFINE g == [d EXCEPT !.dev = Unmap(d.dev, sec, d.dev.sfree)]
<1>1. d \in State /\ d.disk \in Disk /\ d.dev \in Device /\ d.dev.sfree \in Seq(Nat)
    <2>1. d \in State /\ d.disk \in Disk /\ d.dev \in Device
        BY DEF DeviceOk, State
    <2> QED  BY <2>1, DeviceFields
<1>2. ReadAt(d.disk, f, d.dev.map[sec]) = c /\ c \in Data
    <2>1. ReadAt(d.disk, f, d.dev.map[sec]) = c
        BY DEF HasIn, Filed, PlaceOf
    <2> QED  BY <1>1, <2>1, ReadsData
<1>3. Changed(g, d, H, P, Others(P, sec), sec)
    <2>1. MayFree(d.dev, sec, P, d.dev.sfree) /\ Others(P, sec) \subseteq P
          /\ (\A t \in P : t # sec => t \in Others(P, sec)) /\ sec \notin Others(P, sec)
        BY DEF MayFree, Others
    <2> QED  BY <1>1, <2>1, MapChanges
<1>4. e = [g EXCEPT !.mem = AppendTo(g.mem, b, c)]
    <2>1. e = [d EXCEPT !.mem[b] = Append(@, c), !.dev.map[sec] = UNUSED]
        BY <1>2 DEF ConvSector
    <2>2. e = [d EXCEPT !.mem = AppendTo(d.mem, b, c), !.dev = [d.dev EXCEPT !.map[sec] = UNUSED]]
        BY <1>1, <2>1 DEF State, AppendTo
    <2>3. Unmap(d.dev, sec, d.dev.sfree) = [d.dev EXCEPT !.map[sec] = UNUSED]
        BY <1>1 DEF Unmap, Device
    <2> QED  BY <1>1, <2>2, <2>3 DEF State
<1> HIDE DEF g
<1>5. /\ DeviceOk(g, H, Others(P, sec)) /\ SameNumbers(g, d) /\ SameBlocks(g, d)
      /\ Writes(g, d) /\ g.disk = d.disk /\ g \in State
      /\ Keeps(g, d, Others(H, sec), P)
    BY <1>3 DEF Changed, DeviceOk
<1>6. /\ e.dev = g.dev /\ e.disk = g.disk /\ e.vec = g.vec /\ e.mod = g.mod
      /\ e.mem = AppendTo(g.mem, b, c) /\ e \in State
    <2>1. AppendTo(g.mem, b, c) \in [Blocks -> Seq(Data)]
        BY <1>2, <1>5, AppendIs
    <2> QED  BY <1>4, <1>5, <2>1 DEF State
<1>7. /\ DeviceOk(e, H, Others(P, sec)) /\ SameNumbers(e, g) /\ Writes(e, g)
      /\ Keeps(e, g, Others(H, sec), P)
    BY <1>5, <1>6, SameDevice
<1>8. Writes(e, d) /\ Keeps(e, d, Others(H, sec), P)
    <2>1. d.dev.swap \in Descriptor
        BY DEF DeviceOk, State, Device
    <2> QED  BY <1>5, <1>7, <2>1, WritesOn, KeepsOn
<1> QED  BY <1>5, <1>6, <1>7, <1>8 DEF ReadOne, SameNumbers, SameBlocks

---------------------------------------------------------------------------
(* All sectors of a block come into memory.                                *)

LEMMA WalkEnds ==
    ASSUME NEW n \in Nat, NEW I, NEW Op, Closed(I, n, Op), NEW g, << g[0], 0 >> \in I,
           \A k \in 1 .. n : << g[k - 1], k - 1 >> \in I => g[k] = Op[<< g[k - 1], k - 1 >>]
    PROVE  << g[n], n >> \in I
<1> DEFINE T == {k \in 0 .. n : << g[k], k >> \in I}
<1>1. 0 \in T
    OBVIOUS
<1>2. \A k \in 1 .. n : k - 1 \in T => k \in T
    <2> SUFFICES ASSUME NEW k \in 1 .. n, k - 1 \in T  PROVE k \in T
        OBVIOUS
    <2>1. << g[k - 1], k - 1 >> \in I /\ g[k] = Op[<< g[k - 1], k - 1 >>]
        OBVIOUS
    <2>2. << Op[<< g[k - 1], k - 1 >>], k >> \in I
        BY <2>1 DEF Closed
    <2> QED  BY <2>1, <2>2
<1> HIDE DEF T
<1>3. \A k \in 0 .. n : k \in T
    BY <1>1, <1>2, StepByStep
<1>4. n \in 0 .. n
    OBVIOUS
<1> QED  BY <1>3, <1>4 DEF T

LEMMA KeepsSome ==
    ASSUME NEW e, NEW d, NEW S, NEW Q, Keeps(e, d, S, Q), NEW T, T \subseteq S, NEW P,
           \A t \in T : t \in P <=> t \in Q
    PROVE  Keeps(e, d, T, P)
BY DEF Keeps

LEMMA OtherFile ==
    ASSUME NEW e, NEW d, NEW H, NEW P, DeviceOk(e, H, P), Writes(e, d),
           NEW f, f \in {names.snapshot, names.old, d.dev.dump}, d.dev.swap # f
    PROVE  e.dev.swap # f
BY DEF DeviceOk, Writes

First(b, x, k) == [j \in 1 .. k |-> Content(b, j, x)]

(* The first k sectors of block b are in memory, and nothing is lost of    *)
(* the sectors in S.                                                       *)
ReadTo(y, d, H, P, Q, b, S, k, x) ==
    /\ DeviceOk(y, H, Q) /\ SameNumbers(y, d) /\ Writes(y, d) /\ Keeps(y, d, S, P)
    /\ y.vec = d.vec /\ y.mod = d.mod /\ y.mem = [d.mem EXCEPT ![b] = First(b, x, k)]

LEMMA FirstOn ==
    ASSUME NEW d \in State, NEW b \in Blocks, NEW x, NEW k \in Nat, k > 0
    PROVE  AppendTo([d.mem EXCEPT ![b] = First(b, x, k - 1)], b, Content(b, k, x))
              = [d.mem EXCEPT ![b] = First(b, x, k)]
<1>1. d.mem \in [Blocks -> Seq(Data)]
    BY DEF State
<1>2. Append(First(b, x, k - 1), Content(b, k, x)) = First(b, x, k)
    BY DEF First
<1> QED  BY <1>1, <1>2 DEF AppendTo

LEMMA ReadToOn ==
    ASSUME NEW d \in State, NEW H, NEW P, NEW Q, NEW b \in Blocks, NEW S, NEW k \in Nat, k > 0,
           NEW x, NEW y, ReadTo(y, d, H, P, Q, b, S, k - 1, x), NEW sec, NEW R, NEW z,
           ReadOne(z, y, H, Q, R, b, sec, Content(b, k, x)),
           S \subseteq Others(H, sec), \A t \in S : t \in P <=> t \in Q
    PROVE  ReadTo(z, d, H, P, R, b, S, k, x)
<1>1. /\ DeviceOk(z, H, R) /\ SameNumbers(z, y) /\ Writes(z, y)
      /\ Keeps(z, y, Others(H, sec), Q)
      /\ z.vec = y.vec /\ z.mod = y.mod /\ z.mem = AppendTo(y.mem, b, Content(b, k, x))
    BY DEF ReadOne
<1>2. /\ DeviceOk(y, H, Q) /\ SameNumbers(y, d) /\ Writes(y, d) /\ Keeps(y, d, S, P)
      /\ y.vec = d.vec /\ y.mod = d.mod /\ y.mem = [d.mem EXCEPT ![b] = First(b, x, k - 1)]
    BY DEF ReadTo
<1>3. Keeps(z, y, S, P)
    BY <1>1, KeepsSome
<1>4. Writes(z, d) /\ Keeps(z, d, S, P)
    <2>1. d.dev.swap \in Descriptor
        BY DEF State, Device
    <2> QED  BY <1>1, <1>2, <1>3, <2>1, WritesOn, KeepsOn
<1>5. z.mem = [d.mem EXCEPT ![b] = First(b, x, k)]
    BY <1>1, <1>2, FirstOn
<1> QED  BY <1>1, <1>2, <1>4, <1>5 DEF ReadTo, SameNumbers

LEMMA ReadToSelf ==
    ASSUME NEW d, NEW H, NEW P, DeviceOk(d, H, P), NEW b \in Blocks, d.mem[b] = << >>, NEW S, NEW x
    PROVE  ReadTo(d, d, H, P, P, b, S, 0, x)
<1>1. d.mem \in [Blocks -> Seq(Data)]
    BY DEF DeviceOk, State
<1>2. First(b, x, 0) = << >>
    BY DEF First
<1>3. d.mem = [d.mem EXCEPT ![b] = First(b, x, 0)]
    BY <1>1, <1>2
<1> QED  BY <1>3, WritesSelf, KeepsSelf DEF ReadTo, SameNumbers

(* The sectors s of a block, once each, and no other block's.              *)
OneBlock(s, n, H, S) ==
    /\ s \in Seq(Sectors) /\ Len(s) = n /\ S \subseteq H
    /\ \A k \in 1 .. n : s[k] \in H /\ s[k] \notin S
    /\ \A j, k \in 1 .. n : s[j] = s[k] => j = k

(* sw_readv()                                                              *)
LEMMA ReadVIs ==
    ASSUME NEW d, NEW H, NEW P, DeviceOk(d, H, P), NEW b \in Blocks, d.mem[b] = << >>, NEW S,
           NEW x, OneBlock(d.vec[b], x.n, H, S), \A k \in 1 .. x.n : d.vec[b][k] \notin P,
           \A k \in 1 .. x.n : Has(d, d.vec[b][k], Content(b, k, x))
    PROVE  /\ ReadTo(ReadV(d, b), d, H, P, P, b, S, x.n, x)
           /\ \A k \in 1 .. x.n : Has(ReadV(d, b), d.vec[b][k], Content(b, k, x))
<1> DEFINE n == x.n
           s == d.vec[b]
           Step(y, sec) == Copy(Load(y, sec, "swap"), b, sec)
           I == {p \in State \X Nat :
                    /\ ReadTo(p[1], d, H, P, P, b, S, p[2], x)
                    /\ \A k \in 1 .. n : Has(p[1], s[k], Content(b, k, x))}
           Op == [p \in I |-> Step(p[1], s[p[2] + 1])]
           F(f) == [k \in 0 .. n |-> IF k = 0 THEN d ELSE Step(f[k - 1], s[k])]
           g == CHOOSE f : f = F(f)
<1>1. d \in State /\ s \in Seq(Sectors) /\ Len(s) = n /\ n \in Nat
    <2>1. d \in State /\ s \in Seq(Sectors) /\ Len(s) = n
        BY DEF DeviceOk, OneBlock
    <2> QED  BY <2>1
<1>2. << d, 0 >> \in I
    BY <1>1, ReadToSelf
<1>3. ASSUME NEW k \in 1 .. n, NEW y, << y, k - 1 >> \in I
      PROVE  << Step(y, s[k]), k >> \in I
    <2> DEFINE z == Step(y, s[k])
    <2>1. /\ y \in State /\ ReadTo(y, d, H, P, P, b, S, k - 1, x)
          /\ \A j \in 1 .. n : Has(y, s[j], Content(b, j, x))
        BY <1>3
    <2>2. DeviceOk(y, H, P) /\ s[k] \in H /\ s[k] \notin P /\ Has(y, s[k], Content(b, k, x))
        BY <2>1 DEF ReadTo, OneBlock
    <2>3. /\ ReadOne(z, y, H, P, P, b, s[k], Content(b, k, x))
          /\ \A c : Has(y, s[k], c) => Has(z, s[k], c)
        BY <2>2, ReadSector
    <2> HIDE DEF z
    <2>4. S \subseteq Others(H, s[k]) /\ k \in Nat /\ k > 0
        BY <1>1 DEF OneBlock, Others
    <2>5. ReadTo(z, d, H, P, P, b, S, k, x)
        BY <1>1, <2>1, <2>3, <2>4, ReadToOn
    <2>6. \A j \in 1 .. n : Has(z, s[j], Content(b, j, x))
        <3> TAKE j \in 1 .. n
        <3>1. s[j] \in H /\ s[j] \notin P /\ Has(y, s[j], Content(b, j, x))
            BY <2>1 DEF OneBlock
        <3>2. Keeps(z, y, Others(H, s[k]), P)
            BY <2>3 DEF ReadOne
        <3> QED  BY <2>3, <3>1, <3>2 DEF Keeps, Others
    <2>7. z \in State
        BY <2>5 DEF ReadTo, DeviceOk
    <2> QED  BY <2>4, <2>5, <2>6, <2>7 DEF z
<1> HIDE DEF I, Step
<1>4. Closed(I, n, Op)
    <2> SUFFICES ASSUME NEW k \in 1 .. n, NEW y, << y, k - 1 >> \in I
                 PROVE  << Op[<< y, k - 1 >>], k >> \in I
        BY DEF Closed
    <2>1. Op[<< y, k - 1 >>] = Step(y, s[k])
        OBVIOUS
    <2> QED  BY <1>3, <2>1
<1>5. g = F(g)
    <2>1. PICK f : Walks(f, n, d, Op) /\ \A k \in 0 .. n : << f[k], k >> \in I
        BY <1>1, <1>2, <1>4, WalkWithin
    <2>2. \A k \in 1 .. n : Op[<< f[k - 1], k - 1 >>] = Step(f[k - 1], s[k])
        BY <1>1, <2>1
    <2> HIDE DEF Op
    <2>3. \A k \in 0 .. n : k = 0 \/ k \in 1 .. n
        BY <1>1
    <2>4. f = F(f)
        BY <2>1, <2>2, <2>3 DEF Walks
    <2> QED  BY <2>4
<1>6. ReadV(d, b) = g[n]
    BY <1>1 DEF ReadV, Walk, Step
<1> HIDE DEF g
<1>7. << g[n], n >> \in I
    <2>1. g[0] = d /\ \A k \in 1 .. n : g[k] = Step(g[k - 1], s[k])
        BY <1>1, <1>5
    <2>2. \A k \in 1 .. n : << g[k - 1], k - 1 >> \in I => g[k] = Op[<< g[k - 1], k - 1 >>]
        BY <1>1, <2>1
    <2> HIDE DEF Op
    <2> QED  BY <1>1, <1>2, <1>4, <2>1, <2>2, WalkEnds
<1> QED  BY <1>6, <1>7 DEF I

(* The sectors of the snapshot that are not of the first k of s.           *)
Left(P, s, k) == {t \in P : \A j \in 1 .. k : s[j] # t}

(* sw_dreadv()                                                             *)
LEMMA DReadVIs ==
    ASSUME NEW d, NEW H, NEW P, DeviceOk(d, H, P), NEW b \in Blocks, d.mem[b] = << >>, NEW S,
           NEW x, OneBlock(d.vec[b], x.n, H, S), \A k \in 1 .. x.n : d.vec[b][k] \in P,
           d.dev.dump # NoFile,
           \A k \in 1 .. x.n : HasIn(d, d.dev.dump, d.vec[b][k], Content(b, k, x))
    PROVE  ReadTo(DReadV(d, b), d, H, P, Left(P, d.vec[b], x.n), b, S, x.n, x)
<1> DEFINE n == x.n
           s == d.vec[b]
           Step(y, sec) == CopyOut(Load(y, sec, "dump"), b, sec)
           Rest(y, i) == \A k \in i + 1 .. n : HasIn(y, d.dev.dump, s[k], Content(b, k, x))
           I == {p \in State \X Nat : /\ ReadTo(p[1], d, H, P, Left(P, s, p[2]), b, S, p[2], x)
                                     /\ Rest(p[1], p[2])}
           Op == [p \in I |-> Step(p[1], s[p[2] + 1])]
           F(f) == [k \in 0 .. n |-> IF k = 0 THEN d ELSE Step(f[k - 1], s[k])]
           g == CHOOSE f : f = F(f)
<1>1. d \in State /\ s \in Seq(Sectors) /\ Len(s) = n /\ n \in Nat
    <2>1. d \in State /\ s \in Seq(Sectors) /\ Len(s) = n
        BY DEF DeviceOk, OneBlock
    <2> QED  BY <2>1
<1>2. << d, 0 >> \in I
    <2>1. Left(P, s, 0) = P
        BY DEF Left
    <2>2. ReadTo(d, d, H, P, P, b, S, 0, x)
        BY ReadToSelf
    <2>3. Rest(d, 0)
        OBVIOUS
    <2> QED  BY <1>1, <2>1, <2>2, <2>3
<1>3. ASSUME NEW k \in 1 .. n, NEW y, << y, k - 1 >> \in I
      PROVE  << Step(y, s[k]), k >> \in I
    <2> DEFINE z == Step(y, s[k])
               Q == Left(P, s, k - 1)
    <2>1. /\ y \in State /\ ReadTo(y, d, H, P, Q, b, S, k - 1, x) /\ Rest(y, k - 1)
          /\ k \in Nat /\ k > 0 /\ k \in k - 1 + 1 .. n
        BY <1>1, <1>3
    <2>2. /\ \A j \in k .. n : s[j] \in H /\ s[j] \in Q
          /\ \A j \in k + 1 .. n : s[j] # s[k] /\ j \in k - 1 + 1 .. n
        BY <1>1, <2>1 DEF OneBlock, Left
    <2>3. Others(Q, s[k]) = Left(P, s, k)
        BY <1>1, <2>1 DEF Others, Left
    <2>4. S \subseteq Others(H, s[k]) /\ \A t \in S : t \in P <=> t \in Q
        BY <1>1 DEF OneBlock, Others, Left
    <2> HIDE DEF Q
    <2>5. DeviceOk(y, H, Q) /\ s[k] \in H /\ s[k] \in Q /\ Writes(y, d)
        BY <2>1, <2>2 DEF ReadTo
    <2>6. ReadOne(z, y, H, Q, Others(Q, s[k]), b, s[k], Content(b, k, x))
        <3>1. /\ y.dev.dump = d.dev.dump /\ y.dev.dump # NoFile
              /\ HasIn(y, y.dev.dump, s[k], Content(b, k, x))
            BY <2>1, <2>5 DEF Writes
        <3> QED  BY <2>5, <3>1, CopyOutSector
    <2> HIDE DEF z
    <2>7. ReadTo(z, d, H, P, Left(P, s, k), b, S, k, x)
        BY <1>1, <2>1, <2>3, <2>4, <2>6, ReadToOn
    <2>8. Rest(z, k)
        <3> TAKE j \in k + 1 .. n
        <3>1. /\ s[j] \in Others(H, s[k]) /\ s[j] \in Q /\ j \in k - 1 + 1 .. n
            BY <2>1, <2>2 DEF Others
        <3>2. Keeps(z, y, Others(H, s[k]), Q)
            BY <2>6 DEF ReadOne
        <3>3. d.dev.dump \in Files /\ z.dev.swap # d.dev.dump
            BY <1>1, <2>7 DEF ReadTo, DeviceOk, Writes, State, Device, Descriptor
        <3> QED  BY <2>1, <2>6, <3>1, <3>2, <3>3 DEF Keeps
    <2>9. z \in State
        BY <2>7 DEF ReadTo, DeviceOk
    <2> QED  BY <2>1, <2>7, <2>8, <2>9 DEF z
<1> HIDE DEF I, Step, Rest
<1>4. Closed(I, n, Op)
    <2> SUFFICES ASSUME NEW k \in 1 .. n, NEW y, << y, k - 1 >> \in I
                 PROVE  << Op[<< y, k - 1 >>], k >> \in I
        BY DEF Closed
    <2>1. Op[<< y, k - 1 >>] = Step(y, s[k])
        OBVIOUS
    <2> QED  BY <1>3, <2>1
<1>5. g = F(g)
    <2>1. PICK f : Walks(f, n, d, Op) /\ \A k \in 0 .. n : << f[k], k >> \in I
        BY <1>1, <1>2, <1>4, WalkWithin
    <2>2. \A k \in 1 .. n : Op[<< f[k - 1], k - 1 >>] = Step(f[k - 1], s[k])
        BY <1>1, <2>1
    <2> HIDE DEF Op
    <2>3. \A k \in 0 .. n : k = 0 \/ k \in 1 .. n
        BY <1>1
    <2>4. f = F(f)
        BY <2>1, <2>2, <2>3 DEF Walks
    <2> QED  BY <2>4
<1>6. DReadV(d, b) = g[n]
    BY <1>1 DEF DReadV, Walk, Step
<1> HIDE DEF g
<1>7. << g[n], n >> \in I
    <2>1. g[0] = d /\ \A k \in 1 .. n : g[k] = Step(g[k - 1], s[k])
        BY <1>1, <1>5
    <2>2. \A k \in 1 .. n : << g[k - 1], k - 1 >> \in I => g[k] = Op[<< g[k - 1], k - 1 >>]
        BY <1>1, <2>1
    <2> HIDE DEF Op
    <2> QED  BY <1>1, <1>2, <1>4, <2>1, <2>2, WalkEnds
<1> QED  BY <1>6, <1>7 DEF I

(* sw_conv()                                                               *)
LEMMA ConvIs ==
    ASSUME NEW d, NEW H, NEW P, DeviceOk(d, H, P), NEW b \in Blocks, d.mem[b] = << >>, NEW S,
           NEW x, OneBlock(d.vec[b], x.n, H, S), \A k \in 1 .. x.n : d.vec[b][k] \in P,
           NEW f \in Files, f \in {names.snapshot, names.old, d.dev.dump}, d.dev.swap # f,
           \A k \in 1 .. x.n : /\ HasIn(d, f, d.vec[b][k], Content(b, k, x))
                               /\ ~InSlot(d.dev, d.vec[b][k])
    PROVE  ReadTo(Conv(d, b, f), d, H, P, Left(P, d.vec[b], x.n), b, S, x.n, x)
<1> DEFINE n == x.n
           s == d.vec[b]
           Step(y, sec) == ConvSector(y, b, f, sec)
           Rest(y, i) == \A k \in i + 1 .. n : /\ HasIn(y, f, s[k], Content(b, k, x))
                                                  /\ ~InSlot(y.dev, s[k])
           I == {p \in State \X Nat : /\ ReadTo(p[1], d, H, P, Left(P, s, p[2]), b, S, p[2], x)
                                     /\ Rest(p[1], p[2])}
           Op == [p \in I |-> Step(p[1], s[p[2] + 1])]
           F(h) == [k \in 0 .. n |-> IF k = 0 THEN d ELSE Step(h[k - 1], s[k])]
           g == CHOOSE h : h = F(h)
<1>1. d \in State /\ s \in Seq(Sectors) /\ Len(s) = n /\ n \in Nat
    <2>1. d \in State /\ s \in Seq(Sectors) /\ Len(s) = n
        BY DEF DeviceOk, OneBlock
    <2> QED  BY <2>1
<1>2. << d, 0 >> \in I
    <2>1. Left(P, s, 0) = P
        BY DEF Left
    <2>2. ReadTo(d, d, H, P, P, b, S, 0, x)
        BY ReadToSelf
    <2>3. Rest(d, 0)
        OBVIOUS
    <2> QED  BY <1>1, <2>1, <2>2, <2>3
<1>3. ASSUME NEW k \in 1 .. n, NEW y, << y, k - 1 >> \in I
      PROVE  << Step(y, s[k]), k >> \in I
    <2> DEFINE z == Step(y, s[k])
               Q == Left(P, s, k - 1)
    <2>1. /\ y \in State /\ ReadTo(y, d, H, P, Q, b, S, k - 1, x) /\ Rest(y, k - 1)
          /\ k \in Nat /\ k > 0 /\ k \in k - 1 + 1 .. n
        BY <1>1, <1>3
    <2>2. /\ \A j \in k .. n : s[j] \in H /\ s[j] \in Q
          /\ \A j \in k + 1 .. n : s[j] # s[k] /\ j \in k - 1 + 1 .. n
        BY <1>1, <2>1 DEF OneBlock, Left
    <2>3. Others(Q, s[k]) = Left(P, s, k)
        BY <1>1, <2>1 DEF Others, Left
    <2>4. S \subseteq Others(H, s[k]) /\ \A t \in S : t \in P <=> t \in Q
        BY <1>1 DEF OneBlock, Others, Left
    <2> HIDE DEF Q
    <2>5. DeviceOk(y, H, Q) /\ s[k] \in H /\ s[k] \in Q /\ Writes(y, d)
        BY <2>1, <2>2 DEF ReadTo
    <2>6. ReadOne(z, y, H, Q, Others(Q, s[k]), b, s[k], Content(b, k, x))
        <3>1. HasIn(y, f, s[k], Content(b, k, x)) /\ ~InSlot(y.dev, s[k])
            BY <2>1
        <3> QED  BY <2>5, <3>1, ConvertSector
    <2> HIDE DEF z
    <2>7. ReadTo(z, d, H, P, Left(P, s, k), b, S, k, x)
        BY <1>1, <2>1, <2>3, <2>4, <2>6, ReadToOn
    <2>8. Rest(z, k)
        <3> TAKE j \in k + 1 .. n
        <3>1. /\ s[j] \in Others(H, s[k]) /\ s[j] \in Q /\ j \in k - 1 + 1 .. n
            BY <2>1, <2>2 DEF Others
        <3>2. Keeps(z, y, Others(H, s[k]), Q)
            BY <2>6 DEF ReadOne
        <3>3. f \in Files /\ z.dev.swap # f
            BY <2>7, OtherFile DEF ReadTo
        <3> QED  BY <2>1, <2>6, <3>1, <3>2, <3>3 DEF Keeps
    <2>9. z \in State
        BY <2>7 DEF ReadTo, DeviceOk
    <2> QED  BY <2>1, <2>7, <2>8, <2>9 DEF z
<1> HIDE DEF I, Step, Rest
<1>4. Closed(I, n, Op)
    <2> SUFFICES ASSUME NEW k \in 1 .. n, NEW y, << y, k - 1 >> \in I
                 PROVE  << Op[<< y, k - 1 >>], k >> \in I
        BY DEF Closed
    <2>1. Op[<< y, k - 1 >>] = Step(y, s[k])
        OBVIOUS
    <2> QED  BY <1>3, <2>1
<1>5. g = F(g)
    <2>1. PICK h : Walks(h, n, d, Op) /\ \A k \in 0 .. n : << h[k], k >> \in I
        BY <1>1, <1>2, <1>4, WalkWithin
    <2>2. \A k \in 1 .. n : Op[<< h[k - 1], k - 1 >>] = Step(h[k - 1], s[k])
        BY <1>1, <2>1
    <2> HIDE DEF Op
    <2>3. \A k \in 0 .. n : k = 0 \/ k \in 1 .. n
        BY <1>1
    <2>4. h = F(h)
        BY <2>1, <2>2, <2>3 DEF Walks
    <2> QED  BY <2>4
<1>6. Conv(d, b, f) = g[n]
    BY <1>1 DEF Conv, Walk, Step
<1> HIDE DEF g
<1>7. << g[n], n >> \in I
    <2>1. g[0] = d /\ \A k \in 1 .. n : g[k] = Step(g[k - 1], s[k])
        BY <1>1, <1>5
    <2>2. \A k \in 1 .. n : << g[k - 1], k - 1 >> \in I => g[k] = Op[<< g[k - 1], k - 1 >>]
        BY <1>1, <2>1
    <2> HIDE DEF Op
    <2> QED  BY <1>1, <1>2, <1>4, <2>1, <2>2, WalkEnds
<1> QED  BY <1>6, <1>7 DEF I

---------------------------------------------------------------------------
(* A block is written.                                                     *)

(* The sector holds these data.                                            *)
Stored(e, d, H, P, sec, data) ==
    /\ DeviceOk(e, H, P) /\ SameNumbers(e, d) /\ SameBlocks(e, d) /\ Writes(e, d)
    /\ Keeps(e, d, Others(H, sec), P) /\ Has(e, sec, data)

LEMMA PutLoaded ==
    ASSUME NEW d, NEW H, NEW P, DeviceOk(d, H, P), NEW sec \in H, sec \notin P,
           NEW g, Loaded(g, d, H, P, sec, "swap"), NEW data \in Data,
           NEW e, e = Put(g, g.dev.map[sec], data)
    PROVE  Stored(e, d, H, P, sec, data)
<1>1. /\ DeviceOk(g, H, P) /\ SameNumbers(g, d) /\ SameBlocks(g, d) /\ Writes(g, d)
      /\ Keeps(g, d, Others(H, sec), P) /\ InSlot(g.dev, sec)
    BY DEF Loaded
<1>2. Changed(e, g, H, P, P, sec) /\ Has(e, sec, data)
    BY <1>1, PutIs
<1>3. /\ DeviceOk(e, H, P) /\ SameNumbers(e, g) /\ SameBlocks(e, g) /\ Writes(e, g)
      /\ Keeps(e, g, Others(H, sec), P)
    BY <1>2 DEF Changed
<1>4. Writes(e, d) /\ Keeps(e, d, Others(H, sec), P)
    <2>1. d.dev.swap \in Descriptor
        BY DEF DeviceOk, State, Device
    <2> QED  BY <1>1, <1>3, <2>1, WritesOn, KeepsOn
<1> QED  BY <1>1, <1>2, <1>3, <1>4 DEF Stored, SameNumbers, SameBlocks

(* sw_writev(), of a whole sector.                                         *)
LEMMA WriteSectorIs ==
    ASSUME NEW d, NEW H, NEW P, DeviceOk(d, H, P), NEW sec \in H, sec \notin P,
           NEW data \in Data, NEW e, e = WriteSector(d, sec, data)
    PROVE  Stored(e, d, H, P, sec, data)
<1> DEFINE g == Load(d, sec, "swap")
<1>1. Loaded(g, d, H, P, sec, "swap")
    BY LoadIs
<1>2. e = Put(g, g.dev.map[sec], data)
    BY DEF WriteSector, WriteAll
<1> HIDE DEF g
<1> QED  BY <1>1, <1>2, PutLoaded

(* sw_writev(), of a part.                                                 *)
LEMMA WritePartIs ==
    ASSUME NEW d, NEW H, NEW P, DeviceOk(d, H, P), NEW sec \in H, sec \notin P,
           NEW c, Has(d, sec, c), NEW u, WithV(c, u) \in Data, NEW e, e = WritePart(d, sec, u)
    PROVE  Stored(e, d, H, P, sec, WithV(c, u))
<1> DEFINE g == Load(d, sec, "swap")
<1>1. Loaded(g, d, H, P, sec, "swap")
    BY LoadIs
<1> HIDE DEF g
<1>2. DataOf(g, sec) = c
    BY <1>1 DEF Loaded, Has, DataOf
<1>3. e = Put(g, g.dev.map[sec], WithV(c, u))
    BY <1>2 DEF WritePart, WriteOver, WithV, g
<1> QED  BY <1>1, <1>3, PutLoaded

(* The first k sectors hold the block.                                     *)
SavedTo(y, d, H, P, b, S, k, x) ==
    /\ DeviceOk(y, H, P) /\ SameNumbers(y, d) /\ SameBlocks(y, d) /\ Writes(y, d)
    /\ Keeps(y, d, S, P)
    /\ \A j \in 1 .. k : Has(y, d.vec[b][j], Content(b, j, x))

LEMMA SavedToOn ==
    ASSUME NEW d \in State, NEW H, NEW P, NEW b \in Blocks, NEW S, NEW k \in Nat, k > 0, NEW x,
           OneBlock(d.vec[b], x.n, H, S), k <= x.n, x.n \in Nat,
           \A j \in 1 .. x.n : d.vec[b][j] \notin P,
           NEW y, SavedTo(y, d, H, P, b, S, k - 1, x), NEW z,
           Stored(z, y, H, P, d.vec[b][k], Content(b, k, x))
    PROVE  SavedTo(z, d, H, P, b, S, k, x)
<1> DEFINE sec == d.vec[b][k]
<1>1. /\ DeviceOk(z, H, P) /\ SameNumbers(z, y) /\ SameBlocks(z, y) /\ Writes(z, y)
      /\ Keeps(z, y, Others(H, sec), P) /\ Has(z, sec, Content(b, k, x))
    BY DEF Stored
<1>2. /\ DeviceOk(y, H, P) /\ SameNumbers(y, d) /\ SameBlocks(y, d) /\ Writes(y, d)
      /\ Keeps(y, d, S, P) /\ \A j \in 1 .. k - 1 : Has(y, d.vec[b][j], Content(b, j, x))
    BY DEF SavedTo
<1>3. S \subseteq Others(H, sec) /\ \A j \in 1 .. k - 1 : d.vec[b][j] \in Others(H, sec)
    BY DEF OneBlock, Others
<1>4. Keeps(z, y, S, P)
    BY <1>1, <1>3, KeepsSome
<1>5. Writes(z, d) /\ Keeps(z, d, S, P)
    <2>1. d.dev.swap \in Descriptor
        BY DEF State, Device
    <2> QED  BY <1>1, <1>2, <1>4, <2>1, WritesOn, KeepsOn
<1>6. \A j \in 1 .. k : Has(z, d.vec[b][j], Content(b, j, x))
    <2> TAKE j \in 1 .. k
    <2>1. CASE j = k
        BY <1>1, <2>1
    <2>2. CASE j \in 1 .. k - 1
        <3>1. d.vec[b][j] \in Others(H, sec) /\ d.vec[b][j] \notin P
            BY <1>3, <2>2
        <3> QED  BY <1>1, <1>2, <2>2, <3>1 DEF Keeps
    <2> QED  BY <2>1, <2>2
<1> QED  BY <1>1, <1>2, <1>5, <1>6 DEF SavedTo, SameNumbers, SameBlocks

LEMMA SaveWalkIs ==
    ASSUME NEW d, NEW H, NEW P, DeviceOk(d, H, P), NEW b \in Blocks, NEW S, NEW x,
           OneBlock(d.vec[b], x.n, H, S), \A k \in 1 .. x.n : d.vec[b][k] \notin P,
           d.mem[b] = Contents(b, x)
    PROVE  SavedTo(Walk(LAMBDA y, k : WriteSector(y, y.vec[b][k], y.mem[b][k]), d,
                        [k \in 1 .. Len(d.vec[b]) |-> k]),
                   d, H, P, b, S, x.n, x)
<1> DEFINE n == x.n
           s == [k \in 1 .. Len(d.vec[b]) |-> k]
           Step(y, k) == WriteSector(y, y.vec[b][k], y.mem[b][k])
           I == {p \in State \X Nat : SavedTo(p[1], d, H, P, b, S, p[2], x)}
           Op == [p \in I |-> Step(p[1], s[p[2] + 1])]
           F(f) == [k \in 0 .. n |-> IF k = 0 THEN d ELSE Step(f[k - 1], s[k])]
           g == CHOOSE f : f = F(f)
<1>1. d \in State /\ Len(d.vec[b]) = n /\ n \in Nat /\ Len(s) = n
    <2>1. d \in State /\ d.vec[b] \in Seq(Sectors) /\ Len(d.vec[b]) = n
        BY DEF DeviceOk, OneBlock
    <2> QED  BY <2>1
<1>2. << d, 0 >> \in I
    <2>1. SavedTo(d, d, H, P, b, S, 0, x)
        BY WritesSelf, KeepsSelf DEF SavedTo, SameNumbers, SameBlocks
    <2> QED  BY <1>1, <2>1
<1>3. ASSUME NEW k \in 1 .. n, NEW y, << y, k - 1 >> \in I
      PROVE  << Step(y, s[k]), k >> \in I
    <2> DEFINE z == Step(y, k)
    <2>1. y \in State /\ SavedTo(y, d, H, P, b, S, k - 1, x) /\ k \in Nat /\ k > 0 /\ k <= n
        BY <1>1, <1>3
    <2>2. z = WriteSector(y, d.vec[b][k], Content(b, k, x))
        BY <1>1, <2>1 DEF SavedTo, SameBlocks, Contents
    <2>3. Content(b, k, x) \in Data
        <3>1. d.mem[b] \in Seq(Data) /\ d.mem[b][k] = Content(b, k, x) /\ Len(d.mem[b]) = n
            BY <1>1, <2>1 DEF State, Contents
        <3> QED  BY <1>1, <2>1, <3>1, ElementOfSeq
    <2>4. d.vec[b][k] \in H /\ d.vec[b][k] \notin P /\ DeviceOk(y, H, P)
        BY <2>1 DEF OneBlock, SavedTo
    <2> HIDE DEF z
    <2>5. Stored(z, y, H, P, d.vec[b][k], Content(b, k, x))
        BY <2>2, <2>3, <2>4, WriteSectorIs
    <2>6. SavedTo(z, d, H, P, b, S, k, x)
        BY <1>1, <2>1, <2>5, SavedToOn
    <2>7. z \in State /\ s[k] = k
        BY <1>1, <2>6 DEF SavedTo, DeviceOk
    <2> QED  BY <2>1, <2>6, <2>7 DEF z
<1> HIDE DEF I, Step
<1>4. Closed(I, n, Op)
    <2> SUFFICES ASSUME NEW k \in 1 .. n, NEW y, << y, k - 1 >> \in I
                 PROVE  << Op[<< y, k - 1 >>], k >> \in I
        BY DEF Closed
    <2>1. Op[<< y, k - 1 >>] = Step(y, s[k])
        OBVIOUS
    <2> QED  BY <1>3, <2>1
<1>5. g = F(g)
    <2>1. PICK f : Walks(f, n, d, Op) /\ \A k \in 0 .. n : << f[k], k >> \in I
        BY <1>1, <1>2, <1>4, WalkWithin
    <2>2. \A k \in 1 .. n : Op[<< f[k - 1], k - 1 >>] = Step(f[k - 1], s[k])
        BY <1>1, <2>1
    <2> HIDE DEF Op
    <2>3. \A k \in 0 .. n : k = 0 \/ k \in 1 .. n
        BY <1>1
    <2>4. f = F(f)
        BY <2>1, <2>2, <2>3 DEF Walks
    <2> QED  BY <2>4
<1>6. Walk(Step, d, s) = g[n]
    BY <1>1 DEF Walk
<1>7. Walk(LAMBDA y, k : WriteSector(y, y.vec[b][k], y.mem[b][k]), d, s) = g[n]
    BY <1>6 DEF Step
<1> HIDE DEF g, s
<1>8. << g[n], n >> \in I
    <2>1. g[0] = d /\ \A k \in 1 .. n : g[k] = Step(g[k - 1], s[k])
        BY <1>1, <1>5
    <2>2. \A k \in 1 .. n : << g[k - 1], k - 1 >> \in I => g[k] = Op[<< g[k - 1], k - 1 >>]
        BY <1>1, <2>1
    <2> HIDE DEF Op
    <2> QED  BY <1>1, <1>2, <1>4, <2>1, <2>2, WalkEnds
<1> QED  BY <1>7, <1>8 DEF I, s

---------------------------------------------------------------------------
(* All sectors of a block, or some at its end, lose their place, or are    *)
(* deleted.                                                                *)

Wiped(e, d, H, P, S) ==
    /\ DeviceOk(e, H, P) /\ SameNumbers(e, d) /\ SameBlocks(e, d) /\ Writes(e, d)
    /\ Keeps(e, d, S, P) /\ e.disk = d.disk

LEMMA ReverseBlock ==
    ASSUME NEW s \in Seq(Sectors), NEW H, NEW S, NEW P, OneBlock(s, Len(s), H, S),
           \A k \in 1 .. Len(s) : s[k] \notin P, NEW r, r = Reverse(s)
    PROVE  /\ OneBlock(r, Len(s), H, S) /\ Len(r) = Len(s)
           /\ \A k \in 1 .. Len(s) : r[k] \notin P
           /\ Left(H, r, Len(s)) = Left(H, s, Len(s))
<1> DEFINE n == Len(s)
<1>1. /\ n \in Nat /\ Len(r) = n /\ r \in Seq(Sectors)
      /\ \A k \in 1 .. n : r[k] = s[n - k + 1]
    BY ReverseElem
<1>2. \A k \in 1 .. n : n - k + 1 \in 1 .. n /\ r[n - k + 1] = s[k]
    <2> TAKE k \in 1 .. n
    <2>1. n - k + 1 \in 1 .. n /\ n - (n - k + 1) + 1 = k
        BY <1>1
    <2> QED  BY <1>1, <2>1
<1> HIDE DEF n
<1>3. \A k \in 1 .. n : r[k] \in H /\ r[k] \notin S /\ r[k] \notin P
    BY <1>1, <1>2 DEF OneBlock, n
<1>4. \A j, k \in 1 .. n : r[j] = r[k] => j = k
    <2> SUFFICES ASSUME NEW j \in 1 .. n, NEW k \in 1 .. n, r[j] = r[k]  PROVE j = k
        OBVIOUS
    <2>1. s[n - j + 1] = s[n - k + 1] /\ n - j + 1 \in 1 .. n /\ n - k + 1 \in 1 .. n
        BY <1>1, <1>2
    <2>2. n - j + 1 = n - k + 1
        BY <2>1 DEF OneBlock, n
    <2> QED  BY <1>1, <2>2
<1>5. Left(H, r, n) = Left(H, s, n)
    BY <1>1, <1>2 DEF Left
<1> QED  BY <1>1, <1>3, <1>4, <1>5 DEF OneBlock, n

(* sw_wipev()                                                              *)
LEMMA WipeVIs ==
    ASSUME NEW d, NEW H, NEW P, DeviceOk(d, H, P), NEW s \in Seq(Sectors), NEW S,
           OneBlock(s, Len(s), H, S), \A k \in 1 .. Len(s) : s[k] \notin P,
           NEW e, e = [d EXCEPT !.dev = WipeV(d.dev, s)]
    PROVE  Wiped(e, d, H, P, S)
<1> DEFINE n == Len(s)
           r == Reverse(s)
           At(y) == [d EXCEPT !.dev = y]
           I == {p \in Device \X Nat : Wiped(At(p[1]), d, H, P, S)}
           Op == [p \in I |-> Wipe(p[1], r[p[2] + 1])]
           F(f) == [k \in 0 .. n |-> IF k = 0 THEN d.dev ELSE Wipe(f[k - 1], r[k])]
           g == CHOOSE f : f = F(f)
<1>1. d \in State /\ d.dev \in Device /\ n \in Nat /\ At(d.dev) = d
    <2>1. d \in State /\ d.dev \in Device /\ n \in Nat
        BY DEF DeviceOk, State
    <2> QED  BY <2>1 DEF State
<1>0. OneBlock(r, n, H, S) /\ (\A k \in 1 .. n : r[k] \notin P) /\ Left(H, r, n) = Left(H, s, n)
      /\ Len(r) = n
    BY ReverseBlock
<1> HIDE DEF r
<1>2. << d.dev, 0 >> \in I
    BY <1>1, WritesSelf, KeepsSelf DEF Wiped, SameNumbers, SameBlocks
<1>3. ASSUME NEW k \in 1 .. n, NEW y, << y, k - 1 >> \in I
      PROVE  << Wipe(y, r[k]), k >> \in I
    <2> DEFINE x == At(y)
               z == At(Wipe(y, r[k]))
               sec == r[k]
    <2>1. /\ y \in Device /\ Wiped(x, d, H, P, S) /\ x.dev = y
          /\ z = [x EXCEPT !.dev = Wipe(x.dev, sec)]
          /\ z.dev = Wipe(y, sec)
        BY <1>1, <1>3 DEF State
    <2>2. DeviceOk(x, H, P) /\ sec \in H /\ sec \notin P /\ S \subseteq Others(H, sec)
        BY <1>0, <2>1 DEF Wiped, Others, OneBlock
    <2> HIDE DEF x, z, sec
    <2>3. Changed(z, x, H, P, P, sec)
        BY <2>1, <2>2, WipeIs
    <2>4. /\ DeviceOk(z, H, P) /\ SameNumbers(z, x) /\ SameBlocks(z, x) /\ Writes(z, x)
          /\ z.disk = x.disk /\ Keeps(z, x, S, P)
        BY <2>2, <2>3, KeepsSome DEF Changed
    <2>5. /\ SameNumbers(x, d) /\ SameBlocks(x, d) /\ Writes(x, d) /\ Keeps(x, d, S, P)
          /\ x.disk = d.disk
        BY <2>1 DEF Wiped
    <2>6. Writes(z, d) /\ Keeps(z, d, S, P)
        <3>1. d.dev.swap \in Descriptor
            BY <1>1 DEF State, Device
        <3> QED  BY <2>4, <2>5, <3>1, WritesOn, KeepsOn
    <2>7. Wiped(z, d, H, P, S) /\ z.dev \in Device
        BY <2>4, <2>5, <2>6 DEF Wiped, SameNumbers, SameBlocks, DeviceOk, State
    <2> QED  BY <1>1, <2>1, <2>7 DEF z, sec
<1> HIDE DEF I
<1>4. Closed(I, n, Op)
    <2> SUFFICES ASSUME NEW k \in 1 .. n, NEW y, << y, k - 1 >> \in I
                 PROVE  << Op[<< y, k - 1 >>], k >> \in I
        BY DEF Closed
    <2>1. Op[<< y, k - 1 >>] = Wipe(y, r[k])
        OBVIOUS
    <2> QED  BY <1>3, <2>1
<1>5. g = F(g)
    <2>1. PICK f : Walks(f, n, d.dev, Op) /\ \A k \in 0 .. n : << f[k], k >> \in I
        BY <1>1, <1>2, <1>4, WalkWithin
    <2>2. \A k \in 1 .. n : Op[<< f[k - 1], k - 1 >>] = Wipe(f[k - 1], r[k])
        BY <1>1, <2>1
    <2> HIDE DEF Op
    <2>3. \A k \in 0 .. n : k = 0 \/ k \in 1 .. n
        BY <1>1
    <2>4. f = F(f)
        BY <2>1, <2>2, <2>3 DEF Walks
    <2> QED  BY <2>4
<1>6. e = At(g[n])
    BY <1>0, <1>1 DEF WipeV, Walk, r
<1> HIDE DEF g
<1>7. << g[n], n >> \in I
    <2>1. g[0] = d.dev /\ \A k \in 1 .. n : g[k] = Wipe(g[k - 1], r[k])
        <3>1. 0 \in 0 .. n /\ \A k \in 1 .. n : k \in 0 .. n /\ k # 0
            BY <1>1
        <3> QED  BY ONLY <1>5, <3>1
    <2>2. \A k \in 1 .. n : << g[k - 1], k - 1 >> \in I => g[k] = Op[<< g[k - 1], k - 1 >>]
        BY <1>1, <2>1
    <2> HIDE DEF Op
    <2> QED  BY <1>1, <1>2, <1>4, <2>1, <2>2, WalkEnds
<1> QED  BY <1>6, <1>7 DEF I

Deleted(e, d, G, P, S) ==
    /\ DeviceOk(e, G, P) /\ SameBlocks(e, d) /\ Writes(e, d)
    /\ Keeps(e, d, S, P) /\ e.disk = d.disk /\ Numbers(e.dev.nsectors, e.dev.mfree, G)

LEMMA NumbersDel ==
    ASSUME NEW n, NEW mfree \in Seq(Sectors), NEW H, Numbers(n, mfree, H), NEW sec \in H,
           sec \in Sectors
    PROVE  Numbers(n, << sec >> \o mfree, Others(H, sec))
<1>1. /\ n <= SWAPSIZE /\ IsInjective(mfree) /\ H \cap ToSet(mfree) = {}
      /\ H \cup ToSet(mfree) = 0 .. n - 1
    BY DEF Numbers
<1>2. sec \notin ToSet(mfree)
    BY <1>1
<1>3. /\ ToSet(<< sec >> \o mfree) = ToSet(mfree) \cup {sec} /\ IsInjective(<< sec >> \o mfree)
    BY <1>1, <1>2, ConsElem
<1> QED  BY <1>1, <1>2, <1>3 DEF Numbers, Others

(* sw_delv()                                                               *)
LEMMA DelVIs ==
    ASSUME NEW d, NEW H, NEW P, DeviceOk(d, H, P), NEW s \in Seq(Sectors), NEW S,
           Numbers(d.dev.nsectors, d.dev.mfree, H),
           OneBlock(s, Len(s), H, S), \A k \in 1 .. Len(s) : s[k] \notin P,
           NEW e, e = [d EXCEPT !.dev = DelV(d.dev, s)]
    PROVE  Deleted(e, d, Left(H, s, Len(s)), P, S)
<1> DEFINE n == Len(s)
           r == Reverse(s)
           At(y) == [d EXCEPT !.dev = y]
           I == {p \in Device \X Nat : Deleted(At(p[1]), d, Left(H, r, p[2]), P, S)}
           Op == [p \in I |-> Del(p[1], r[p[2] + 1])]
           F(f) == [k \in 0 .. n |-> IF k = 0 THEN d.dev ELSE Del(f[k - 1], r[k])]
           g == CHOOSE f : f = F(f)
<1>1. d \in State /\ d.dev \in Device /\ n \in Nat /\ At(d.dev) = d
    <2>1. d \in State /\ d.dev \in Device /\ n \in Nat
        BY DEF DeviceOk, State
    <2> QED  BY <2>1 DEF State
<1>0. OneBlock(r, n, H, S) /\ (\A k \in 1 .. n : r[k] \notin P) /\ Left(H, r, n) = Left(H, s, n)
      /\ Len(r) = n
    BY ReverseBlock
<1> HIDE DEF r
<1>2. << d.dev, 0 >> \in I
    <2>1. Left(H, r, 0) = H
        BY DEF Left
    <2> QED  BY <1>1, <2>1, WritesSelf, KeepsSelf DEF Deleted, SameBlocks
<1>3. ASSUME NEW k \in 1 .. n, NEW y, << y, k - 1 >> \in I
      PROVE  << Del(y, r[k]), k >> \in I
    <2> DEFINE x == At(y)
               z == At(Del(y, r[k]))
               sec == r[k]
               G == Left(H, r, k - 1)
    <2>1. /\ y \in Device /\ Deleted(x, d, G, P, S) /\ x.dev = y
          /\ z = [x EXCEPT !.dev = Del(x.dev, sec)] /\ z.dev = Del(y, sec)
        BY <1>1, <1>3 DEF State
    <2>2. sec \in G /\ sec \notin P /\ S \subseteq Others(G, sec) /\ sec \in Sectors
        BY <1>0, <1>1 DEF Others, Left, DeviceOk, OneBlock
    <2>3. Others(G, sec) = Left(H, r, k)
        BY <1>1 DEF Others, Left
    <2> HIDE DEF x, z, sec, G
    <2>4. DeviceOk(x, G, P)
        BY <2>1 DEF Deleted
    <2>5. /\ DeviceOk(z, Others(G, sec), P) /\ SameBlocks(z, x) /\ Writes(z, x)
          /\ z.disk = x.disk /\ z.dev.swap = x.dev.swap
          /\ Keeps(z, x, Others(G, sec), P)
          /\ z.dev.nsectors = x.dev.nsectors /\ z.dev.mfree = << sec >> \o x.dev.mfree
        <3>0. DelOne(z, x, G, P, sec)
            <4>1. /\ DeviceOk(x, G, P) /\ sec \in G /\ sec \notin P
                  /\ z = [x EXCEPT !.dev = Del(x.dev, sec)]
                BY <2>1, <2>2, <2>4
            <4> QED  BY ONLY <4>1, DelIs
        <3> QED  BY <3>0 DEF DelOne
    <2>6. /\ SameBlocks(x, d) /\ Writes(x, d) /\ Keeps(x, d, S, P)
          /\ x.disk = d.disk /\ Numbers(x.dev.nsectors, x.dev.mfree, G)
        BY <2>1 DEF Deleted
    <2>7. Writes(z, d) /\ Keeps(z, d, S, P)
        <3>1. d.dev.swap \in Descriptor
            BY <1>1 DEF State, Device
        <3>2. Keeps(z, x, S, P)
            BY <2>2, <2>5, KeepsSome
        <3> QED  BY <2>5, <2>6, <3>1, <3>2, WritesOn, KeepsOn
    <2>8. Numbers(z.dev.nsectors, z.dev.mfree, Others(G, sec))
        <3>1. x.dev.mfree \in Seq(Sectors)
            BY <2>1, DeviceFields
        <3> QED  BY <2>2, <2>5, <2>6, <3>1, NumbersDel
    <2>9. Deleted(z, d, Left(H, r, k), P, S) /\ z.dev \in Device
        BY <2>3, <2>5, <2>6, <2>7, <2>8 DEF Deleted, SameBlocks, DeviceOk, State
    <2> QED  BY <1>1, <2>1, <2>9 DEF z, sec
<1> HIDE DEF I
<1>4. Closed(I, n, Op)
    <2> SUFFICES ASSUME NEW k \in 1 .. n, NEW y, << y, k - 1 >> \in I
                 PROVE  << Op[<< y, k - 1 >>], k >> \in I
        BY DEF Closed
    <2>1. Op[<< y, k - 1 >>] = Del(y, r[k])
        OBVIOUS
    <2> QED  BY <1>3, <2>1
<1>5. g = F(g)
    <2>1. PICK f : Walks(f, n, d.dev, Op) /\ \A k \in 0 .. n : << f[k], k >> \in I
        BY <1>1, <1>2, <1>4, WalkWithin
    <2>2. \A k \in 1 .. n : Op[<< f[k - 1], k - 1 >>] = Del(f[k - 1], r[k])
        BY <1>1, <2>1
    <2> HIDE DEF Op
    <2>3. \A k \in 0 .. n : k = 0 \/ k \in 1 .. n
        BY <1>1
    <2>4. f = F(f)
        BY <2>1, <2>2, <2>3 DEF Walks
    <2> QED  BY <2>4
<1>6. e = At(g[n])
    BY <1>0, <1>1 DEF DelV, Walk, r
<1> HIDE DEF g
<1>7. << g[n], n >> \in I
    <2>1. g[0] = d.dev /\ \A k \in 1 .. n : g[k] = Del(g[k - 1], r[k])
        <3>1. 0 \in 0 .. n /\ \A k \in 1 .. n : k \in 0 .. n /\ k # 0
            BY <1>1
        <3> QED  BY ONLY <1>5, <3>1
    <2>2. \A k \in 1 .. n : << g[k - 1], k - 1 >> \in I => g[k] = Op[<< g[k - 1], k - 1 >>]
        BY <1>1, <2>1
    <2> HIDE DEF Op
    <2> QED  BY <1>1, <1>2, <1>4, <2>1, <2>2, WalkEnds
<1> QED  BY <1>0, <1>6, <1>7 DEF I

---------------------------------------------------------------------------
(* sw_newv()                                                               *)

LEMMA SubElem ==
    ASSUME NEW T, NEW s \in Seq(T), NEW m \in Int, NEW n \in Int, 1 <= m, m <= n + 1, n <= Len(s)
    PROVE  /\ SubSeq(s, m, n) \in Seq(T) /\ Len(SubSeq(s, m, n)) = n - m + 1
           /\ \A k \in 1 .. n - m + 1 : SubSeq(s, m, n)[k] = s[m + k - 1]
<1>1. /\ SubSeq(s, m, n) = [k \in 1 .. n - m + 1 |-> s[m + k - 1]] /\ n - m + 1 \in Nat
    OBVIOUS
<1>2. \A k \in 1 .. n - m + 1 : s[m + k - 1] \in T
    <2> TAKE k \in 1 .. n - m + 1
    <2>1. m + k - 1 \in 1 .. Len(s)
        OBVIOUS
    <2> QED  BY <2>1, ElementOfSeq
<1> QED  BY <1>1, <1>2

LEMMA DropElem ==
    ASSUME NEW T, NEW s \in Seq(T), NEW o \in 0 .. Len(s), NEW t, t = SubSeq(s, o + 1, Len(s))
    PROVE  /\ t \in Seq(T) /\ Len(t) = Len(s) - o
           /\ \A k \in 1 .. Len(s) - o : t[k] = s[o + k] /\ o + k \in 1 .. Len(s)
<1>1. /\ t = [k \in 1 .. Len(s) - (o + 1) + 1 |-> s[o + 1 + k - 1]] /\ Len(s) \in Nat
      /\ Len(s) - (o + 1) + 1 = Len(s) - o
    OBVIOUS
<1>2. \A k \in 1 .. Len(s) - o : o + 1 + k - 1 = o + k /\ o + k \in 1 .. Len(s)
    BY <1>1
<1>3. t = [k \in 1 .. Len(s) - o |-> s[o + k]]
    BY <1>1, <1>2
<1>4. \A k \in 1 .. Len(s) - o : s[o + k] \in T
    BY <1>2, ElementOfSeq
<1> DEFINE n == Len(s) - o
<1>5. n \in Nat
    BY <1>1
<1> HIDE DEF n
<1>6. t = [k \in 1 .. n |-> s[o + k]] /\ \A k \in 1 .. n : s[o + k] \in T
    BY <1>3, <1>4 DEF n
<1>7. t \in Seq(T) /\ Len(t) = n /\ \A k \in 1 .. n : t[k] = s[o + k]
    BY ONLY <1>5, <1>6
<1> QED  BY <1>2, <1>7 DEF n

(* The sectors that are not in use come after those in use and the free    *)
(* ones.                                                                   *)
NewOnes(v, size) ==
    LET old == IF size < Len(v.mfree) THEN size ELSE Len(v.mfree)
    IN [k \in 1 .. size |-> IF k <= old THEN v.mfree[k] ELSE v.nsectors + k - old - 1]
NewCount(v, size) == v.nsectors + size - (IF size < Len(v.mfree) THEN size ELSE Len(v.mfree))
NewFree(v, size) ==
    SubSeq(v.mfree, (IF size < Len(v.mfree) THEN size ELSE Len(v.mfree)) + 1, Len(v.mfree))

NewNumbers(v, H, size, new, G) ==
    /\ new \in Seq(Sectors) /\ Len(new) = size
    /\ \A j, k \in 1 .. size : new[j] = new[k] => j = k
    /\ \A k \in 1 .. size : new[k] \notin H
    /\ NewFree(v, size) \in Seq(Sectors) /\ NewCount(v, size) \in Nat
    /\ Numbers(NewCount(v, size), NewFree(v, size), G)

LEMMA NumbersNew ==
    ASSUME NEW v \in Device, NEW H, Numbers(v.nsectors, v.mfree, H), NEW size \in Nat,
           NewCount(v, size) <= SWAPSIZE, NEW new, new = NewOnes(v, size),
           NEW G, G = H \cup ToSet(new)
    PROVE  NewNumbers(v, H, size, new, G)
<1> DEFINE m == v.mfree
           ns == v.nsectors
           old == IF size < Len(m) THEN size ELSE Len(m)
           n == ns + size - old
           free == SubSeq(m, old + 1, Len(m))
<1>1. /\ m \in Seq(Sectors) /\ ns \in Nat /\ SWAPSIZE \in Nat /\ Len(m) \in Nat
      /\ old \in Nat /\ old <= size /\ old <= Len(m) /\ (old = size \/ old = Len(m))
      /\ n <= SWAPSIZE /\ n \in Nat /\ n >= ns
    <2>1. m \in Seq(Sectors) /\ ns \in Nat /\ SWAPSIZE \in Nat /\ Len(m) \in Nat
        BY DeviceFields, ConstantsAre
    <2> QED  BY <2>1 DEF NewCount
<1>2. /\ new = [k \in 1 .. size |-> IF k <= old THEN m[k] ELSE ns + k - old - 1]
      /\ NewCount(v, size) = n /\ NewFree(v, size) = free
    BY DEF NewOnes, NewCount, NewFree
<1>3. /\ H \cap ToSet(m) = {} /\ H \cup ToSet(m) = 0 .. ns - 1 /\ ns <= SWAPSIZE
      /\ \A j, k \in 1 .. Len(m) : m[j] = m[k] => j = k
      /\ \A k \in 1 .. Len(m) : m[k] \in ToSet(m) /\ m[k] \in 0 .. ns - 1 /\ m[k] \notin H
    <2>1. /\ H \cap ToSet(m) = {} /\ H \cup ToSet(m) = 0 .. ns - 1 /\ ns <= SWAPSIZE
          /\ IsInjective(m)
        BY DEF Numbers
    <2> QED  BY <1>1, <2>1, ToSetIs
<1> HIDE DEF m, ns, old, n, free
<1>4. /\ \A k \in 1 .. size : k <= old => new[k] = m[k] /\ k \in 1 .. Len(m)
      /\ \A k \in 1 .. size : k > old => new[k] = ns + k - old - 1
    BY <1>1, <1>2
<1>5. /\ free \in Seq(Sectors) /\ Len(free) = Len(m) - old
      /\ \A k \in 1 .. Len(m) - old : free[k] = m[old + k] /\ old + k \in 1 .. Len(m)
    <2>1. m \in Seq(Sectors) /\ old \in 0 .. Len(m) /\ free = SubSeq(m, old + 1, Len(m))
        BY <1>1 DEF free
    <2> QED  BY ONLY <2>1, DropElem
<1>6. \A k \in 1 .. size : new[k] \in 0 .. n - 1 /\ new[k] \notin H
    <2> TAKE k \in 1 .. size
    <2>1. CASE k <= old
        BY <1>1, <1>3, <1>4, <2>1
    <2>2. CASE k > old
        <3>1. new[k] = ns + k - old - 1
            BY <1>4, <2>2
        <3>2. \A x \in H : x \in 0 .. ns - 1
            BY <1>3
        <3> QED  BY <1>1, <2>2, <3>1, <3>2 DEF n
    <2> QED  BY <1>1, <2>1, <2>2
<1>7. new \in Seq(Sectors) /\ Len(new) = size
    <2>1. \A k \in 1 .. size : new[k] \in Sectors
        BY <1>1, <1>6 DEF Sectors
    <2>2. new = [k \in 1 .. size |-> new[k]]
        BY <1>2
    <2> QED  BY <2>1, <2>2
<1>8. \A j, k \in 1 .. size : new[j] = new[k] => j = k
    <2> SUFFICES ASSUME NEW j \in 1 .. size, NEW k \in 1 .. size, new[j] = new[k]  PROVE j = k
        OBVIOUS
    <2>1. CASE j <= old /\ k <= old
        BY <1>3, <1>4, <2>1
    <2>2. CASE j > old /\ k > old
        BY <1>1, <1>4, <2>2
    <2>3. CASE j <= old /\ k > old
        BY <1>1, <1>3, <1>4, <2>3
    <2>4. CASE j > old /\ k <= old
        BY <1>1, <1>3, <1>4, <2>4
    <2> QED  BY <1>1, <2>1, <2>2, <2>3, <2>4
<1>9. /\ \A x : x \in ToSet(new) <=> \E k \in 1 .. size : new[k] = x
      /\ \A x : x \in ToSet(free) <=> \E k \in 1 .. Len(m) - old : m[old + k] = x
      /\ IsInjective(free)
    <2>1. \A x : x \in ToSet(new) <=> \E k \in 1 .. size : new[k] = x
        BY <1>7, ToSetIs
    <2>2. \A x : x \in ToSet(free) <=> \E k \in 1 .. Len(m) - old : m[old + k] = x
        BY <1>5, ToSetIs
    <2>3. \A j, k \in 1 .. Len(free) : free[j] = free[k] => j = k
        <3> SUFFICES ASSUME NEW j \in 1 .. Len(free), NEW k \in 1 .. Len(free),
                            free[j] = free[k]
                     PROVE  j = k
            OBVIOUS
        <3>1. /\ j \in 1 .. Len(m) - old /\ k \in 1 .. Len(m) - old
            BY <1>5
        <3>2. /\ m[old + j] = m[old + k] /\ old + j \in 1 .. Len(m) /\ old + k \in 1 .. Len(m)
            BY <1>5, <3>1
        <3>3. old + j = old + k
            BY <1>3, <3>2
        <3> QED  BY <1>1, <3>1, <3>3
    <2> QED  BY <1>5, <2>1, <2>2, <2>3, ToSetIs
<1>10. (H \cup ToSet(new)) \cap ToSet(free) = {}
    <2> SUFFICES ASSUME NEW x, x \in ToSet(free), x \in H \cup ToSet(new)  PROVE FALSE
        OBVIOUS
    <2>1. PICK i \in 1 .. Len(m) - old : m[old + i] = x
        BY <1>9
    <2>2. old + i \in 1 .. Len(m) /\ x \notin H /\ x \in 0 .. ns - 1
        BY <1>3, <1>5, <2>1
    <2>3. PICK k \in 1 .. size : new[k] = x
        BY <1>9, <2>2
    <2>4. CASE k <= old
        BY <1>1, <1>3, <1>4, <2>1, <2>2, <2>3, <2>4
    <2>5. CASE k > old
        BY <1>1, <1>4, <2>2, <2>3, <2>5
    <2> QED  BY <1>1, <2>4, <2>5
<1>11. (H \cup ToSet(new)) \cup ToSet(free) = 0 .. n - 1
    <2>1. \A x \in ToSet(new) : x \in 0 .. n - 1
        BY <1>6, <1>9
    <2>2. \A x \in ToSet(free) : x \in 0 .. ns - 1
        BY <1>3, <1>5, <1>9
    <2>3. \A x \in 0 .. n - 1 : x \in H \/ x \in ToSet(new) \/ x \in ToSet(free)
        <3> TAKE x \in 0 .. n - 1
        <3>1. CASE x < ns /\ x \notin H
            <4>1. x \in ToSet(m)
                BY <1>1, <1>3, <3>1
            <4>2. PICK k \in 1 .. Len(m) : m[k] = x
                BY <1>1, <4>1, ToSetIs
            <4>3. CASE k <= old
                <5>1. k \in 1 .. size
                    BY <1>1, <4>3
                <5> QED  BY <1>4, <1>9, <4>2, <4>3, <5>1
            <4>4. CASE k > old
                <5>1. k - old \in 1 .. Len(m) - old /\ old + (k - old) = k
                    BY <1>1, <4>4
                <5> QED  BY <1>9, <4>2, <5>1
            <4> QED  BY <1>1, <4>3, <4>4
        <3>2. CASE x >= ns
            <4>1. x - ns + old + 1 \in 1 .. size /\ x - ns + old + 1 > old
                BY <1>1, <3>2 DEF n
            <4>2. new[x - ns + old + 1] = ns + (x - ns + old + 1) - old - 1
                BY <1>4, <4>1
            <4>3. ns + (x - ns + old + 1) - old - 1 = x
                BY <1>1
            <4> QED  BY <1>9, <4>1, <4>2, <4>3
        <3> QED  BY <1>1, <3>1, <3>2
    <2>4. 0 .. ns - 1 \subseteq 0 .. n - 1
        BY <1>1
    <2> QED  BY <1>3, <2>1, <2>2, <2>3, <2>4
<1> QED  BY <1>1, <1>2, <1>5, <1>6, <1>7, <1>8, <1>9, <1>10, <1>11
        DEF Numbers, NewNumbers

(* What is kept when sectors are taken into use.                           *)
Grown(e, d, H, G, P) ==
    /\ DeviceOk(e, G, P) /\ Numbers(e.dev.nsectors, e.dev.mfree, G) /\ SameBlocks(e, d)
    /\ Writes(e, d) /\ e.disk = d.disk /\ Keeps(e, d, H, P)

LEMMA NewVIs ==
    ASSUME NEW d, NEW H, NEW P, DeviceOk(d, H, P), Numbers(d.dev.nsectors, d.dev.mfree, H),
           NEW size \in Nat, NewCount(d.dev, size) <= SWAPSIZE,
           NEW e, e = [d EXCEPT !.dev = NewV(d.dev, size).dev],
           NEW G, G = H \cup ToSet(NewOnes(d.dev, size))
    PROVE  Grown(e, d, H, G, P) /\ NewV(d.dev, size).vec = NewOnes(d.dev, size)
<1> DEFINE v == d.dev
           w == e.dev
           new == NewOnes(v, size)
           free == NewFree(v, size)
           n == NewCount(v, size)
<1>1. /\ d \in State /\ v \in Device /\ Cache(v, H) /\ Places(v, H, P)
      /\ H \subseteq Sectors /\ P \subseteq H /\ v.map \in [Sectors -> Place]
      /\ v.dump \in {NoFile, names.snapshot, names.old}
      /\ v.dump # NoFile => v.swap # v.dump
      /\ v.ssectors \in Nat /\ v.sfree \in Seq(Nat)
    <2>1. /\ d \in State /\ v \in Device /\ Cache(v, H) /\ Places(v, H, P)
          /\ H \subseteq Sectors /\ P \subseteq H
          /\ v.dump \in {NoFile, names.snapshot, names.old}
          /\ v.dump # NoFile => v.swap # v.dump
        BY DEF DeviceOk, State
    <2> QED  BY <2>1, DeviceFields
<1>2. NewV(v, size).vec = new
    BY DEF NewV, NewOnes
<1>3. NewV(v, size).dev = [v EXCEPT !.map = [s \in Sectors |-> IF s \in ToSet(new) THEN UNUSED
                                                              ELSE v.map[s]],
                                    !.mfree = free, !.nsectors = n]
    BY <1>1 DEF NewV, NewOnes, NewFree, NewCount, Device
<1>4. /\ new \in Seq(Sectors) /\ Len(new) = size
      /\ \A k \in 1 .. size : new[k] \notin H
      /\ free \in Seq(Sectors) /\ n \in Nat
      /\ Numbers(n, free, G)
    <2>1. /\ v \in Device /\ Numbers(v.nsectors, v.mfree, H) /\ size \in Nat
          /\ NewCount(v, size) <= SWAPSIZE /\ new = NewOnes(v, size) /\ G = H \cup ToSet(new)
        BY <1>1
    <2>2. NewNumbers(v, H, size, new, G)
        <3> HIDE DEF v, new
        <3> QED  BY ONLY <2>1, NumbersNew
    <2> QED  BY <2>2 DEF NewNumbers
<1> HIDE DEF new, free, n
<1>5. ToSet(new) \subseteq Sectors /\ ToSet(new) \cap H = {} /\ G = H \cup ToSet(new)
    BY <1>4, ToSetIs DEF new
<1>6. [s \in Sectors |-> IF s \in ToSet(new) THEN UNUSED ELSE v.map[s]] = v.map
    <2>1. \A s \in ToSet(new) : v.map[s] = UNUSED
        BY <1>1, <1>5 DEF Cache
    <2> QED  BY <1>1, <2>1
<1>7. w = [v EXCEPT !.mfree = free, !.nsectors = n] /\ e = [d EXCEPT !.dev = w]
      /\ e.disk = d.disk /\ SameBlocks(e, d)
    <2>1. w = [v EXCEPT !.map = v.map, !.mfree = free, !.nsectors = n] /\ e = [d EXCEPT !.dev = w]
          /\ e.disk = d.disk /\ SameBlocks(e, d)
        BY <1>1, <1>3, <1>6 DEF State, SameBlocks
    <2> QED  BY <1>1, <2>1 DEF Device
<1> HIDE DEF v, w
<1>8. /\ w \in Device /\ w.mfree = free /\ w.nsectors = n /\ w.map = v.map /\ w.slot = v.slot
      /\ w.order = v.order /\ w.lfree = v.lfree /\ w.sfree = v.sfree
      /\ w.ssectors = v.ssectors /\ w.sbarrier = v.sbarrier /\ w.swapping = v.swapping
      /\ w.swap = v.swap /\ w.dump = v.dump
    BY <1>1, <1>4, <1>7 DEF Device
<1>9. Cache(w, G)
    BY <1>1, <1>5, <1>8 DEF Cache
<1>10. \A t : SameView(w, v, t) /\ PlaceOf(w, t) = PlaceOf(v, t)
    BY <1>8 DEF SameView, InSlot, PlaceOf
<1>11. \A t \in ToSet(new) : PlaceOf(v, t) = UNUSED
    BY <1>1, <1>5, ConstantsAre DEF Cache, PlaceOf, InSlot
<1>12. Places(w, G, P)
    <2>1. \A t \in G : PlaceOf(v, t) # UNUSED => t \in H
        BY <1>5, <1>11
    <2>2. \A s, t \in G \ P : PlaceOf(w, s) = PlaceOf(w, t) /\ PlaceOf(w, s) # UNUSED => s = t
        BY <1>1, <1>10, <2>1 DEF Places
    <2>3. \A t \in G \ P : PlaceOf(w, t) < w.ssectors /\ PlaceOf(w, t) \notin ToSet(w.sfree)
        <3> TAKE t \in G \ P
        <3>1. CASE t \in H
            BY <1>1, <1>8, <1>10, <3>1 DEF Places
        <3>2. CASE t \in ToSet(new)
            <4>1. PlaceOf(w, t) = -1
                BY <1>10, <1>11, <3>2 DEF UNUSED
            <4>2. \A x \in ToSet(v.sfree) : x \in Nat
                BY <1>1, ToSetIs
            <4> QED  BY <1>1, <1>8, <4>1, <4>2
        <3> QED  BY <1>5, <3>1, <3>2
    <2> QED  BY <1>1, <1>8, <1>10, <2>2, <2>3 DEF Places, SameView
<1>13. DeviceOk(e, G, P)
    <2>1. e \in State /\ G \subseteq Sectors /\ P \subseteq G
        BY <1>1, <1>5, <1>7, <1>8 DEF State
    <2> QED  BY <1>1, <1>8, <1>9, <1>12, <2>1 DEF DeviceOk, v, w
<1>14. Writes(e, d)
    BY <1>7, <1>8 DEF Writes, v, w
<1>15. Keeps(e, d, H, P)
    <2> SUFFICES ASSUME NEW t \in H
                 PROVE  /\ \A c : Has(d, t, c) => Has(e, t, c)
                        /\ \A g \in Files : \A c : HasIn(d, g, t, c) => HasIn(e, g, t, c)
                        /\ ~InSlot(v, t) => ~InSlot(w, t) /\ w.map[t] = v.map[t]
        BY DEF Keeps, v, w
    <2>1. SameView(e.dev, d.dev, t) /\ e.dev.swap = d.dev.swap /\ e.disk = d.disk
        BY <1>7, <1>8, <1>10 DEF v, w
    <2>2. \A c : Has(d, t, c) => Has(e, t, c)
        BY <2>1, ViewHas
    <2>3. \A g \in Files : \A c : HasIn(d, g, t, c) => HasIn(e, g, t, c)
        BY <2>1, ViewHasIn
    <2> QED  BY <2>1, <2>2, <2>3 DEF SameView, v, w
<1>16. Numbers(w.nsectors, w.mfree, G)
    BY <1>4, <1>8
<1> QED  BY <1>2, <1>7, <1>13, <1>14, <1>15, <1>16 DEF Grown, v, w, new

---------------------------------------------------------------------------
(* There are enough sectors.                                               *)

LEMMA ManyOnto ==
    ASSUME NEW S, NEW T, IsFiniteSet(S), NEW f \in [S -> T], \A y \in T : \E x \in S : f[x] = y
    PROVE  IsFiniteSet(T) /\ Cardinality(T) <= Cardinality(S)
<1>1. f \in Surjection(S, T)
    BY DEF Surjection
<1> QED  BY <1>1, FS_Surjection

(* The places of sectors in the vectors.                                   *)
Owned(vecs) == {o \in Blocks \X (1 .. MaxVec) : o[2] <= Len(vecs[o[1]])}

LEMMA HeldCount ==
    ASSUME NEW vecs \in [Blocks -> Seq(Sectors)], \A a \in Blocks : Len(vecs[a]) <= MaxVec,
           NEW b \in Blocks, NEW n \in 1 .. MaxVec, Len(vecs[b]) <= n
    PROVE  /\ IsFiniteSet(Held(vecs, Blocks))
           /\ Cardinality(Held(vecs, Blocks)) \in Nat
           /\ Cardinality(Held(vecs, Blocks)) + (n - Len(vecs[b])) <= SWAPSIZE
<1> DEFINE H == Held(vecs, Blocks)
           A == Blocks \X (1 .. MaxVec)
           O == Owned(vecs)
           low == Len(vecs[b]) + 1
           E == {b} \X (low .. n)
           f == [o \in O |-> vecs[o[1]][o[2]]]
<1>1. /\ IsFiniteSet(Blocks) /\ SWAPSIZE \in Nat /\ MaxVec \in Nat
      /\ SWAPSIZE >= Cardinality(Blocks) * MaxVec
    BY SwapAssumption
<1>2. /\ \A a \in Blocks : vecs[a] \in Seq(Sectors) /\ Len(vecs[a]) \in Nat
      /\ low \in Int /\ n \in Int /\ low >= 1 /\ low <= n + 1
    <2>1. \A a \in Blocks : vecs[a] \in Seq(Sectors) /\ Len(vecs[a]) \in Nat
        OBVIOUS
    <2> QED  BY <1>1, <2>1
<1>3. IsFiniteSet(A) /\ Cardinality(A) = Cardinality(Blocks) * MaxVec
    <2>1. IsFiniteSet(1 .. MaxVec) /\ Cardinality(1 .. MaxVec) = MaxVec
        BY <1>1, FS_Interval
    <2> QED  BY <1>1, <2>1, FS_Product
<1>4. IsFiniteSet(E) /\ Cardinality(E) = n - Len(vecs[b])
    <2>1. IsFiniteSet(low .. n) /\ Cardinality(low .. n) = n - Len(vecs[b])
        <3>1. IsFiniteSet(low .. n) /\ Cardinality(low .. n) = IF low > n THEN 0 ELSE n - low + 1
            BY <1>2, FS_Interval
        <3> QED  BY <1>2, <3>1
    <2>2. IsFiniteSet({b}) /\ Cardinality({b}) = 1
        BY FS_Singleton
    <2>3. IsFiniteSet(E) /\ Cardinality(E) = 1 * Cardinality(low .. n)
        BY <2>1, <2>2, FS_Product
    <2> QED  BY <1>2, <2>1, <2>3
<1>5. O \subseteq A /\ E \subseteq A /\ O \cap E = {}
    BY <1>1, <1>2 DEF Owned
<1>6. IsFiniteSet(H) /\ Cardinality(H) <= Cardinality(O) /\ IsFiniteSet(O)
    <2>1. IsFiniteSet(O)
        BY <1>3, <1>5, FS_Subset
    <2>2. f \in [O -> H]
        <3> SUFFICES ASSUME NEW o \in O  PROVE vecs[o[1]][o[2]] \in H
            OBVIOUS
        <3>1. o[1] \in Blocks /\ o[2] \in 1 .. Len(vecs[o[1]])
            BY <1>1, <1>2 DEF Owned
        <3>2. vecs[o[1]][o[2]] \in ToSet(vecs[o[1]])
            BY <1>2, <3>1, ToSetIs
        <3> QED  BY <3>1, <3>2 DEF Held
    <2>3. \A y \in H : \E o \in O : f[o] = y
        <3> SUFFICES ASSUME NEW y \in H  PROVE \E o \in O : f[o] = y
            OBVIOUS
        <3>1. PICK a \in Blocks : y \in ToSet(vecs[a])
            BY DEF Held
        <3>2. PICK k \in 1 .. Len(vecs[a]) : vecs[a][k] = y
            BY <1>2, <3>1, ToSetIs
        <3>3. << a, k >> \in O
            <4>1. k \in 1 .. MaxVec /\ k <= Len(vecs[a])
                BY <1>1, <1>2, <3>1, <3>2
            <4> QED  BY <3>1, <4>1 DEF Owned
        <3>4. f[<< a, k >>] = y
            BY <3>2, <3>3
        <3> QED  BY <3>3, <3>4
    <2> HIDE DEF H, O, f
    <2> QED  BY <2>1, <2>2, <2>3, ManyOnto
<1>7. Cardinality(O) + Cardinality(E) <= Cardinality(A)
    <2>1. /\ IsFiniteSet(O \cup E) /\ Cardinality(O \cap E) = 0
          /\ Cardinality(O \cup E) = Cardinality(O) + Cardinality(E) - Cardinality(O \cap E)
        BY <1>4, <1>5, <1>6, FS_Union, FS_EmptySet
    <2>2. Cardinality(O \cup E) <= Cardinality(A)
        BY <1>3, <1>5, FS_Subset
    <2>3. Cardinality(O) \in Nat /\ Cardinality(E) \in Nat
        BY <1>4, <1>6, FS_CardinalityType
    <2> QED  BY <2>1, <2>2, <2>3
<1>8. /\ Cardinality(H) \in Nat /\ Cardinality(O) \in Nat /\ Cardinality(A) \in Nat
      /\ Cardinality(Blocks) \in Nat
    BY <1>1, <1>3, <1>6, FS_CardinalityType
<1>9. Cardinality(Blocks) * MaxVec \in Nat
    BY <1>1, <1>8
<1> HIDE DEF H, O, E, A, low
<1> QED  BY <1>1, <1>2, <1>3, <1>4, <1>6, <1>7, <1>8, <1>9 DEF H

LEMMA RoomIs ==
    ASSUME NEW vecs \in [Blocks -> Seq(Sectors)], \A a \in Blocks : Len(vecs[a]) <= MaxVec,
           NEW b \in Blocks, NEW n \in 1 .. MaxVec, Len(vecs[b]) <= n, NEW v \in Device,
           Numbers(v.nsectors, v.mfree, Held(vecs, Blocks))
    PROVE  NewCount(v, n - Len(vecs[b])) <= SWAPSIZE
<1> DEFINE H == Held(vecs, Blocks)
           size == n - Len(vecs[b])
           m == v.mfree
           ns == v.nsectors
<1>1. /\ IsFiniteSet(H) /\ Cardinality(H) \in Nat /\ Cardinality(H) + size <= SWAPSIZE
    BY HeldCount
<1>2. /\ m \in Seq(Sectors) /\ ns \in Nat /\ Len(m) \in Nat /\ SWAPSIZE \in Nat
      /\ size \in Int
    <2>1. m \in Seq(Sectors) /\ ns \in Nat /\ Len(m) \in Nat
        BY DeviceFields
    <2>2. vecs[b] \in Seq(Sectors)
        OBVIOUS
    <2> QED  BY <2>1, <2>2, ConstantsAre
<1>3. /\ ns <= SWAPSIZE /\ IsInjective(m) /\ H \cap ToSet(m) = {}
      /\ H \cup ToSet(m) = 0 .. ns - 1
    BY DEF Numbers
<1> HIDE DEF H, m, ns, size
<1>4. IsFiniteSet(ToSet(m)) /\ Cardinality(ToSet(m)) <= Len(m)
    <2>1. IsFiniteSet(1 .. Len(m)) /\ Cardinality(1 .. Len(m)) = Len(m)
        <3>1. 1 \in Int /\ Len(m) \in Int
            BY <1>2
        <3>2. /\ IsFiniteSet(1 .. Len(m))
              /\ Cardinality(1 .. Len(m)) = IF 1 > Len(m) THEN 0 ELSE Len(m) - 1 + 1
            BY ONLY <3>1, FS_Interval
        <3> QED  BY <1>2, <3>2
    <2>2. m \in [1 .. Len(m) -> ToSet(m)] /\ \A y \in ToSet(m) : \E k \in 1 .. Len(m) : m[k] = y
        BY <1>2, ToSetIs
    <2> QED  BY <2>1, <2>2, ManyOnto
<1>5. ns <= Cardinality(H) + Len(m)
    <2>1. Cardinality(0 .. ns - 1) = ns
        BY <1>2, FS_Interval
    <2>2. /\ Cardinality(H \cap ToSet(m)) = 0
          /\ Cardinality(H \cup ToSet(m))
                = Cardinality(H) + Cardinality(ToSet(m)) - Cardinality(H \cap ToSet(m))
        BY <1>1, <1>3, <1>4, FS_Union, FS_EmptySet
    <2>3. Cardinality(ToSet(m)) \in Nat
        BY <1>4, FS_CardinalityType
    <2>4. ns = Cardinality(H) + Cardinality(ToSet(m))
        <3>1. Cardinality(H \cup ToSet(m)) = Cardinality(0 .. ns - 1)
            BY <1>3
        <3>2. ns = Cardinality(H) + Cardinality(ToSet(m)) - Cardinality(H \cap ToSet(m))
            BY <2>1, <2>2, <3>1
        <3> QED  BY ONLY <1>1, <2>2, <2>3, <3>2
    <2> QED  BY <1>1, <1>2, <1>4, <2>3, <2>4
<1>6. NewCount(v, size) = ns + size - (IF size < Len(m) THEN size ELSE Len(m))
    BY DEF NewCount, m, ns
<1>7. NewCount(v, size) <= SWAPSIZE
    BY <1>1, <1>2, <1>3, <1>5, <1>6
<1> QED  BY <1>7 DEF size

---------------------------------------------------------------------------
(* d_swapalloc()                                                           *)

(* The sectors of the other blocks.                                        *)
Rest(vecs, b) == Held(vecs, Blocks \ {b})

LEMMA RestIs ==
    ASSUME NEW vecs \in [Blocks -> Seq(Sectors)], Apart(vecs), NEW b \in Blocks, NEW pend,
           pend \subseteq Blocks \ {b}
    PROVE  /\ OneBlock(vecs[b], Len(vecs[b]), Held(vecs, Blocks), Rest(vecs, b))
           /\ Held(vecs, Blocks) = Rest(vecs, b) \cup ToSet(vecs[b])
           /\ Held(vecs, pend) \subseteq Rest(vecs, b)
           /\ \A k \in 1 .. Len(vecs[b]) : vecs[b][k] \notin Held(vecs, pend)
<1> DEFINE s == vecs[b]
<1>1. /\ s \in Seq(Sectors) /\ Len(s) \in Nat /\ DOMAIN s = 1 .. Len(s)
      /\ \A k \in 1 .. Len(s) : s[k] \in ToSet(s)
    BY ToSetIs
<1>2. ToSet(s) \cap Rest(vecs, b) = {}
    BY DEF Apart, Rest, Held
<1>3. \A j, k \in 1 .. Len(s) : s[j] = s[k] => j = k
    BY <1>1 DEF Apart
<1>4. Held(vecs, Blocks) = Rest(vecs, b) \cup ToSet(s)
    BY DEF Rest, Held
<1>5. Held(vecs, pend) \subseteq Rest(vecs, b)
    BY DEF Rest, Held
<1> QED  BY <1>1, <1>2, <1>3, <1>4, <1>5 DEF OneBlock

(* Other sectors for a block.                                              *)
Revec(vecs, b, s) == [vecs EXCEPT ![b] = s]
NewVec(vecs, b, s, new) ==
    /\ new \in [Blocks -> Seq(Sectors)] /\ new[b] = s
    /\ \A a \in Blocks : a # b => new[a] = vecs[a]
    /\ Held(new, Blocks) = Rest(vecs, b) \cup ToSet(s)
    /\ Rest(new, b) = Rest(vecs, b)
    /\ \A S \in SUBSET Blocks : b \notin S => Held(new, S) = Held(vecs, S)

LEMMA RevecIs ==
    ASSUME NEW vecs \in [Blocks -> Seq(Sectors)], Apart(vecs), NEW b \in Blocks,
           NEW s \in Seq(Sectors), NEW new, new = Revec(vecs, b, s)
    PROVE  /\ NewVec(vecs, b, s, new)
           /\ /\ \A j, k \in 1 .. Len(s) : s[j] = s[k] => j = k
              /\ \A k \in 1 .. Len(s) : s[k] \notin Rest(vecs, b)
              => Apart(new)
<1>1. /\ new \in [Blocks -> Seq(Sectors)] /\ new[b] = s
      /\ \A a \in Blocks : a # b => new[a] = vecs[a]
    BY DEF Revec
<1>2. \A S \in SUBSET Blocks : b \notin S => Held(new, S) = Held(vecs, S)
    <2> SUFFICES ASSUME NEW S \in SUBSET Blocks, b \notin S  PROVE Held(new, S) = Held(vecs, S)
        OBVIOUS
    <2>1. \A a \in S : new[a] = vecs[a]
        BY <1>1
    <2> QED  BY <2>1 DEF Held
<1>3. Rest(new, b) = Rest(vecs, b)
    BY <1>2 DEF Rest
<1>4. Held(new, Blocks) = Rest(vecs, b) \cup ToSet(s)
    <2>1. Held(new, Blocks) = Rest(new, b) \cup ToSet(new[b])
        BY DEF Held, Rest
    <2> QED  BY <1>1, <1>3, <2>1
<1>5. ASSUME \A j, k \in 1 .. Len(s) : s[j] = s[k] => j = k,
             \A k \in 1 .. Len(s) : s[k] \notin Rest(vecs, b)
      PROVE  Apart(new)
    <2>1. ToSet(s) \cap Rest(vecs, b) = {} /\ DOMAIN s = 1 .. Len(s)
        BY <1>5, ToSetIs
    <2>2. \A a \in Blocks : a # b => ToSet(new[a]) \cap ToSet(new[b]) = {}
        BY <1>1, <2>1 DEF Rest, Held
    <2>3. \A a, c \in Blocks : a # c => ToSet(new[a]) \cap ToSet(new[c]) = {}
        BY <1>1, <2>2 DEF Apart
    <2>4. \A a \in Blocks : \A j, k \in DOMAIN new[a] : new[a][j] = new[a][k] => j = k
        <3> TAKE a \in Blocks
        <3>1. CASE a = b
            BY <1>1, <1>5, <2>1, <3>1
        <3>2. CASE a # b
            <4>1. new[a] = vecs[a]
                BY <1>1, <3>2
            <4> QED  BY <4>1 DEF Apart
        <3> QED  BY <3>1, <3>2
    <2> QED  BY <2>3, <2>4 DEF Apart
<1> QED  BY <1>1, <1>2, <1>3, <1>4, <1>5 DEF NewVec

(* The sectors of a block after a number of them has been given up.        *)
Cut(s, n) == SubSeq(s, 1, IF Len(s) < n THEN Len(s) ELSE n)
CutDev(v, s, n) ==
    IF Len(s) > n THEN DelV(WipeV(v, s), SubSeq(s, n + 1, Len(s))) ELSE WipeV(v, s)

CutOne(e, d, G, P, R, s, n, t) ==
    /\ Deleted(e, d, G, P, R)
    /\ t \in Seq(Sectors) /\ Len(t) = (IF Len(s) < n THEN Len(s) ELSE n)
    /\ \A k \in 1 .. Len(t) : t[k] = s[k]

LEMMA CutIs ==
    ASSUME NEW d, NEW H, NEW P, DeviceOk(d, H, P), Numbers(d.dev.nsectors, d.dev.mfree, H),
           NEW s \in Seq(Sectors), NEW R, OneBlock(s, Len(s), H, R), H = R \cup ToSet(s),
           \A k \in 1 .. Len(s) : s[k] \notin P, NEW n \in Nat, NEW t, t = Cut(s, n),
           NEW e, e = [d EXCEPT !.dev = CutDev(d.dev, s, n)], NEW G, G = R \cup ToSet(t)
    PROVE  CutOne(e, d, G, P, R, s, n, t)
<1> DEFINE c == [d EXCEPT !.dev = WipeV(d.dev, s)]
           m == IF Len(s) < n THEN Len(s) ELSE n
<1>1. /\ d \in State /\ Len(s) \in Nat /\ m \in Nat /\ m <= Len(s)
      /\ \A k \in 1 .. m : k \in 1 .. Len(s)
    <2>1. Len(s) \in Nat
        OBVIOUS
    <2> QED  BY <2>1 DEF DeviceOk
<1>2. t \in Seq(Sectors) /\ Len(t) = m /\ \A k \in 1 .. m : t[k] = s[k]
    <2>1. t = SubSeq(s, 1, m)
        BY DEF Cut
    <2> HIDE DEF m
    <2>2. /\ SubSeq(s, 1, m) \in Seq(Sectors) /\ Len(SubSeq(s, 1, m)) = m - 1 + 1
          /\ \A k \in 1 .. m - 1 + 1 : SubSeq(s, 1, m)[k] = s[1 + k - 1]
        <3>1. m \in Int /\ 1 \in Int /\ 1 <= 1 /\ 1 <= m + 1 /\ m <= Len(s)
            BY <1>1
        <3> QED  BY <3>1, SubElem
    <2>3. m - 1 + 1 = m /\ \A k \in 1 .. m : 1 + k - 1 = k
        BY <1>1
    <2> QED  BY <2>1, <2>2, <2>3
<1>3. Wiped(c, d, H, P, R)
    BY WipeVIs
<1>4. /\ DeviceOk(c, H, P) /\ SameNumbers(c, d) /\ SameBlocks(c, d) /\ Writes(c, d)
      /\ Keeps(c, d, R, P) /\ c.disk = d.disk
    BY <1>3 DEF Wiped
<1>5. CASE Len(s) <= n
    <2>1. e = c /\ m = Len(s)
        BY <1>1, <1>5 DEF CutDev
    <2>2. t = s
        BY <1>1, <1>2, <2>1
    <2>3. G = H
        BY <2>2
    <2> HIDE DEF c, m
    <2>4. Numbers(e.dev.nsectors, e.dev.mfree, G)
        BY <1>4, <2>1, <2>3 DEF SameNumbers
    <2>5. Deleted(e, d, G, P, R)
        BY <1>4, <2>1, <2>3, <2>4 DEF Deleted
    <2> QED  BY <1>2, <2>5 DEF CutOne, m
<1>6. CASE Len(s) > n
    <2> DEFINE u == SubSeq(s, n + 1, Len(s))
    <2>1. m = n /\ n \in 0 .. Len(s)
        BY <1>1, <1>6
    <2>2. e = [c EXCEPT !.dev = DelV(c.dev, u)]
        <3>1. CutDev(d.dev, s, n) = DelV(WipeV(d.dev, s), u)
            BY <1>6 DEF CutDev
        <3>2. c.dev = WipeV(d.dev, s)
            BY <1>1 DEF State
        <3> QED  BY <1>1, <3>1, <3>2 DEF State
    <2>3. /\ u \in Seq(Sectors) /\ Len(u) = Len(s) - n
          /\ \A k \in 1 .. Len(s) - n : u[k] = s[n + k] /\ n + k \in 1 .. Len(s)
        BY <2>1, DropElem
    <2> HIDE DEF c, u, m
    <2>4. /\ OneBlock(u, Len(u), H, R)
          /\ \A k \in 1 .. Len(u) : u[k] \notin P
        <3>1. /\ R \subseteq H /\ \A k \in 1 .. Len(s) : s[k] \in H /\ s[k] \notin R
              /\ \A j, k \in 1 .. Len(s) : s[j] = s[k] => j = k
            BY DEF OneBlock
        <3>2. \A k \in 1 .. Len(u) : u[k] \in H /\ u[k] \notin R /\ u[k] \notin P
            BY <2>3, <3>1
        <3>3. \A j, k \in 1 .. Len(u) : u[j] = u[k] => j = k
            <4> SUFFICES ASSUME NEW j \in 1 .. Len(u), NEW k \in 1 .. Len(u), u[j] = u[k]
                         PROVE  j = k
                OBVIOUS
            <4>1. s[n + j] = s[n + k] /\ n + j \in 1 .. Len(s) /\ n + k \in 1 .. Len(s)
                BY <2>3
            <4>2. n + j = n + k
                BY <3>1, <4>1
            <4> QED  BY <4>2
        <3> QED  BY <2>3, <3>1, <3>2, <3>3 DEF OneBlock
    <2>5. Deleted(e, c, Left(H, u, Len(u)), P, R)
        <3>1. Numbers(c.dev.nsectors, c.dev.mfree, H)
            BY <1>4 DEF SameNumbers
        <3> QED  BY <1>4, <2>2, <2>3, <2>4, <3>1, DelVIs
    <2>6. Left(H, u, Len(u)) = G
        <3>1. /\ \A x : x \in ToSet(s) <=> \E k \in 1 .. Len(s) : s[k] = x
              /\ \A x : x \in ToSet(t) <=> \E k \in 1 .. n : s[k] = x
            BY <1>2, <2>1, ToSetIs
        <3>2. \A x \in R : x \in Left(H, u, Len(u))
            BY <2>4 DEF OneBlock, Left
        <3>3. \A x \in ToSet(t) : x \in Left(H, u, Len(u))
            <4> TAKE x \in ToSet(t)
            <4>1. PICK k \in 1 .. n : s[k] = x
                BY <3>1
            <4>2. k \in 1 .. Len(s) /\ x \in H
                BY <2>1, <4>1 DEF OneBlock
            <4>3. \A j \in 1 .. Len(u) : u[j] # x
                <5> SUFFICES ASSUME NEW j \in 1 .. Len(u), u[j] = x  PROVE FALSE
                    OBVIOUS
                <5>1. s[n + j] = s[k] /\ n + j \in 1 .. Len(s)
                    BY <2>3, <4>1
                <5>2. n + j = k
                    BY <4>2, <5>1 DEF OneBlock
                <5> QED  BY <2>3, <4>1, <5>2
            <4> QED  BY <4>2, <4>3 DEF Left
        <3>4. \A x \in Left(H, u, Len(u)) : x \in R \/ x \in ToSet(t)
            <4> SUFFICES ASSUME NEW x \in Left(H, u, Len(u)), x \notin R  PROVE x \in ToSet(t)
                OBVIOUS
            <4>1. x \in ToSet(s) /\ \A j \in 1 .. Len(u) : u[j] # x
                BY DEF Left
            <4>2. PICK k \in 1 .. Len(s) : s[k] = x
                BY <3>1, <4>1
            <4>3. CASE k > n
                <5>1. k - n \in 1 .. Len(u) /\ n + (k - n) = k
                    BY <1>1, <2>3, <4>3
                <5> QED  BY <2>3, <4>1, <4>2, <5>1
            <4>4. CASE k <= n
                <5>1. k \in 1 .. n
                    BY <4>4
                <5> QED  BY <3>1, <4>2, <5>1
            <4> QED  BY <4>3, <4>4
        <3> QED  BY <3>2, <3>3, <3>4
    <2>7. /\ DeviceOk(e, G, P) /\ SameBlocks(e, c) /\ Writes(e, c)
          /\ Keeps(e, c, R, P) /\ e.disk = c.disk /\ Numbers(e.dev.nsectors, e.dev.mfree, G)
        BY <2>5, <2>6 DEF Deleted
    <2>8. Writes(e, d) /\ Keeps(e, d, R, P)
        <3>1. d.dev.swap \in Descriptor
            BY <1>1 DEF State, Device
        <3> QED  BY <1>4, <2>7, <3>1, WritesOn, KeepsOn
    <2>9. Deleted(e, d, G, P, R)
        BY <1>4, <2>7, <2>8 DEF Deleted, SameBlocks
    <2> QED  BY <1>2, <2>9 DEF CutOne, m
<1> QED  BY <1>1, <1>5, <1>6

===========================================================================
