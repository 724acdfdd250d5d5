----------------------- MODULE AtomicCallOutProofs -----------------------
(***************************************************************************)
(* Callouts in atomic code, for every set of objects and of callouts,      *)
(* every depth of atomic calls and every size of the callout table.        *)
(*                                                                         *)
(* The patches of the planes are explained by a history: what the callouts *)
(* were when each level was entered.  The patch of a plane leads from the  *)
(* history of its level to that of the next, and the callout table shows   *)
(* the first of them.                                                      *)
(***************************************************************************)
EXTENDS AtomicCallOut, CallOutTableProofs

---------------------------------------------------------------------------
(* Walks.                                                                  *)

LEMMA StepByStep ==
    ASSUME NEW n \in Nat, NEW S, 0 \in S, \A k \in 1 .. n : k - 1 \in S => k \in S
    PROVE  \A k \in 0 .. n : k \in S
<1> DEFINE T == {k \in 0 .. n : k \notin S}
<1> SUFFICES ASSUME T # {}  PROVE FALSE
    OBVIOUS
<1>1. PICK k \in T : \A j \in T : k <= j
    <2>1. T \in SUBSET Int /\ 0 \in Int /\ \A x \in T : x >= 0
        OBVIOUS
    <2> HIDE DEF T
    <2> QED  BY <2>1, LeastExists
<1>2. k \in 1 .. n /\ k - 1 \in 0 .. n /\ ~(k <= k - 1)
    BY <1>1
<1>3. k - 1 \in S
    BY <1>1, <1>2
<1> QED  BY <1>1, <1>2, <1>3

(* A walk of n steps Op from x on, along the pairs of a place and its      *)
(* number in I.                                                            *)
Walks(f, n, x, Op) ==
    f = [k \in 0 .. n |-> IF k = 0 THEN x ELSE Op[<< f[k - 1], k - 1 >>]]
Closed(I, n, Op) ==
    \A k \in 1 .. n : \A s : << s, k - 1 >> \in I => << Op[<< s, k - 1 >>], k >> \in I

LEMMA WalkWithin ==
    ASSUME NEW n \in Nat, NEW I, NEW x, << x, 0 >> \in I, NEW Op, Closed(I, n, Op)
    PROVE  \E f : Walks(f, n, x, Op) /\ \A k \in 0 .. n : << f[k], k >> \in I
<1> DEFINE F(f, j) == [k \in 0 .. j |-> IF k = 0 THEN x ELSE Op[<< f[k - 1], k - 1 >>]]
           S == {j \in 0 .. n : \E f : f = F(f, j) /\ \A k \in 0 .. j : << f[k], k >> \in I}
<1>1. 0 \in S
    <2> DEFINE g == [k \in 0 .. 0 |-> x]
    <2>1. g = F(g, 0) /\ \A k \in 0 .. 0 : << g[k], k >> \in I
        OBVIOUS
    <2> HIDE DEF F, g
    <2> QED  BY <2>1
<1>2. ASSUME NEW j \in 1 .. n, j - 1 \in S
      PROVE  j \in S
    <2>1. PICK f : f = F(f, j - 1) /\ \A k \in 0 .. j - 1 : << f[k], k >> \in I
        BY <1>2
    <2> DEFINE g == [k \in 0 .. j |-> IF k = j THEN Op[<< f[j - 1], j - 1 >>] ELSE f[k]]
    <2>2. j \in Nat /\ j > 0 /\ \A k \in 0 .. j : k = j \/ k \in 0 .. j - 1
        OBVIOUS
    <2>3. /\ \A k \in 0 .. j - 1 : g[k] = f[k]
          /\ g[j] = Op[<< f[j - 1], j - 1 >>] /\ g[j - 1] = f[j - 1]
          /\ g = [k \in 0 .. j |-> g[k]]
        BY <2>2
    <2>4. \A k \in 0 .. j - 1 : f[k] = IF k = 0 THEN x ELSE Op[<< f[k - 1], k - 1 >>]
        BY <2>1
    <2> HIDE DEF g
    <2>5. ASSUME NEW k \in 0 .. j
          PROVE  g[k] = IF k = 0 THEN x ELSE Op[<< g[k - 1], k - 1 >>]
        <3>1. CASE k = j
            <4>1. g[j] = Op[<< g[j - 1], j - 1 >>] /\ j # 0
                BY <2>2, <2>3
            <4> QED  BY <3>1, <4>1
        <3>2. CASE k \in 0 .. j - 1
            <4>1. k # 0 => k - 1 \in 0 .. j - 1
                BY <2>2, <3>2
            <4> QED  BY <2>3, <2>4, <3>2, <4>1
        <3> QED  BY <2>2, <3>1, <3>2
    <2>6. g = F(g, j)
        BY <2>3, <2>5
    <2>7. << g[j], j >> \in I
        <3>1. << f[j - 1], j - 1 >> \in I
            BY <2>1, <2>2
        <3> QED  BY <2>3, <3>1 DEF Closed
    <2>8. \A k \in 0 .. j : << g[k], k >> \in I
        BY <2>1, <2>2, <2>3, <2>7
    <2> HIDE DEF F
    <2> QED  BY <2>6, <2>8
<1> HIDE DEF S
<1>3. \A j \in 0 .. n : j \in S
    BY <1>1, <1>2, StepByStep
<1>4. n \in S
    BY <1>3
<1> QED  BY <1>4 DEF S, Walks

---------------------------------------------------------------------------
(* The callouts of all objects, as a function.                             *)

Entry == [t : Nat, m : {NoMsec}, val : Vals] \cup {Free}
Entries == [Callouts -> Entry]

Put(d, c, e) == [d EXCEPT ![c] = e]

(* Where a callout that is due at t is, as long as the timestamp is 0.     *)
PlaceOf(t) == IF t = 0 THEN Immediate ELSE IF t < CYCBUF_SIZE THEN t ELSE Queue

LEMMA Constants ==
    /\ CYCBUF_SIZE \in Nat /\ CYCBUF_SIZE > 0 /\ MSECS \in Nat /\ MSECS > 0
    /\ COTABSZ \in Nat
    /\ MaxHandle \in Nat /\ MaxLevel \in Nat /\ Delays \subseteq Nat
    /\ IsFiniteSet(Callouts)
    /\ \A c \in Callouts : /\ c = << c[1], c[2] >> /\ c[1] \in Objects
                           /\ c[2] \in 1 .. MaxHandle
<1>1. IsFiniteSet(Callouts)
    <2>1. IsFiniteSet(Handles)
        BY AtomicAssumption, FS_Interval DEF Handles
    <2>2. IsFiniteSet(Objects \X Handles)
        BY <2>1, AtomicAssumption, FS_Product
    <2> QED  BY <2>2, AtomicAssumption, FS_Subset
<1>2. \A c \in Callouts : /\ c = << c[1], c[2] >> /\ c[1] \in Objects
                          /\ c[2] \in 1 .. MaxHandle
    BY AtomicAssumption DEF Handles
<1> QED  BY <1>1, <1>2, AtomicAssumption, TableAssumption

LEMMA EntryIs ==
    /\ Free \in Entry /\ Free.t = 0 /\ Free.m = NoMsec
    /\ \A e \in Entry : e.t \in Nat /\ e.m = NoMsec
    /\ \A e \in Entry : e # Free <=> e.val \in Vals
    /\ \A t \in Nat, v \in Vals : /\ [t |-> t, m |-> NoMsec, val |-> v] \in Entry
                                  /\ [t |-> t, m |-> NoMsec, val |-> v] # Free
BY AtomicAssumption DEF Entry, Free

LEMMA PlaceIs ==
    ASSUME NEW t \in Nat
    PROVE  /\ PlaceOf(t) \in Slots \cup {Immediate, Queue}
           /\ PlaceOf(t) \in Everywhere
           /\ PlaceOf(t) \in Slots <=> t # 0 /\ t < CYCBUF_SIZE
           /\ PlaceOf(t) \in Slots => PlaceOf(t) = t /\ Slot(t) = t
           /\ PlaceOf(t) = Immediate <=> t = 0
           /\ PlaceOf(t) = Queue <=> t >= CYCBUF_SIZE
<1>1. t < CYCBUF_SIZE => t \in Slots /\ Slot(t) = t
    <2> SUFFICES ASSUME t < CYCBUF_SIZE
                 PROVE  t \in Slots /\ Slot(t) = t
        OBVIOUS
    <2>1. t \in 0 .. CYCBUF_SIZE - 1
        BY Constants
    <2>2. CYCBUF_SIZE \in Nat /\ CYCBUF_SIZE > 0 /\ 0 \in Nat
        BY Constants
    <2>3. (0 * CYCBUF_SIZE + t) % CYCBUF_SIZE = t
        BY ONLY <2>1, <2>2, RemainderUnique
    <2>4. 0 * CYCBUF_SIZE + t = t
        BY <2>2
    <2>5. t % CYCBUF_SIZE = t
        BY ONLY <2>3, <2>4
    <2> QED  BY <2>1, <2>5 DEF Slot, Slots
<1>2. CYCBUF_SIZE > 0 /\ CYCBUF_SIZE \in Nat
    BY Constants
<1>3. CASE t = 0
    BY <1>2, <1>3, ListNames DEF PlaceOf, Everywhere
<1>4. CASE t # 0 /\ t < CYCBUF_SIZE
    BY <1>1, <1>2, <1>4, ListNames DEF PlaceOf, Everywhere
<1>5. CASE t # 0 /\ t >= CYCBUF_SIZE
    BY <1>2, <1>5, ListNames DEF PlaceOf, Everywhere
<1> QED  BY <1>2, <1>3, <1>4, <1>5

---------------------------------------------------------------------------
(* The callout table shows callouts d: each is where its time puts it.     *)

Shows(tb, d) ==
    /\ Good(tb) /\ tb.timestamp = 0
    /\ Once(tb.queue) /\ \A l \in Lists : Once(tb.list[l])
    /\ \A c \in Callouts, l \in Everywhere :
          In(tb, c, l) <=> d[c] # Free /\ l = PlaceOf(d[c].t)
    /\ \A k \in 1 .. Len(tb.queue) : tb.queue[k].t = d[tb.queue[k].co].t

LEMMA AppendOnce ==
    ASSUME NEW s \in Seq(Element), Once(s), NEW x \in Element, ~Holds(s, x.co)
    PROVE  /\ Once(Append(s, x))
           /\ \A c : Holds(Append(s, x), c) <=> Holds(s, c) \/ c = x.co
<1> DEFINE r == Append(s, x)
           n == Len(s)
<1>1. /\ r \in Seq(Element) /\ n \in Nat /\ Len(r) = n + 1
      /\ \A k \in 1 .. n : r[k] = s[k]
      /\ r[n + 1] = x
    BY AppendElem
<1>2. \A k \in 1 .. n : s[k].co # x.co
    BY HoldsIs
<1>3. \A k \in 1 .. n + 1 : k \in 1 .. n \/ k = n + 1
    BY <1>1
<1>4. \A c : Holds(s, c) <=> \E k \in 1 .. n : s[k].co = c
    BY HoldsIs
<1>5. \A c : Holds(r, c) <=> \E k \in 1 .. n + 1 : r[k].co = c
    <2> HIDE DEF r, n
    <2> QED  BY <1>1, HoldsIs
<1>6. \A j \in 1 .. n, k \in 1 .. n : s[j].co = s[k].co => j = k
    BY DEF Once
<1> HIDE DEF r, n
<1>7. Once(r)
    BY <1>1, <1>2, <1>3, <1>6 DEF Once
<1>8. \A c : Holds(r, c) <=> Holds(s, c) \/ c = x.co
    <2> TAKE c
    <2>1. n + 1 \in 1 .. n + 1 /\ \A k \in 1 .. n : k \in 1 .. n + 1
        BY <1>1
    <2> QED  BY <1>1, <1>3, <1>4, <1>5, <2>1
<1> QED  BY <1>7, <1>8 DEF r

LEMMA RemoveOnce ==
    ASSUME NEW s \in Seq(Element), Once(s), NEW p \in 1 .. Len(s)
    PROVE  /\ Once(RemoveAt(s, p))
           /\ \A c : Holds(RemoveAt(s, p), c) <=> Holds(s, c) /\ c # s[p].co
<1> DEFINE r == RemoveAt(s, p)
           n == Len(s)
<1>1. /\ r \in Seq(Element) /\ n \in Nat /\ Len(r) = n - 1 /\ p \in 1 .. n
      /\ \A k \in 1 .. n - 1 : r[k] = IF k < p THEN s[k] ELSE s[k + 1]
    BY RemoveElem
<1>2. \A c : Holds(s, c) <=> \E k \in 1 .. n : s[k].co = c
    BY HoldsIs
<1>3. \A c : Holds(r, c) <=> \E k \in 1 .. n - 1 : r[k].co = c
    <2> HIDE DEF r, n
    <2> QED  BY <1>1, HoldsIs
<1>4. \A j \in 1 .. n, k \in 1 .. n : s[j].co = s[k].co => j = k
    BY DEF Once
<1> DEFINE old(k) == IF k < p THEN k ELSE k + 1
<1>5. \A k \in 1 .. n - 1 : old(k) \in 1 .. n /\ old(k) # p /\ r[k] = s[old(k)]
    BY <1>1
<1>6. \A j \in 1 .. n - 1, k \in 1 .. n - 1 : old(j) = old(k) => j = k
    BY <1>1
<1>7. \A j \in 1 .. n : j # p => \E k \in 1 .. n - 1 : old(k) = j
    <2> TAKE j \in 1 .. n
    <2>1. CASE j < p
        <3>1. j \in 1 .. n - 1 /\ old(j) = j
            BY <1>1, <2>1
        <3> QED  BY <3>1
    <2>2. CASE j > p
        <3>1. j - 1 \in 1 .. n - 1 /\ old(j - 1) = j
            BY <1>1, <2>2
        <3> QED  BY <3>1
    <2> QED  BY <1>1, <2>1, <2>2
<1> HIDE DEF r, n, old
<1>8. Once(r)
    <2> SUFFICES ASSUME NEW j \in 1 .. n - 1, NEW k \in 1 .. n - 1, r[j].co = r[k].co
                 PROVE  j = k
        BY <1>1 DEF Once
    <2>1. old(j) = old(k)
        BY <1>4, <1>5
    <2> QED  BY <1>6, <2>1
<1>9. \A c : Holds(r, c) <=> Holds(s, c) /\ c # s[p].co
    <2> TAKE c
    <2>1. ASSUME Holds(r, c)  PROVE Holds(s, c) /\ c # s[p].co
        <3>1. PICK k \in 1 .. n - 1 : r[k].co = c
            BY <1>3, <2>1
        <3> QED  BY <1>1, <1>2, <1>4, <1>5, <3>1
    <2>2. ASSUME Holds(s, c), c # s[p].co  PROVE Holds(r, c)
        <3>1. PICK j \in 1 .. n : s[j].co = c
            BY <1>2, <2>2
        <3>2. PICK k \in 1 .. n - 1 : old(k) = j
            BY <1>7, <2>2, <3>1
        <3> QED  BY <1>3, <1>5, <3>1, <3>2
    <2> QED  BY <2>1, <2>2
<1> QED  BY <1>8, <1>9 DEF r

(* What an operation on the table that moves one callout has to show.      *)
LEMMA ShowsChanged ==
    ASSUME NEW tb, NEW d \in Entries, Shows(tb, d), NEW c \in Callouts, NEW e \in Entry,
           NEW new, Good(new), new.timestamp = 0,
           Once(new.queue), \A l \in Lists : Once(new.list[l]),
           \A x \in Callouts \ {c}, l \in Everywhere : In(new, x, l) <=> In(tb, x, l),
           \A l \in Everywhere : In(new, c, l) <=> e # Free /\ l = PlaceOf(e.t),
           \A k \in 1 .. Len(new.queue) :
              \/ new.queue[k].co = c /\ new.queue[k].t = e.t
              \/ new.queue[k].co # c /\ \E j \in 1 .. Len(tb.queue) : new.queue[k] = tb.queue[j]
    PROVE  Shows(new, Put(d, c, e))
<1> DEFINE b == Put(d, c, e)
<1>1. b[c] = e /\ \A x : x # c => b[x] = d[x]
    BY DEF Entries, Put
<1> HIDE DEF b
<1>2. \A x \in Callouts, l \in Everywhere :
          In(new, x, l) <=> b[x] # Free /\ l = PlaceOf(b[x].t)
    <2> TAKE x \in Callouts, l \in Everywhere
    <2>1. CASE x = c
        BY <1>1, <2>1
    <2>2. CASE x # c
        BY <1>1, <2>2 DEF Shows
    <2> QED  BY <2>1, <2>2
<1>3. \A k \in 1 .. Len(new.queue) : new.queue[k].t = b[new.queue[k].co].t
    BY <1>1 DEF Shows
<1> QED  BY <1>2, <1>3 DEF Shows, b

LEMMA ShowsFields ==
    ASSUME NEW tb, NEW d, Shows(tb, d)
    PROVE  /\ tb \in Table /\ tb.queue \in Seq(QueueEntry) /\ tb.list \in AllLists
           /\ tb.timestamp = 0
           /\ \A l \in Lists : tb.list[l] \in Seq(Element) /\ Once(tb.list[l])
           /\ NewIndices(tb) \subseteq Index /\ NewIndices(tb) # {}
BY NewIndicesType DEF Shows, Good, Table, AllLists, NewIndices

(* co_new() for a callout that was not there.                              *)
LEMMA PutShows ==
    ASSUME NEW tb, NEW d \in Entries, Shows(tb, d), NEW c \in Callouts, d[c] = Free,
           NEW e \in Entry, e # Free, NEW due,
           due.t = e.t, due.m = NoMsec, due.q = PlaceOf(e.t), NEW i \in NewIndices(tb)
    PROVE  Shows(CoNew(tb, c, due, i), Put(d, c, e))
<1> DEFINE new == CoNew(tb, c, due, i)
           l == due.q
<1>1. /\ tb \in Table /\ tb.queue \in Seq(QueueEntry) /\ tb.list \in AllLists
      /\ tb.timestamp = 0 /\ Good(tb) /\ Once(tb.queue) /\ i \in Index
      /\ \A k \in Lists : tb.list[k] \in Seq(Element) /\ Once(tb.list[k])
    BY ShowsFields DEF Shows
<1>2. /\ due.t \in Nat /\ due.t = e.t /\ l = PlaceOf(due.t) /\ l \in Everywhere
      /\ l \in Slots \cup {Immediate, Queue}
      /\ l \in Slots => due.t # 0
      /\ l = Immediate => due.t = 0
    BY EntryIs, PlaceIs
<1>3. Good(new)
    BY <1>1, <1>2, CoNewGood
<1>4. \A k \in Everywhere : ~In(tb, c, k)
    BY DEF Shows
<1>5. CASE l = Queue
    <2> DEFINE x == [co |-> c, t |-> due.t, m |-> 0]
               r == Enqueue(tb.queue, x)
    <2>1. new = [tb EXCEPT !.queue = r]
        BY <1>5, EntryIs DEF CoNew
    <2>2. new.queue = r /\ new.list = tb.list /\ new.timestamp = 0
        BY <1>1, <2>1 DEF Table
    <2>3. x \in QueueEntry /\ x.co = c /\ x.t = e.t
        BY <1>2, Constants DEF QueueEntry, Msecs
    <2> HIDE DEF new, r, x
    <2>4. Enqueued(r, tb.queue, x)
        BY <1>1, <2>3, EnqueueContent DEF r
    <2>5. \A j \in 1 .. Len(tb.queue) : tb.queue[j].co # c
        <3>1. ~Holds(tb.queue, c)
            BY <1>4, InIs DEF Everywhere
        <3> QED  BY <1>1, <3>1, HoldsIs
    <2>6. Once(new.queue)
        BY <1>1, <2>2, <2>3, <2>4, <2>5, EnqueueOnce
    <2>7. r \in Seq(QueueEntry)
        BY <2>4 DEF Enqueued
    <2>8. \A y : Holds(r, y) <=> Holds(tb.queue, y) \/ y = c
        <3> TAKE y
        <3>1. Holds(r, y) <=> \E k \in 1 .. Len(r) : r[k].co = y
            BY <2>7, HoldsIs
        <3>2. Holds(tb.queue, y) <=> \E k \in 1 .. Len(tb.queue) : tb.queue[k].co = y
            BY <1>1, HoldsIs
        <3> QED  BY <2>3, <2>4, <3>1, <3>2 DEF Enqueued
    <2>9. ASSUME NEW y \in Callouts, NEW k \in Everywhere
          PROVE  In(new, y, k) <=> In(tb, y, k) \/ (y = c /\ k = Queue)
        <3>1. CASE k = Queue
            BY <2>2, <2>8, <3>1, InIs
        <3>2. CASE k # Queue
            BY <2>2, <3>2, InIs DEF Everywhere
        <3> QED  BY <3>1, <3>2
    <2>10. \A k \in 1 .. Len(new.queue) :
              \/ new.queue[k].co = c /\ new.queue[k].t = e.t
              \/ /\ new.queue[k].co # c
                 /\ \E j \in 1 .. Len(tb.queue) : new.queue[k] = tb.queue[j]
        BY <2>2, <2>3, <2>4, <2>5 DEF Enqueued
    <2>11. \A k \in Everywhere : In(new, c, k) <=> e # Free /\ k = PlaceOf(e.t)
        BY <1>2, <1>4, <1>5, <2>9
    <2> QED  BY <1>1, <1>3, <2>2, <2>6, <2>9, <2>10, <2>11, ShowsChanged DEF new
<1>6. CASE l # Queue
    <2> DEFINE x == [co |-> c, at |-> i]
    <2>1. l \in Lists
        BY <1>2, <1>6 DEF Everywhere
    <2>2. new = NewCallout(tb, l, due.t, c, i)
        BY <1>6 DEF CoNew
    <2>3. /\ new.queue = tb.queue /\ new.timestamp = 0
          /\ new.list = [tb.list EXCEPT ![l] = Append(tb.list[l], x)]
        BY <1>1, <2>2 DEF NewCallout, Table
    <2>4. x \in Element /\ x.co = c
        BY <1>1 DEF Element
    <2> HIDE DEF x, new, l
    <2>5. /\ new.list[l] = Append(tb.list[l], x)
          /\ \A k \in Lists \ {l} : new.list[k] = tb.list[k]
        BY <1>1, <2>1, <2>3 DEF AllLists
    <2>6. ~Holds(tb.list[l], c)
        BY <1>2, <1>4, <2>1, InIs
    <2>7. /\ Once(new.list[l])
          /\ \A y : Holds(new.list[l], y) <=> Holds(tb.list[l], y) \/ y = c
        BY <1>1, <2>1, <2>4, <2>5, <2>6, AppendOnce
    <2>8. \A k \in Lists : Once(new.list[k])
        BY <1>1, <2>5, <2>7
    <2>9. ASSUME NEW y \in Callouts, NEW k \in Everywhere
          PROVE  In(new, y, k) <=> In(tb, y, k) \/ (y = c /\ k = l)
        <3>1. CASE k = Queue
            BY <1>6, <2>3, <3>1, InIs
        <3>2. CASE k # Queue
            BY <2>5, <2>7, <3>2, InIs DEF Everywhere
        <3> QED  BY <3>1, <3>2
    <2>10. \A k \in 1 .. Len(new.queue) :
              \/ new.queue[k].co = c /\ new.queue[k].t = e.t
              \/ /\ new.queue[k].co # c
                 /\ \E j \in 1 .. Len(tb.queue) : new.queue[k] = tb.queue[j]
        <3>1. ~Holds(tb.queue, c)
            BY <1>4, InIs DEF Everywhere
        <3> QED  BY <1>1, <2>3, <3>1, HoldsIs
    <2>11. \A k \in Everywhere : In(new, c, k) <=> e # Free /\ k = PlaceOf(e.t)
        BY <1>2, <1>4, <2>9
    <2> QED  BY <1>1, <1>3, <2>3, <2>8, <2>9, <2>10, <2>11, ShowsChanged DEF new
<1> QED  BY <1>5, <1>6

(* co_del() finds a callout where its time has put it.                     *)
LEMMA DelListIs ==
    ASSUME NEW tb, NEW d \in Entries, Shows(tb, d), NEW c \in Callouts, d[c] # Free
    PROVE  DelList(tb, c, d[c].t, d[c].m) = PlaceOf(d[c].t)
<1> DEFINE t == d[c].t
<1>1. t \in Nat /\ d[c].m = NoMsec /\ tb.timestamp = 0
    BY EntryIs DEF Entries, Shows
<1>2. \A l \in Lists : Holds(tb.list[l], c) <=> l = PlaceOf(t)
    BY InIs DEF Shows, Everywhere
<1> HIDE DEF t
<1>3. \A l \in Slots \cup {Immediate, Running} : Holds(tb.list[l], c) <=> l = PlaceOf(t)
    BY <1>2, ListNames
<1>4. Slot(t) \in Slots
    BY <1>1, SlotOfSecond
<1>5. CASE t = 0
    <2>1. PlaceOf(t) = Immediate /\ Holds(tb.list[Immediate], c)
        BY <1>1, <1>3, <1>5, PlaceIs
    <2>2. ~(t > 0) /\ t <= 0
        BY <1>5
    <2>3. ~Holds(tb.list[Running], c)
        BY <1>3, <2>1, ListNames
    <2> QED  BY <1>1, <2>1, <2>2, <2>3 DEF DelList, t
<1>6. CASE t # 0 /\ t < CYCBUF_SIZE
    <2>1. PlaceOf(t) = t /\ Slot(t) = t /\ Holds(tb.list[Slot(t)], c)
        BY <1>1, <1>3, <1>4, <1>6, PlaceIs
    <2>2. t > 0 /\ t < 0 + CYCBUF_SIZE /\ ~(t <= 0)
        BY <1>1, <1>6, Constants
    <2> QED  BY <1>1, <2>1, <2>2 DEF DelList, t
<1>7. CASE t # 0 /\ ~(t < CYCBUF_SIZE)
    <2>1. PlaceOf(t) = Queue
        BY <1>1, <1>7, PlaceIs, Constants
    <2>2. ~(t < 0 + CYCBUF_SIZE) /\ ~(t <= 0)
        BY <1>1, <1>7, Constants
    <2> QED  BY <1>1, <2>1, <2>2 DEF DelList, t
<1> QED  BY <1>5, <1>6, <1>7

LEMMA TakeShows ==
    ASSUME NEW tb, NEW d \in Entries, Shows(tb, d), NEW c \in Callouts, d[c] # Free
    PROVE  Shows(CoDel(tb, c, d[c].t, d[c].m), Put(d, c, Free))
<1> DEFINE new == CoDel(tb, c, d[c].t, d[c].m)
           t == d[c].t
           l == PlaceOf(t)
<1>1. /\ tb \in Table /\ tb.queue \in Seq(QueueEntry) /\ tb.list \in AllLists
      /\ tb.timestamp = 0 /\ Good(tb) /\ Once(tb.queue)
      /\ \A k \in Lists : tb.list[k] \in Seq(Element) /\ Once(tb.list[k])
    BY ShowsFields DEF Shows
<1>2. /\ t \in Nat /\ l \in Everywhere /\ l \in Slots \cup {Immediate, Queue}
      /\ l \in Slots => t # 0
    BY EntryIs, PlaceIs DEF Entries
<1>3. Good(new)
    BY <1>1, <1>2, CoDelGood
<1>4. \A k \in Everywhere : In(tb, c, k) <=> k = l
    BY DEF Shows
<1>5. DelList(tb, c, t, d[c].m) = l
    BY DelListIs
<1>6. CASE l = Queue
    <2> DEFINE p == Position(tb.queue, c)
               r == Dequeue(tb.queue, p)
    <2>1. new = [tb EXCEPT !.queue = r]
        BY <1>5, <1>6 DEF CoDel
    <2>2. new.queue = r /\ new.list = tb.list /\ new.timestamp = 0
        BY <1>1, <2>1 DEF Table
    <2>3. p \in 1 .. Len(tb.queue) /\ tb.queue[p].co = c
        <3>1. Holds(tb.queue, c)
            BY <1>2, <1>4, <1>6, InIs
        <3>2. p \in DOMAIN tb.queue /\ tb.queue[p].co = c
            BY <3>1 DEF Holds, Position
        <3> QED  BY <1>1, <3>2
    <2> HIDE DEF new, r, p
    <2>4. Dequeued(r, tb.queue, p)
        BY <1>1, <2>3, DequeueContent DEF r
    <2>5. Once(r) /\ \A k \in 1 .. Len(r) : r[k].co # c
        BY <1>1, <2>3, <2>4, DequeueOnce
    <2>6. r \in Seq(QueueEntry)
        BY <2>4 DEF Dequeued
    <2>7. \A y : Holds(r, y) <=> Holds(tb.queue, y) /\ y # c
        <3> TAKE y
        <3>1. Holds(r, y) <=> \E k \in 1 .. Len(r) : r[k].co = y
            BY <2>6, HoldsIs
        <3>2. Holds(tb.queue, y) <=> \E k \in 1 .. Len(tb.queue) : tb.queue[k].co = y
            BY <1>1, HoldsIs
        <3> QED  BY <2>3, <2>4, <2>5, <3>1, <3>2 DEF Dequeued
    <2>8. ASSUME NEW y \in Callouts, NEW k \in Everywhere
          PROVE  In(new, y, k) <=> In(tb, y, k) /\ y # c
        <3>1. CASE k = Queue
            BY <2>2, <2>7, <3>1, InIs
        <3>2. CASE k # Queue
            BY <1>4, <1>6, <2>2, <3>2, InIs DEF Everywhere
        <3> QED  BY <3>1, <3>2
    <2>9. \A k \in 1 .. Len(new.queue) :
              \/ new.queue[k].co = c /\ new.queue[k].t = Free.t
              \/ /\ new.queue[k].co # c
                 /\ \E j \in 1 .. Len(tb.queue) : new.queue[k] = tb.queue[j]
        BY <2>2, <2>4, <2>5 DEF Dequeued
    <2> QED  BY <1>1, <1>3, <2>2, <2>5, <2>8, <2>9, ShowsChanged, EntryIs DEF new
<1>7. CASE l # Queue
    <2> DEFINE p == Position(tb.list[l], c)
               z == IF l \in Slots THEN t ELSE 0
    <2>1. l \in Lists
        BY <1>2, <1>7 DEF Everywhere
    <2>2. new = FreeCallout(tb, l, p, z)
        BY <1>5, <1>7 DEF CoDel
    <2>3. /\ new.queue = tb.queue /\ new.timestamp = 0
          /\ new.list = [tb.list EXCEPT ![l] = RemoveAt(tb.list[l], p)]
        BY <1>1, <2>2 DEF FreeCallout, Table
    <2>4. p \in 1 .. Len(tb.list[l]) /\ tb.list[l][p].co = c
        <3>1. Holds(tb.list[l], c)
            BY <1>2, <1>4, <2>1, InIs
        <3>2. p \in DOMAIN tb.list[l] /\ tb.list[l][p].co = c
            BY <3>1 DEF Holds, Position
        <3> QED  BY <1>1, <2>1, <3>2
    <2> HIDE DEF new, l, p, z
    <2>5. /\ new.list[l] = RemoveAt(tb.list[l], p)
          /\ \A k \in Lists \ {l} : new.list[k] = tb.list[k]
        BY <1>1, <2>1, <2>3 DEF AllLists
    <2>6. /\ Once(new.list[l])
          /\ \A y : Holds(new.list[l], y) <=> Holds(tb.list[l], y) /\ y # c
        BY <1>1, <2>1, <2>4, <2>5, RemoveOnce
    <2>7. \A k \in Lists : Once(new.list[k])
        BY <1>1, <2>5, <2>6
    <2>8. ASSUME NEW y \in Callouts, NEW k \in Everywhere
          PROVE  In(new, y, k) <=> In(tb, y, k) /\ y # c
        <3>1. CASE k = Queue
            BY <1>4, <1>7, <2>3, <3>1, InIs DEF Everywhere
        <3>2. CASE k = l
            BY <2>1, <2>6, <3>2, InIs
        <3>3. CASE k # l /\ k # Queue
            BY <1>4, <2>5, <3>3, InIs DEF Everywhere
        <3> QED  BY <3>1, <3>2, <3>3
    <2>9. \A k \in 1 .. Len(new.queue) :
              \/ new.queue[k].co = c /\ new.queue[k].t = Free.t
              \/ /\ new.queue[k].co # c
                 /\ \E j \in 1 .. Len(tb.queue) : new.queue[k] = tb.queue[j]
        <3>1. ~Holds(tb.queue, c)
            BY <1>4, <1>7, InIs DEF Everywhere
        <3> QED  BY <1>1, <2>3, <3>1, HoldsIs
    <2> QED  BY <1>1, <1>3, <2>3, <2>7, <2>8, <2>9, ShowsChanged, EntryIs DEF new
<1> QED  BY <1>6, <1>7

(* co_check() at time 0, without a sub-second part.                        *)
LEMMA DueIs ==
    ASSUME NEW tb, tb.timestamp = 0, NEW delay \in Nat
    PROVE  LET due == Due(tb, [t |-> tb.timestamp, m |-> 0], delay, NoMsec)
           IN  due = [t |-> delay, m |-> NoMsec, q |-> PlaceOf(delay)]
<1>1. 0 + delay = delay /\ 0 + CYCBUF_SIZE = CYCBUF_SIZE
    BY Constants
<1>2. CASE delay = 0
    <2>1. IsImmediate(delay, NoMsec)
        BY <1>2 DEF IsImmediate
    <2> QED  BY <1>1, <1>2, <2>1 DEF Due, PlaceOf
<1>3. CASE delay # 0
    <2>1. ~IsImmediate(delay, NoMsec)
        BY <1>3 DEF IsImmediate
    <2>2. delay < CYCBUF_SIZE => PlaceOf(delay) = Slot(delay)
        BY <1>3, PlaceIs, Constants
    <2>3. ~(delay < CYCBUF_SIZE) => PlaceOf(delay) = Queue
        BY <1>3 DEF PlaceOf
    <2> QED  BY <1>1, <1>3, <2>1, <2>2, <2>3 DEF Due
<1> QED  BY <1>2, <1>3

---------------------------------------------------------------------------
(* Counting callouts.                                                      *)

Count(d) == Cardinality({c \in Callouts : d[c] # Free})

LEMMA CountType ==
    ASSUME NEW d
    PROVE  Count(d) \in Nat /\ IsFiniteSet({c \in Callouts : d[c] # Free})
<1>1. {c \in Callouts : d[c] # Free} \in SUBSET Callouts
    OBVIOUS
<1>2. IsFiniteSet({c \in Callouts : d[c] # Free})
    BY <1>1, Constants, FS_Subset
<1> QED  BY <1>2, FS_CardinalityType DEF Count

LEMMA CountChanged ==
    ASSUME NEW d \in Entries, NEW c \in Callouts, NEW e \in Entry
    PROVE  Count(Put(d, c, e)) = Count(d) + (IF e # Free THEN 1 ELSE 0)
                                                 - (IF d[c] # Free THEN 1 ELSE 0)
<1> DEFINE b == Put(d, c, e)
           S == {x \in Callouts : d[x] # Free}
           T == {x \in Callouts : b[x] # Free}
<1>1. b[c] = e /\ \A x : x # c => b[x] = d[x]
    BY DEF Entries, Put
<1>2. IsFiniteSet(S) /\ Count(d) = Cardinality(S) /\ Count(b) = Cardinality(T)
      /\ Cardinality(S) \in Nat
    BY CountType DEF Count
<1>3. c \in S <=> d[c] # Free
    OBVIOUS
<1> HIDE DEF b
<1>4. CASE e # Free
    <2>1. T = S \cup {c}
        BY <1>1, <1>4
    <2> HIDE DEF S, T
    <2>2. Cardinality(S \cup {c}) = IF c \in S THEN Cardinality(S) ELSE Cardinality(S) + 1
        BY <1>2, FS_AddElement
    <2> QED  BY <1>2, <1>3, <1>4, <2>1, <2>2 DEF b
<1>5. CASE e = Free
    <2>1. T = S \ {c}
        BY <1>1, <1>5
    <2> HIDE DEF S, T
    <2>2. Cardinality(S \ {c}) = IF c \in S THEN Cardinality(S) - 1 ELSE Cardinality(S)
        BY <1>2, FS_RemoveElement
    <2> QED  BY <1>2, <1>3, <1>5, <2>1, <2>2 DEF b
<1> QED  BY <1>4, <1>5

(* A counter of 16 bits follows what it counts.                            *)
LEMMA UindexIs ==
    ASSUME NEW a \in Int
    PROVE  /\ Uindex(a) \in 0 .. UindexRange - 1
           /\ \A b \in Int : Uindex(Uindex(a) + b) = Uindex(a + b)
           /\ Uindex(Uindex(a) - 1) = Uindex(a - 1)
           /\ Uindex(Uindex(a) + 1) = Uindex(a + 1)
BY DEF Uindex, UindexRange

---------------------------------------------------------------------------
(* The dataspace of one object.                                            *)

Space(d) ==
    /\ d \in [co : Seq(Entry), free : Seq(Handles)]
    /\ \A h : (\E k \in 1 .. Len(d.free) : d.free[k] = h)
                  <=> h \in 1 .. Len(d.co) /\ d.co[h] = Free
    /\ \A j \in 1 .. Len(d.free), k \in 1 .. Len(d.free) : d.free[j] = d.free[k] => j = k

LEMMA NewHandleIs ==
    ASSUME NEW d, Space(d)
    PROVE  \/ NewHandle(d) = Len(d.co) + 1
           \/ NewHandle(d) \in 1 .. Len(d.co) /\ d.co[NewHandle(d)] = Free
<1>1. CASE d.free = << >>
    BY <1>1 DEF NewHandle
<1>2. CASE d.free # << >>
    <2>1. d.free \in Seq(Handles) /\ Len(d.free) \in Nat /\ Len(d.free) > 0
        BY <1>2 DEF Space
    <2>2. \E k \in 1 .. Len(d.free) : d.free[k] = NewHandle(d)
        <3>1. CASE Len(d.free) = 1 \/ d.free[2] > d.free[1]
            <4>1. NewHandle(d) = d.free[1] /\ 1 \in 1 .. Len(d.free)
                BY <1>2, <2>1, <3>1 DEF NewHandle
            <4> QED  BY <4>1
        <3>2. CASE ~(Len(d.free) = 1 \/ d.free[2] > d.free[1])
            <4>1. NewHandle(d) = d.free[2]
                BY <1>2, <3>2 DEF NewHandle
            <4>2. Len(d.free) # 1
                BY <3>2
            <4>3. \A x \in Nat : x > 0 /\ x # 1 => 2 \in 1 .. x
                OBVIOUS
            <4>4. 2 \in 1 .. Len(d.free)
                BY <2>1, <4>2, <4>3, Zenon
            <4> QED  BY <4>1, <4>4
        <3> QED  BY <3>1, <3>2
    <2> QED  BY <2>2 DEF Space
<1> QED  BY <1>1, <1>2

(* What a dataspace is after handle h has been given to e.                 *)
Becomes(r, d, h, e) ==
    /\ Space(r)
    /\ Len(r.co) = IF h > Len(d.co) THEN h ELSE Len(d.co)
    /\ r.co[h] = e
    /\ \A x \in 1 .. Len(d.co) : x # h => r.co[x] = d.co[x]

LEMMA AllocCallOutIs ==
    ASSUME NEW d, Space(d), NEW h \in Handles, NEW e \in Entry, e # Free,
           h = Len(d.co) + 1 \/ (h \in 1 .. Len(d.co) /\ d.co[h] = Free)
    PROVE  Becomes(AllocCallOut(d, h, e), d, h, e)
<1> DEFINE r == AllocCallOut(d, h, e)
           n == Len(d.co)
           f == Len(d.free)
<1>1. /\ d.co \in Seq(Entry) /\ d.free \in Seq(Handles) /\ n \in Nat /\ f \in Nat
      /\ d \in [co : Seq(Entry), free : Seq(Handles)]
      /\ \A x : (\E k \in 1 .. f : d.free[k] = x) <=> x \in 1 .. n /\ d.co[x] = Free
      /\ \A j \in 1 .. f, k \in 1 .. f : d.free[j] = d.free[k] => j = k
    BY DEF Space
<1>2. h \in Nat
    BY DEF Handles
<1>3. CASE h = n + 1
    <2>1. r = [d EXCEPT !.co = Append(d.co, e)]
        BY <1>1, <1>3 DEF AllocCallOut
    <2>2. r.co = Append(d.co, e) /\ r.free = d.free
        BY <1>1, <2>1
    <2>3. /\ r.co \in Seq(Entry) /\ Len(r.co) = n + 1 /\ r.co[h] = e
          /\ \A x \in 1 .. n : r.co[x] = d.co[x]
        <3> HIDE DEF r
        <3> QED  BY <1>1, <1>3, <2>2, AppendElem
    <2>4. r \in [co : Seq(Entry), free : Seq(Handles)]
        BY <1>1, <2>1, <2>2, <2>3
    <2> HIDE DEF r, n, f
    <2>5. ASSUME NEW x
          PROVE  (\E k \in 1 .. f : d.free[k] = x) <=> x \in 1 .. n + 1 /\ r.co[x] = Free
        <3>1. CASE x = n + 1
            <4>1. x \notin 1 .. n
                BY <1>1, <3>1
            <4> QED  BY <1>1, <1>3, <2>3, <3>1, <4>1
        <3>2. CASE x # n + 1
            <4>1. x \in 1 .. n + 1 <=> x \in 1 .. n
                BY <1>1, <3>2
            <4> QED  BY <1>1, <2>3, <4>1
        <3> QED  BY <3>1, <3>2
    <2>6. Space(r)
        BY <1>1, <2>2, <2>3, <2>4, <2>5 DEF Space, f
    <2>7. h > n
        BY <1>1, <1>3
    <2> QED  BY <1>3, <2>3, <2>6, <2>7 DEF Becomes, n, r
<1>4. CASE h \in 1 .. n /\ d.co[h] = Free
    <2> DEFINE p == CHOOSE k \in DOMAIN d.free : d.free[k] = h
    <2>1. ~(h > n)
        BY <1>1, <1>4
    <2>2. r = [co |-> [d.co EXCEPT ![h] = e], free |-> RemoveAt(d.free, p)]
        BY <2>1 DEF AllocCallOut
    <2>3. p \in 1 .. f /\ d.free[p] = h
        <3>1. \E k \in 1 .. f : d.free[k] = h
            BY <1>1, <1>4
        <3>2. DOMAIN d.free = 1 .. f
            BY <1>1
        <3> QED  BY <3>1, <3>2
    <2>4. /\ r.co \in Seq(Entry) /\ Len(r.co) = n /\ r.co[h] = e
          /\ \A x \in 1 .. n : x # h => r.co[x] = d.co[x]
        BY <1>1, <1>4, <2>2
    <2>5. /\ r.free \in Seq(Handles) /\ Len(r.free) = f - 1
          /\ \A k \in 1 .. f - 1 : r.free[k] = IF k < p THEN d.free[k] ELSE d.free[k + 1]
        <3> DEFINE b == d.free
        <3>1. b \in Seq(Handles) /\ f = Len(b)
            BY <1>1
        <3> HIDE DEF p, r, b
        <3>2. r.free = RemoveAt(b, p)
            BY <2>2 DEF b
        <3>3. p \in 1 .. Len(b)
            BY <2>3, <3>1
        <3> HIDE DEF f
        <3> QED  BY <3>1, <3>2, <3>3, RemoveElem DEF b
    <2>6. r \in [co : Seq(Entry), free : Seq(Handles)]
        <3> HIDE DEF p
        <3> QED  BY <2>2, <2>4, <2>5
    <2> DEFINE old(k) == IF k < p THEN k ELSE k + 1
    <2> HIDE DEF r, n, f, p
    <2>7. \A k \in 1 .. f - 1 : /\ old(k) \in 1 .. f /\ old(k) # p
                                /\ r.free[k] = d.free[old(k)]
        BY <1>1, <2>3, <2>5
    <2>8. \A j \in 1 .. f - 1, k \in 1 .. f - 1 : old(j) = old(k) => j = k
        BY <1>1, <2>3
    <2>9. ASSUME NEW j \in 1 .. f, j # p
          PROVE  \E k \in 1 .. f - 1 : old(k) = j
        <3>1. CASE j < p
            <4>1. j \in 1 .. f - 1 /\ old(j) = j
                BY <1>1, <2>3, <3>1
            <4> QED  BY <4>1
        <3>2. CASE j > p
            <4>1. j - 1 \in 1 .. f - 1 /\ old(j - 1) = j
                BY <1>1, <2>3, <3>2
            <4> QED  BY <4>1
        <3> QED  BY <1>1, <2>3, <2>9, <3>1, <3>2
    <2> HIDE DEF old
    <2>10. ASSUME NEW x
           PROVE  (\E k \in 1 .. f - 1 : r.free[k] = x) <=> x \in 1 .. n /\ r.co[x] = Free
        <3>1. ASSUME NEW k \in 1 .. f - 1, r.free[k] = x
              PROVE  x \in 1 .. n /\ r.co[x] = Free
            <4>1. d.free[old(k)] = x /\ old(k) \in 1 .. f /\ old(k) # p
                BY <2>7, <3>1
            <4>2. x # h /\ x \in 1 .. n /\ d.co[x] = Free
                BY <1>1, <2>3, <4>1
            <4> QED  BY <2>4, <4>2
        <3>2. ASSUME x \in 1 .. n, r.co[x] = Free
              PROVE  \E k \in 1 .. f - 1 : r.free[k] = x
            <4>1. x # h /\ d.co[x] = Free
                BY <2>4, <3>2
            <4>2. PICK j \in 1 .. f : d.free[j] = x
                BY <1>1, <3>2, <4>1
            <4>3. PICK k \in 1 .. f - 1 : old(k) = j
                BY <2>3, <2>9, <4>1, <4>2
            <4> QED  BY <2>7, <4>2, <4>3
        <3> QED  BY <3>1, <3>2
    <2>11. ASSUME NEW j \in 1 .. f - 1, NEW k \in 1 .. f - 1, r.free[j] = r.free[k]
           PROVE  j = k
        <3>1. d.free[old(j)] = d.free[old(k)]
            BY <2>7, <2>11
        <3>2. old(j) = old(k)
            BY <1>1, <2>7, <3>1
        <3> QED  BY <2>8, <3>2
    <2>12. Space(r)
        BY <2>4, <2>5, <2>6, <2>10, <2>11 DEF Space
    <2> QED  BY <2>1, <2>4, <2>12 DEF Becomes, n, r
<1> QED  BY <1>3, <1>4

LEMMA FreeCallOutIs ==
    ASSUME NEW d, Space(d), NEW h \in 1 .. Len(d.co), h \in Handles, d.co[h] # Free
    PROVE  Becomes(FreeCallOut(d, h), d, h, Free)
<1> DEFINE r == FreeCallOut(d, h)
           n == Len(d.co)
           f == Len(d.free)
<1>1. /\ d.co \in Seq(Entry) /\ d.free \in Seq(Handles) /\ n \in Nat /\ f \in Nat
      /\ \A x : (\E k \in 1 .. f : d.free[k] = x) <=> x \in 1 .. n /\ d.co[x] = Free
      /\ \A j \in 1 .. f, k \in 1 .. f : d.free[j] = d.free[k] => j = k
    BY DEF Space
<1>2. r.co = [d.co EXCEPT ![h] = Free] /\ r.free = << h >> \o d.free
    BY DEF FreeCallOut
<1>3. /\ r.co \in Seq(Entry) /\ Len(r.co) = n /\ r.co[h] = Free
      /\ \A x \in 1 .. n : x # h => r.co[x] = d.co[x]
    BY <1>1, <1>2, EntryIs
<1>4. /\ r.free \in Seq(Handles) /\ Len(r.free) = f + 1 /\ r.free[1] = h
      /\ \A k \in 1 .. f : r.free[k + 1] = d.free[k]
    <2> DEFINE a == << h >>
               b == d.free
    <2>1. a \in Seq(Handles) /\ Len(a) = 1 /\ a[1] = h
        OBVIOUS
    <2> HIDE DEF a
    <2>2. b \in Seq(Handles) /\ r.free = a \o b /\ f = Len(b)
        BY <1>1, <1>2 DEF a
    <2> HIDE DEF b, f, r
    <2>3. a \o b \in Seq(Handles) /\ Joined(a \o b, a, b)
        BY <2>1, <2>2, ConcatElem
    <2>4. \A k \in 1 .. f : (a \o b)[1 + k] = b[k] /\ 1 + k = k + 1
        BY <1>1, <2>1, <2>2, <2>3 DEF Joined
    <2>5. (a \o b)[1] = h /\ Len(a \o b) = f + 1
        BY <1>1, <2>1, <2>2, <2>3 DEF Joined
    <2> QED  BY <2>2, <2>3, <2>4, <2>5 DEF b
<1>5. r \in [co : Seq(Entry), free : Seq(Handles)]
    BY <1>3, <1>4 DEF FreeCallOut
<1> HIDE DEF r, n, f
<1>6. \A k \in 1 .. f + 1 : k = 1 \/ (k - 1 \in 1 .. f /\ r.free[k] = d.free[k - 1])
    <2> TAKE k \in 1 .. f + 1
    <2>1. k = 1 \/ (k - 1 \in 1 .. f /\ (k - 1) + 1 = k)
        BY <1>1
    <2> QED  BY <1>4, <2>1
<1>7. \A k \in 1 .. f : d.free[k] # h
    BY <1>1
<1>8. ASSUME NEW x
      PROVE  (\E k \in 1 .. f + 1 : r.free[k] = x) <=> x \in 1 .. n /\ r.co[x] = Free
    <2>1. 1 \in 1 .. f + 1 /\ \A k \in 1 .. f : k + 1 \in 1 .. f + 1
        BY <1>1
    <2>2. CASE x = h
        BY <1>3, <1>4, <2>1, <2>2 DEF n
    <2>3. CASE x # h
        <3>1. (\E k \in 1 .. f + 1 : r.free[k] = x) <=> \E k \in 1 .. f : d.free[k] = x
            BY <1>4, <1>6, <2>1, <2>3
        <3> QED  BY <1>1, <1>3, <2>3, <3>1
    <2> QED  BY <2>2, <2>3
<1>9. ASSUME NEW j \in 1 .. f + 1, NEW k \in 1 .. f + 1, r.free[j] = r.free[k]
      PROVE  j = k
    <2>1. j = 1 \/ (j - 1 \in 1 .. f /\ r.free[j] = d.free[j - 1])
        BY <1>6
    <2>2. k = 1 \/ (k - 1 \in 1 .. f /\ r.free[k] = d.free[k - 1])
        BY <1>6
    <2>3. CASE j = 1 \/ k = 1
        BY <1>4, <1>7, <1>9, <2>1, <2>2, <2>3
    <2>4. CASE j # 1 /\ k # 1
        <3>1. j - 1 = k - 1
            BY <1>1, <1>9, <2>1, <2>2, <2>4
        <3> QED  BY <3>1
    <2> QED  BY <2>3, <2>4
<1>10. Space(r)
    BY <1>3, <1>4, <1>5, <1>8, <1>9 DEF Space
<1>11. ~(h > n)
    BY <1>1 DEF n
<1> QED  BY <1>3, <1>10, <1>11 DEF Becomes, n, r

---------------------------------------------------------------------------
(* The dataspaces of all objects, and what they hold.                      *)

Spaces(co, free) ==
    /\ co \in [Objects -> Seq(Entry)] /\ free \in [Objects -> Seq(Handles)]
    /\ \A o \in Objects : Space([co |-> co[o], free |-> free[o]])
    /\ \A o \in Objects : \A h \in 1 .. Len(co[o]) : << o, h >> \in Callouts

Held(co) ==
    [c \in Callouts |-> IF c[2] \in 1 .. Len(co[c[1]]) THEN co[c[1]][c[2]] ELSE Free]

(* No handle goes away.                                                    *)
Keeps(new, old) == \A o \in Objects : \A h \in 1 .. Len(old[o]) : h \in 1 .. Len(new[o])

LEMMA HeldType ==
    ASSUME NEW co, NEW free, Spaces(co, free)
    PROVE  Held(co) \in Entries
<1>1. ASSUME NEW c \in Callouts, c[2] \in 1 .. Len(co[c[1]])
      PROVE  co[c[1]][c[2]] \in Entry
    <2>1. co[c[1]] \in Seq(Entry)
        BY Constants DEF Spaces
    <2> QED  BY <1>1, <2>1
<1> QED  BY <1>1, EntryIs DEF Held, Entries

DataOf(co, free, o) == [co |-> co[o], free |-> free[o]]
Sets(nc, nf, co, free, o, u) ==
    nc = [co EXCEPT ![o] = u.co] /\ nf = [free EXCEPT ![o] = u.free]

LEMMA SpacesChanged ==
    ASSUME NEW co, NEW free, Spaces(co, free), NEW o \in Objects, NEW h \in Handles,
           NEW c \in Callouts, c = << o, h >>, NEW e \in Entry,
           h = Len(co[o]) + 1 \/ h \in 1 .. Len(co[o]),
           NEW d, Becomes(d, DataOf(co, free, o), h, e),
           NEW new, NEW nf, Sets(new, nf, co, free, o, d)
    PROVE  /\ Spaces(new, nf)
           /\ Held(new) = Put(Held(co), c, e)
           /\ Keeps(new, co) /\ h \in 1 .. Len(new[o])
<1> DEFINE n == Len(co[o])
<1>1. /\ co \in [Objects -> Seq(Entry)] /\ free \in [Objects -> Seq(Handles)]
      /\ co[o] \in Seq(Entry) /\ n \in Nat /\ h \in Nat /\ h >= 1
    BY DEF Spaces, Handles
<1>2. /\ Space(d) /\ d.co \in Seq(Entry) /\ d.free \in Seq(Handles)
      /\ d \in [co : Seq(Entry), free : Seq(Handles)]
      /\ Len(d.co) = IF h > n THEN h ELSE n
      /\ d.co[h] = e
      /\ \A x \in 1 .. n : x # h => d.co[x] = co[o][x]
    BY DEF Becomes, Space, DataOf
<1>3. /\ new \in [Objects -> Seq(Entry)] /\ nf \in [Objects -> Seq(Handles)]
      /\ new[o] = d.co /\ nf[o] = d.free
      /\ \A x \in Objects \ {o} : new[x] = co[x] /\ nf[x] = free[x]
    BY <1>1, <1>2 DEF Sets
<1>4. ASSUME NEW x \in Objects
      PROVE  Space([co |-> new[x], free |-> nf[x]])
    <2>1. CASE x = o
        <3>1. [co |-> new[x], free |-> nf[x]] = d
            BY <1>2, <1>3, <2>1
        <3> QED  BY <1>2, <3>1
    <2>2. CASE x # o
        BY <1>3, <2>2 DEF Spaces
    <2> QED  BY <2>1, <2>2
<1>5. \A x \in 1 .. Len(d.co) : x = h \/ x \in 1 .. n
    BY <1>1, <1>2
<1>6. /\ h \in 1 .. Len(d.co) /\ \A x \in 1 .. n : x \in 1 .. Len(d.co)
    BY <1>1, <1>2
<1>7. ASSUME NEW x \in Objects, NEW y \in 1 .. Len(new[x])
      PROVE  << x, y >> \in Callouts
    <2>1. CASE x = o
        BY <1>3, <1>5, <2>1 DEF Spaces
    <2>2. CASE x # o
        BY <1>3, <2>2 DEF Spaces
    <2> QED  BY <2>1, <2>2
<1>8. Spaces(new, nf)
    BY <1>3, <1>4, <1>7 DEF Spaces
<1>9. Keeps(new, co) /\ h \in 1 .. Len(new[o])
    BY <1>3, <1>6 DEF Keeps
<1>10. ASSUME NEW y \in Callouts
       PROVE  Held(new)[y] = IF y = c THEN e ELSE Held(co)[y]
    <2>1. /\ y[1] \in Objects /\ y = << y[1], y[2] >>
          /\ Held(new)[y] = IF y[2] \in 1 .. Len(new[y[1]]) THEN new[y[1]][y[2]] ELSE Free
          /\ Held(co)[y] = IF y[2] \in 1 .. Len(co[y[1]]) THEN co[y[1]][y[2]] ELSE Free
        BY Constants DEF Held
    <2>2. CASE y[1] # o
        BY <1>3, <2>1, <2>2
    <2>3. CASE y[1] = o /\ y[2] = h
        BY <1>2, <1>3, <1>6, <2>1, <2>3
    <2>4. CASE y[1] = o /\ y[2] # h
        <3>1. y[2] \in 1 .. Len(new[o]) <=> y[2] \in 1 .. n
            BY <1>3, <1>5, <1>6, <2>4
        <3>2. y[2] \in 1 .. n => new[o][y[2]] = co[o][y[2]]
            BY <1>2, <1>3, <2>4
        <3>3. y # c
            BY <2>4
        <3> QED  BY <2>1, <2>4, <3>1, <3>2, <3>3
    <2> QED  BY <2>2, <2>3, <2>4
<1>11. Held(new) = Put(Held(co), c, e)
    <2>1. Held(co) \in Entries /\ Held(new) \in Entries
        BY <1>8, HeldType
    <2>2. /\ \A y \in Callouts : Put(Held(co), c, e)[y] = IF y = c THEN e ELSE Held(co)[y]
          /\ Put(Held(co), c, e) \in Entries
        BY <2>1 DEF Entries, Put
    <2> QED  BY <1>10, <2>1, <2>2 DEF Entries
<1> QED  BY <1>8, <1>9, <1>11

(* A callout is started, with a new handle or a free one.                  *)
LEMMA AllocSpaces ==
    ASSUME NEW co, NEW free, Spaces(co, free), NEW o \in Objects, NEW h \in Handles,
           NEW c \in Callouts, c = << o, h >>, NEW e \in Entry, e # Free,
           h = Len(co[o]) + 1 \/ (h \in 1 .. Len(co[o]) /\ co[o][h] = Free),
           NEW u, u = AllocCallOut(DataOf(co, free, o), h, e),
           NEW nc, NEW nf, Sets(nc, nf, co, free, o, u)
    PROVE  /\ Spaces(nc, nf)
           /\ Held(nc) = Put(Held(co), c, e)
           /\ Keeps(nc, co) /\ h \in 1 .. Len(nc[o])
<1> DEFINE d == DataOf(co, free, o)
<1>1. Space(d) /\ d.co = co[o]
    BY DEF Spaces, DataOf
<1> HIDE DEF d
<1>2. Becomes(u, d, h, e)
    BY <1>1, AllocCallOutIs DEF d
<1> QED  BY <1>2, SpacesChanged DEF d

LEMMA FreeSpaces ==
    ASSUME NEW co, NEW free, Spaces(co, free), NEW o \in Objects, NEW h \in Handles,
           h \in 1 .. Len(co[o]), co[o][h] # Free, NEW c \in Callouts, c = << o, h >>,
           NEW u, u = FreeCallOut(DataOf(co, free, o), h),
           NEW nc, NEW nf, Sets(nc, nf, co, free, o, u)
    PROVE  /\ Spaces(nc, nf)
           /\ Held(nc) = Put(Held(co), c, Free)
           /\ Keeps(nc, co) /\ h \in 1 .. Len(nc[o])
<1> DEFINE d == DataOf(co, free, o)
<1>1. Space(d) /\ d.co = co[o] /\ Free \in Entry
    BY EntryIs DEF Spaces, DataOf
<1> HIDE DEF d
<1>2. Becomes(u, d, h, Free)
    BY <1>1, FreeCallOutIs DEF d
<1> QED  BY <1>1, <1>2, SpacesChanged DEF d

---------------------------------------------------------------------------
(* Patches.                                                                *)

(* Patch p leads from r to a.                                              *)
Fits(p, r, a) ==
    /\ p \in Patch /\ p.rco = r /\ p.aco = a /\ ~(r = Free /\ a = Free)
    /\ p.type = IF r = Free THEN "ADD" ELSE IF a = Free THEN "REMOVE" ELSE "REPLACE"
    /\ a # Free => p.t = a.t /\ p.m = NoMsec /\ p.q = PlaceOf(a.t)

(* The table with ncallout, s, shows d; there are "total" callouts.        *)
Commits(s, d, total) ==
    /\ s = [tab |-> s.tab, n |-> s.n]
    /\ Shows(s.tab, d) /\ s.n = Uindex(total - Count(d))

LEMMA ExceptTwice ==
    ASSUME NEW d \in Entries, NEW c \in Callouts, NEW e, NEW x \in Entry
    PROVE  /\ Put(d, c, x) \in Entries /\ Put(d, c, x)[c] = x
           /\ Put(Put(d, c, e), c, x) = Put(d, c, x)
BY DEF Entries, Put

(* A patch that is committed to the table.                                 *)
LEMMA ApplyPatchIs ==
    ASSUME NEW s, NEW d \in Entries, NEW total \in Int, Commits(s, d, total),
           NEW c \in Callouts, NEW p, NEW a \in Entry, Fits(p, d[c], a)
    PROVE  Commits(ApplyPatch(s, c[1], c[2], p), Put(d, c, a), total)
<1> DEFINE r == ApplyPatch(s, c[1], c[2], p)
           i == CHOOSE x \in NewIndices(s.tab) : TRUE
           due == [t |-> p.t, m |-> p.m, q |-> p.q]
           b == Put(d, c, a)
           deleted == CoDel(s.tab, c, d[c].t, d[c].m)
           j == CHOOSE x \in NewIndices(deleted) : TRUE
<1>1. c = << c[1], c[2] >> /\ p.rco = d[c] /\ d[c] \in Entry /\ Free \in Entry
    BY Constants, EntryIs DEF Fits, Entries
<1>2. /\ Count(b) = Count(d) + (IF a # Free THEN 1 ELSE 0) - (IF d[c] # Free THEN 1 ELSE 0)
      /\ Count(d) \in Nat
    BY CountChanged, CountType
<1>3. /\ s.n = Uindex(total - Count(d)) /\ Shows(s.tab, d)
      /\ Uindex(s.n - 1) = Uindex((total - Count(d)) - 1)
      /\ Uindex(s.n + 1) = Uindex((total - Count(d)) + 1)
    BY <1>2, UindexIs DEF Commits
<1>4. due.t = p.t /\ due.m = p.m /\ due.q = p.q
    OBVIOUS
<1>5. CASE p.type = "ADD"
    <2>1. /\ d[c] = Free /\ a # Free
          /\ due.t = a.t /\ due.m = NoMsec /\ due.q = PlaceOf(a.t)
        BY <1>5 DEF Fits
    <2>2. r = [tab |-> CoNew(s.tab, c, due, i), n |-> Uindex(s.n - 1)]
        BY <1>1, <1>5 DEF ApplyPatch
    <2>3. i \in NewIndices(s.tab)
        BY <1>3, ShowsFields
    <2> HIDE DEF due, i, r, b
    <2>4. Shows(CoNew(s.tab, c, due, i), b)
        BY <1>3, <2>1, <2>3, PutShows DEF b
    <2>5. (total - Count(d)) - 1 = total - Count(b)
        BY <1>2, <2>1
    <2> QED  BY <1>3, <2>2, <2>4, <2>5 DEF Commits, r, b
<1>6. CASE p.type = "REMOVE"
    <2>1. d[c] # Free /\ a = Free
        BY <1>6 DEF Fits
    <2>2. r = [tab |-> deleted, n |-> Uindex(s.n + 1)]
        BY <1>1, <1>6 DEF ApplyPatch
    <2> HIDE DEF r, b, deleted
    <2>3. Shows(deleted, b)
        BY <1>3, <2>1, TakeShows DEF b, deleted
    <2>4. (total - Count(d)) + 1 = total - Count(b)
        BY <1>2, <2>1
    <2> QED  BY <1>3, <2>2, <2>3, <2>4 DEF Commits, r, b
<1>7. CASE p.type = "REPLACE"
    <2> DEFINE g == Put(d, c, Free)
    <2>1. /\ d[c] # Free /\ a # Free
          /\ due.t = a.t /\ due.m = NoMsec /\ due.q = PlaceOf(a.t)
        BY <1>7 DEF Fits
    <2>2. r = [tab |-> CoNew(deleted, c, due, j), n |-> s.n]
        BY <1>1, <1>7 DEF ApplyPatch
    <2>3. g \in Entries /\ g[c] = Free /\ Put(g, c, a) = b
        BY <1>1, ExceptTwice
    <2> HIDE DEF due, r, b, g, deleted
    <2>4. Shows(deleted, g)
        BY <1>3, <2>1, TakeShows DEF g, deleted
    <2>5. j \in NewIndices(deleted)
        BY <2>4, ShowsFields
    <2> HIDE DEF j
    <2>6. Shows(CoNew(deleted, c, due, j), b)
        BY <2>1, <2>3, <2>4, <2>5, PutShows
    <2>7. total - Count(d) = total - Count(b)
        BY <1>2, <2>1
    <2> QED  BY <1>3, <2>2, <2>6, <2>7 DEF Commits, r, b
<1> QED  BY <1>5, <1>6, <1>7 DEF Fits

(* The dataspaces with ncallout, s, hold d; the table has "total" callouts.*)
Undoes(s, d, total) ==
    /\ s = [co |-> s.co, free |-> s.free, n |-> s.n]
    /\ Spaces(s.co, s.free) /\ Held(s.co) = d /\ s.n = Uindex(Count(d) - total)

(* A patch that is undone in the dataspaces.                               *)
LEMMA UndoPatchIs ==
    ASSUME NEW s, NEW d \in Entries, NEW total \in Int, Undoes(s, d, total),
           NEW c \in Callouts, c[2] \in 1 .. Len(s.co[c[1]]),
           NEW p, NEW r \in Entry, Fits(p, r, d[c]),
           NEW b, b = Put(d, c, r),
           NEW new, new = UndoPatch(s, c[1], c[2], p)
    PROVE  Undoes(new, b, total) /\ Keeps(new.co, s.co)
<1>1. PICK o \in Objects, h \in Handles :
          o = c[1] /\ h = c[2] /\ c = << o, h >> /\ h \in 1 .. Len(s.co[o])
    BY Constants DEF Handles
<1>2. /\ Count(b) = Count(d) + (IF r # Free THEN 1 ELSE 0) - (IF d[c] # Free THEN 1 ELSE 0)
      /\ Count(d) \in Nat
    BY CountChanged, CountType
<1>3. /\ s.n = Uindex(Count(d) - total) /\ Spaces(s.co, s.free) /\ Held(s.co) = d
      /\ Uindex(s.n - 1) = Uindex((Count(d) - total) - 1)
      /\ Uindex(s.n + 1) = Uindex((Count(d) - total) + 1)
    BY <1>2, UindexIs DEF Undoes
<1>4. d[c] = s.co[o][h]
    BY <1>1, <1>3 DEF Held
<1> DEFINE x == DataOf(s.co, s.free, o)
<1>5. PICK u : u = Undo(x, h, p)
    OBVIOUS
<1>6. /\ Sets(new.co, new.free, s.co, s.free, o, u)
      /\ new = [co |-> new.co, free |-> new.free, n |-> new.n]
      /\ new.n = CASE p.type = "ADD" -> Uindex(s.n - 1)
                   [] p.type = "REMOVE" -> Uindex(s.n + 1)
                   [] p.type = "REPLACE" -> s.n
    <2> DEFINE n == CASE p.type = "ADD" -> Uindex(s.n - 1)
                      [] p.type = "REMOVE" -> Uindex(s.n + 1)
                      [] p.type = "REPLACE" -> s.n
    <2> HIDE DEF n
    <2>1. new = [co |-> [s.co EXCEPT ![o] = u.co],
                 free |-> [s.free EXCEPT ![o] = u.free], n |-> n]
        BY <1>1, <1>5 DEF UndoPatch, n, DataOf
    <2>2. new.n = n
        BY <2>1
    <2>3. new.co = [s.co EXCEPT ![o] = u.co]
        BY <2>1
    <2>4. new.free = [s.free EXCEPT ![o] = u.free]
        BY <2>1
    <2>5. new = [co |-> new.co, free |-> new.free, n |-> new.n]
        BY <2>1, <2>2, <2>3, <2>4, Zenon
    <2> QED  BY <2>2, <2>3, <2>4, <2>5, Zenon DEF n, Sets
<1> HIDE DEF x
<1>7. CASE p.type = "ADD"
    <2>1. r = Free /\ d[c] # Free /\ u = FreeCallOut(x, h)
        BY <1>5, <1>7 DEF Fits, Undo
    <2>2. Spaces(new.co, new.free) /\ Held(new.co) = b /\ Keeps(new.co, s.co)
        BY <1>1, <1>3, <1>4, <1>6, <2>1, FreeSpaces DEF x
    <2>3. (Count(d) - total) - 1 = Count(b) - total
        BY <1>2, <2>1
    <2>4. new.n = Uindex(s.n - 1)
        BY <1>6, <1>7
    <2> QED  BY <1>3, <1>6, <2>2, <2>3, <2>4 DEF Undoes
<1>8. CASE p.type = "REMOVE"
    <2>1. r # Free /\ d[c] = Free /\ p.rco = r /\ u = AllocCallOut(x, h, r)
        BY <1>5, <1>8 DEF Fits, Undo
    <2>2. Spaces(new.co, new.free) /\ Held(new.co) = b /\ Keeps(new.co, s.co)
        BY <1>1, <1>3, <1>4, <1>6, <2>1, AllocSpaces DEF x
    <2>3. (Count(d) - total) + 1 = Count(b) - total
        BY <1>2, <2>1
    <2>4. new.n = Uindex(s.n + 1)
        BY <1>6, <1>8
    <2> QED  BY <1>3, <1>6, <2>2, <2>3, <2>4 DEF Undoes
<1>9. CASE p.type = "REPLACE"
    <2>1. PICK v : v = FreeCallOut(x, h)
        OBVIOUS
    <2>2. PICK co : co = [s.co EXCEPT ![o] = v.co]
        OBVIOUS
    <2>3. PICK free : free = [s.free EXCEPT ![o] = v.free]
        OBVIOUS
    <2>4. PICK g : g = Put(d, c, Free)
        OBVIOUS
    <2>5. r # Free /\ d[c] # Free /\ p.rco = r /\ u = AllocCallOut(v, h, r)
        BY <1>5, <1>9, <2>1 DEF Fits, Undo
    <2>6. g \in Entries /\ g[c] = Free
        BY <2>4, EntryIs DEF Entries, Put
    <2>7. Put(g, c, r) = b
        BY <2>4 DEF Entries, Put
    <2>8. /\ s.co \in [Objects -> Seq(Entry)] /\ s.free \in [Objects -> Seq(Handles)]
        BY <1>3 DEF Spaces
    <2>9. co[o] = v.co /\ free[o] = v.free
        BY <2>2, <2>3, <2>8
    <2>10. Sets(new.co, new.free, co, free, o, u)
        BY <1>6, <2>2, <2>3, <2>8 DEF Sets
    <2>11. Spaces(co, free) /\ Held(co) = g /\ Keeps(co, s.co) /\ h \in 1 .. Len(co[o])
        <3>1. Sets(co, free, s.co, s.free, o, v)
            BY <2>2, <2>3 DEF Sets
        <3> QED  BY <1>1, <1>3, <1>4, <2>1, <2>4, <2>5, <3>1, FreeSpaces DEF x
    <2>12. co[o][h] = Free
        BY <1>1, <2>6, <2>11 DEF Held
    <2>13. u = AllocCallOut(DataOf(co, free, o), h, r)
        <3>1. v = [co |-> v.co, free |-> v.free]
            BY <2>1 DEF FreeCallOut
        <3> QED  BY <2>5, <2>9, <3>1, Zenon DEF DataOf
    <2>14. Spaces(new.co, new.free) /\ Held(new.co) = b /\ Keeps(new.co, co)
        BY <1>1, <2>5, <2>7, <2>10, <2>11, <2>12, <2>13, AllocSpaces
    <2>15. Keeps(new.co, s.co)
        BY <2>11, <2>14 DEF Keeps
    <2>16. Count(d) - total = Count(b) - total /\ new.n = s.n
        BY <1>2, <1>6, <1>9, <2>5
    <2> QED  BY <1>3, <1>6, <2>14, <2>15, <2>16 DEF Undoes
<1> QED  BY <1>7, <1>8, <1>9 DEF Fits, Patch

---------------------------------------------------------------------------
(* The patches of one plane.                                               *)

(* d, and w for the callouts in S.                                         *)
Mix(d, w, S) == [c \in Callouts |-> IF c \in S THEN w[c] ELSE d[c]]

(* The callouts of o up to handle h.                                       *)
UpTo(o, h) == {c \in Callouts : c[1] = o /\ c[2] <= h}
Of(o) == {c \in Callouts : c[1] = o}

(* Only callouts with a patch in the plane differ between d and w.         *)
Covers(pl, d, w) ==
    /\ DOMAIN pl.cop \subseteq Handles
    /\ \A h \in DOMAIN pl.cop : << pl.obj, h >> \in Callouts
    /\ \A c \in Callouts : c[1] = pl.obj /\ c[2] \notin DOMAIN pl.cop => d[c] = w[c]

LEMMA MixType ==
    ASSUME NEW d \in Entries, NEW w \in Entries, NEW S
    PROVE  Mix(d, w, S) \in Entries
BY DEF Mix, Entries

LEMMA MixNone ==
    ASSUME NEW d \in Entries, NEW w, NEW o
    PROVE  Mix(d, w, UpTo(o, 0)) = d
<1>1. \A c \in Callouts : c \notin UpTo(o, 0)
    BY Constants DEF UpTo
<1> QED  BY <1>1 DEF Mix, Entries

LEMMA MixAll ==
    ASSUME NEW d, NEW w, NEW o
    PROVE  Mix(d, w, UpTo(o, MaxHandle)) = Mix(d, w, Of(o))
<1>1. \A c \in Callouts : c \in UpTo(o, MaxHandle) <=> c \in Of(o)
    BY Constants DEF UpTo, Of
<1> QED  BY <1>1 DEF Mix

LEMMA UpToStep ==
    ASSUME NEW o, NEW h \in 1 .. MaxHandle, NEW c, c = << o, h >>
    PROVE  /\ \A x \in Callouts : x \in UpTo(o, h) <=> x \in UpTo(o, h - 1) \/ x = c
           /\ c \notin UpTo(o, h - 1) /\ c[1] = o /\ c[2] = h
<1>1. ASSUME NEW x \in Callouts
      PROVE  x \in UpTo(o, h) <=> x \in UpTo(o, h - 1) \/ x = c
    <2>1. x = << x[1], x[2] >> /\ x[2] \in 1 .. MaxHandle /\ MaxHandle \in Nat
        BY Constants
    <2>2. x = c <=> x[1] = o /\ x[2] = h
        BY <2>1
    <2> QED  BY <2>1, <2>2 DEF UpTo
<1>2. c \notin UpTo(o, h - 1)
    BY Constants DEF UpTo
<1> QED  BY <1>1, <1>2

LEMMA MixPatched ==
    ASSUME NEW d \in Entries, NEW w \in Entries, NEW pl, Covers(pl, d, w),
           NEW o, o = pl.obj, NEW h \in 1 .. MaxHandle, h \in DOMAIN pl.cop,
           NEW c, c = << o, h >>
    PROVE  /\ c \in Callouts
           /\ Mix(d, w, UpTo(o, h - 1))[c] = d[c]
           /\ Mix(d, w, UpTo(o, h)) = Put(Mix(d, w, UpTo(o, h - 1)), c, w[c])
<1> DEFINE S == UpTo(o, h)
           T == UpTo(o, h - 1)
<1>1. c \notin T /\ \A x \in Callouts : x \in S <=> x \in T \/ x = c
    BY UpToStep
<1>2. c \in Callouts
    BY DEF Covers
<1> HIDE DEF S, T
<1>3. Mix(d, w, T) \in Entries /\ Mix(d, w, S) \in Entries
    BY MixType
<1>4. Mix(d, w, T)[c] = d[c]
    BY <1>1, <1>2 DEF Mix
<1>5. Put(Mix(d, w, T), c, w[c]) \in Entries
    BY <1>2, <1>3 DEF Put, Entries
<1>6. \A x \in Callouts : Mix(d, w, S)[x] = Put(Mix(d, w, T), c, w[c])[x]
    BY <1>1, <1>2, <1>3 DEF Put, Entries, Mix
<1>7. Mix(d, w, S) = Put(Mix(d, w, T), c, w[c])
    BY <1>3, <1>5, <1>6 DEF Entries
<1> QED  BY <1>2, <1>4, <1>7 DEF S, T

LEMMA MixSame ==
    ASSUME NEW d \in Entries, NEW w \in Entries, NEW pl, Covers(pl, d, w),
           NEW o, o = pl.obj, NEW h \in 1 .. MaxHandle, h \notin DOMAIN pl.cop
    PROVE  Mix(d, w, UpTo(o, h)) = Mix(d, w, UpTo(o, h - 1))
<1> DEFINE S == UpTo(o, h)
           T == UpTo(o, h - 1)
           c == << o, h >>
<1>1. c[1] = o /\ c[2] = h /\ \A x \in Callouts : x \in S <=> x \in T \/ x = c
    BY UpToStep
<1>2. c \in Callouts => d[c] = w[c]
    BY <1>1 DEF Covers
<1> HIDE DEF S, T, c
<1>3. \A x \in Callouts : (IF x \in S THEN w[x] ELSE d[x]) = IF x \in T THEN w[x] ELSE d[x]
    BY <1>1, <1>2
<1>4. Mix(d, w, S) = Mix(d, w, T)
    BY <1>3 DEF Mix
<1> QED  BY <1>4 DEF S, T

LEMMA CommitsType ==
    ASSUME NEW s, NEW d, NEW total \in Int, Commits(s, d, total)
    PROVE  s \in [tab : Table, n : Int]
<1>1. s.tab \in Table
    BY ShowsFields DEF Commits
<1>2. Count(d) \in Nat
    BY CountType
<1>3. total - Count(d) \in Int
    BY <1>2
<1>4. s.n = Uindex(total - Count(d))
    BY DEF Commits
<1>5. s.n \in Int
    BY <1>3, <1>4 DEF Uindex, UindexRange
<1> QED  BY <1>1, <1>5 DEF Commits

LEMMA ApplyStep ==
    ASSUME NEW d \in Entries, NEW w \in Entries, NEW total \in Int,
           NEW pl, Covers(pl, d, w), NEW o, o = pl.obj,
           \A h \in DOMAIN pl.cop : Fits(pl.cop[h], d[<< o, h >>], w[<< o, h >>]),
           NEW h \in 1 .. MaxHandle, NEW x, Commits(x, Mix(d, w, UpTo(o, h - 1)), total)
    PROVE  Commits(IF h \in DOMAIN pl.cop THEN ApplyPatch(x, o, h, pl.cop[h]) ELSE x,
                   Mix(d, w, UpTo(o, h)), total)
<1>1. CASE h \in DOMAIN pl.cop
    <2>1. PICK c : c = << o, h >>
        OBVIOUS
    <2>2. PICK b : b = Mix(d, w, UpTo(o, h - 1))
        OBVIOUS
    <2>3. /\ c \in Callouts /\ b[c] = d[c] /\ Mix(d, w, UpTo(o, h)) = Put(b, c, w[c])
        BY <1>1, <2>1, <2>2, MixPatched
    <2>4. b \in Entries /\ w[c] \in Entry /\ c[1] = o /\ c[2] = h
        BY <2>1, <2>2, <2>3, MixType DEF Entries
    <2>5. Fits(pl.cop[h], b[c], w[c])
        BY <1>1, <2>1, <2>3
    <2>6. Commits(ApplyPatch(x, c[1], c[2], pl.cop[h]), Put(b, c, w[c]), total)
        BY <2>2, <2>3, <2>4, <2>5, ApplyPatchIs
    <2> QED  BY <1>1, <2>3, <2>4, <2>6
<1>2. CASE h \notin DOMAIN pl.cop
    <2>1. Mix(d, w, UpTo(o, h)) = Mix(d, w, UpTo(o, h - 1))
        BY <1>2, MixSame
    <2> QED  BY <1>2, <2>1
<1> QED  BY <1>1, <1>2

(* commit_callouts() of one plane to the table.                            *)
LEMMA ApplyPlaneIs ==
    ASSUME NEW s, NEW d \in Entries, NEW w \in Entries, NEW total \in Int,
           Commits(s, d, total), NEW pl, Covers(pl, d, w),
           \A h \in DOMAIN pl.cop : Fits(pl.cop[h], d[<< pl.obj, h >>], w[<< pl.obj, h >>])
    PROVE  Commits(ApplyPlane(s, pl), Mix(d, w, Of(pl.obj)), total)
<1> DEFINE n == MaxHandle
           o == pl.obj
           At(h) == Mix(d, w, UpTo(o, h))
           Step(x, h) == IF h \in DOMAIN pl.cop THEN ApplyPatch(x, o, h, pl.cop[h]) ELSE x
           M == [tab : Table, n : Int]
           I == {p \in M \X (0 .. n) : Commits(p[1], At(p[2]), total)}
           Op == [p \in I |-> Step(p[1], p[2] + 1)]
           F(f) == [h \in 0 .. n |-> IF h = 0 THEN s ELSE Step(f[h - 1], h)]
           after == CHOOSE f : f = F(f)
<1>1. n \in Nat
    BY Constants
<1>2. ASSUME NEW x, NEW b, Commits(x, b, total)
      PROVE  x \in M
    BY <1>2, CommitsType
<1>3. At(0) = d
    BY MixNone
<1>4. << s, 0 >> \in I
    BY <1>1, <1>2, <1>3
<1>5. ASSUME NEW h \in 1 .. n, NEW x, Commits(x, At(h - 1), total)
      PROVE  Commits(Step(x, h), At(h), total)
    <2> HIDE DEF F, after, I, Op, M
    <2> QED  BY <1>5, ApplyStep
<1> HIDE DEF At, M, Step
<1>6. \A h \in 1 .. n : \A x : << x, h - 1 >> \in I => Op[<< x, h - 1 >>] = Step(x, h)
    <2> TAKE h \in 1 .. n
    <2> TAKE x
    <2>1. (h - 1) + 1 = h
        OBVIOUS
    <2> HIDE DEF I
    <2> QED  BY <2>1
<1>7. Closed(I, n, Op)
    <2> SUFFICES ASSUME NEW h \in 1 .. n, NEW x, << x, h - 1 >> \in I
                 PROVE  << Step(x, h), h >> \in I
        <3> HIDE DEF I
        <3> QED  BY <1>6 DEF Closed
    <2>1. Commits(Step(x, h), At(h), total)
        BY <1>5
    <2> QED  BY <1>2, <2>1
<1> HIDE DEF Op, n
<1>8. PICK f : Walks(f, n, s, Op) /\ \A h \in 0 .. n : << f[h], h >> \in I
    <2> HIDE DEF I
    <2> QED  BY <1>1, <1>4, <1>7, WalkWithin
<1>9. f = F(f)
    <2>1. \A h \in 1 .. n : Op[<< f[h - 1], h - 1 >>] = Step(f[h - 1], h)
        <3> TAKE h \in 1 .. n
        <3>1. << f[h - 1], h - 1 >> \in I
            BY <1>1, <1>8
        <3> QED  BY <1>6, <3>1
    <2> HIDE DEF I
    <2>2. /\ f = [h \in 0 .. n |-> f[h]]
          /\ \A h \in 0 .. n : f[h] = IF h = 0 THEN s ELSE Op[<< f[h - 1], h - 1 >>]
        BY <1>8 DEF Walks
    <2>3. \A h \in 0 .. n : f[h] = IF h = 0 THEN s ELSE Step(f[h - 1], h)
        <3> TAKE h \in 0 .. n
        <3>1. h # 0 => h \in 1 .. n
            BY <1>1
        <3> QED  BY <2>1, <2>2, <3>1
    <2> QED  BY <2>2, <2>3
<1>10. after = F(after)
    <2> HIDE DEF F
    <2> QED  BY <1>9
<1>11. ApplyPlane(s, pl) = after[n]
    BY DEF ApplyPlane, Step, n
<1> HIDE DEF after
<1> DEFINE S == {h \in 0 .. n : after[h] = f[h]}
<1>12. 0 \in S
    BY <1>1, <1>9, <1>10
<1>13. ASSUME NEW h \in 1 .. n, h - 1 \in S
       PROVE  h \in S
    BY <1>1, <1>9, <1>10, <1>13
<1> HIDE DEF S
<1>14. \A h \in 0 .. n : h \in S
    BY <1>1, <1>12, <1>13, StepByStep
<1>15. after[n] = f[n] /\ << f[n], n >> \in I
    BY <1>1, <1>8, <1>14 DEF S
<1>16. Commits(f[n], At(n), total)
    BY <1>15
<1> QED  BY <1>11, <1>15, <1>16, MixAll DEF At, n

LEMMA UndoesType ==
    ASSUME NEW s, NEW d, NEW total \in Int, Undoes(s, d, total)
    PROVE  s \in [co : [Objects -> Seq(Entry)], free : [Objects -> Seq(Handles)], n : Int]
<1>1. s.co \in [Objects -> Seq(Entry)] /\ s.free \in [Objects -> Seq(Handles)]
    BY DEF Undoes, Spaces
<1>2. Count(d) \in Nat
    BY CountType
<1>3. Count(d) - total \in Int
    BY <1>2
<1>4. s.n = Uindex(Count(d) - total)
    BY DEF Undoes
<1>5. s.n \in Int
    BY <1>3, <1>4 DEF Uindex, UindexRange
<1> QED  BY <1>1, <1>5 DEF Undoes

LEMMA UndoStep ==
    ASSUME NEW d \in Entries, NEW w \in Entries, NEW total \in Int,
           NEW pl, Covers(pl, d, w), NEW o, o = pl.obj, NEW co,
           \A h \in DOMAIN pl.cop : /\ h \in 1 .. Len(co[o])
                                    /\ Fits(pl.cop[h], w[<< o, h >>], d[<< o, h >>]),
           NEW h \in 1 .. MaxHandle, NEW x, Undoes(x, Mix(d, w, UpTo(o, h - 1)), total),
           Keeps(x.co, co),
           NEW y, y = IF h \in DOMAIN pl.cop THEN UndoPatch(x, o, h, pl.cop[h]) ELSE x
    PROVE  Undoes(y, Mix(d, w, UpTo(o, h)), total) /\ Keeps(y.co, co)
<1>1. CASE h \in DOMAIN pl.cop
    <2>1. PICK c : c = << o, h >>
        OBVIOUS
    <2>2. PICK b : b = Mix(d, w, UpTo(o, h - 1))
        OBVIOUS
    <2>3. /\ c \in Callouts /\ b[c] = d[c] /\ Mix(d, w, UpTo(o, h)) = Put(b, c, w[c])
        BY <1>1, <2>1, <2>2, MixPatched
    <2>4. /\ b \in Entries /\ w[c] \in Entry /\ c[1] = o /\ c[2] = h
          /\ c[1] \in Objects
        BY <2>1, <2>2, <2>3, MixType, Constants DEF Entries
    <2>5. Fits(pl.cop[h], w[c], b[c]) /\ h \in 1 .. Len(co[o])
        BY <1>1, <2>1, <2>3
    <2>6. c[2] \in 1 .. Len(x.co[c[1]])
        BY <2>4, <2>5 DEF Keeps
    <2>7. y = UndoPatch(x, c[1], c[2], pl.cop[h])
        BY <1>1, <2>4
    <2>8. Undoes(y, Put(b, c, w[c]), total) /\ Keeps(y.co, x.co)
        BY <2>2, <2>3, <2>4, <2>5, <2>6, <2>7, UndoPatchIs
    <2> QED  BY <2>3, <2>8 DEF Keeps
<1>2. CASE h \notin DOMAIN pl.cop
    <2>1. Mix(d, w, UpTo(o, h)) = Mix(d, w, UpTo(o, h - 1))
        BY <1>2, MixSame
    <2> QED  BY <1>2, <2>1
<1> QED  BY <1>1, <1>2

(* discard_callouts() of one plane.                                        *)
LEMMA UndoPlaneIs ==
    ASSUME NEW s, NEW d \in Entries, NEW w \in Entries, NEW total \in Int,
           Undoes(s, d, total), NEW pl, Covers(pl, d, w),
           \A h \in DOMAIN pl.cop : /\ h \in 1 .. Len(s.co[pl.obj])
                                    /\ Fits(pl.cop[h], w[<< pl.obj, h >>], d[<< pl.obj, h >>])
    PROVE  /\ Undoes(UndoPlane(s, pl), Mix(d, w, Of(pl.obj)), total)
           /\ Keeps(UndoPlane(s, pl).co, s.co)
<1> DEFINE n == MaxHandle
           o == pl.obj
           At(h) == Mix(d, w, UpTo(o, h))
           Step(x, h) == IF h \in DOMAIN pl.cop THEN UndoPatch(x, o, h, pl.cop[h]) ELSE x
           M == [co : [Objects -> Seq(Entry)], free : [Objects -> Seq(Handles)], n : Int]
           I == {p \in M \X (0 .. n) : Undoes(p[1], At(p[2]), total) /\ Keeps(p[1].co, s.co)}
           Op == [p \in I |-> Step(p[1], p[2] + 1)]
           F(f) == [h \in 0 .. n |-> IF h = 0 THEN s ELSE Step(f[h - 1], h)]
           after == CHOOSE f : f = F(f)
<1>1. n \in Nat
    BY Constants
<1>2. ASSUME NEW x, NEW b, Undoes(x, b, total)
      PROVE  x \in M
    BY <1>2, UndoesType
<1>3. At(0) = d
    BY MixNone
<1>4. << s, 0 >> \in I
    BY <1>1, <1>2, <1>3 DEF Keeps
<1>5. ASSUME NEW h \in 1 .. n, NEW x, Undoes(x, At(h - 1), total), Keeps(x.co, s.co)
      PROVE  Undoes(Step(x, h), At(h), total) /\ Keeps(Step(x, h).co, s.co)
    <2> HIDE DEF F, after, I, Op, M
    <2> QED  BY <1>5, UndoStep
<1> HIDE DEF At, M, Step
<1>6. \A h \in 1 .. n : \A x : << x, h - 1 >> \in I => Op[<< x, h - 1 >>] = Step(x, h)
    <2> TAKE h \in 1 .. n
    <2> TAKE x
    <2>1. (h - 1) + 1 = h
        OBVIOUS
    <2> HIDE DEF I
    <2> QED  BY <2>1
<1>7. Closed(I, n, Op)
    <2> SUFFICES ASSUME NEW h \in 1 .. n, NEW x, << x, h - 1 >> \in I
                 PROVE  << Step(x, h), h >> \in I
        <3> HIDE DEF I
        <3> QED  BY <1>6 DEF Closed
    <2>1. Undoes(Step(x, h), At(h), total) /\ Keeps(Step(x, h).co, s.co)
        BY <1>5
    <2> QED  BY <1>2, <2>1
<1> HIDE DEF Op, n
<1>8. PICK f : Walks(f, n, s, Op) /\ \A h \in 0 .. n : << f[h], h >> \in I
    <2> HIDE DEF I
    <2> QED  BY <1>1, <1>4, <1>7, WalkWithin
<1>9. f = F(f)
    <2>1. \A h \in 1 .. n : Op[<< f[h - 1], h - 1 >>] = Step(f[h - 1], h)
        <3> TAKE h \in 1 .. n
        <3>1. << f[h - 1], h - 1 >> \in I
            BY <1>1, <1>8
        <3> QED  BY <1>6, <3>1
    <2> HIDE DEF I
    <2>2. /\ f = [h \in 0 .. n |-> f[h]]
          /\ \A h \in 0 .. n : f[h] = IF h = 0 THEN s ELSE Op[<< f[h - 1], h - 1 >>]
        BY <1>8 DEF Walks
    <2>3. \A h \in 0 .. n : f[h] = IF h = 0 THEN s ELSE Step(f[h - 1], h)
        <3> TAKE h \in 0 .. n
        <3>1. h # 0 => h \in 1 .. n
            BY <1>1
        <3> QED  BY <2>1, <2>2, <3>1
    <2> QED  BY <2>2, <2>3
<1>10. after = F(after)
    <2> HIDE DEF F
    <2> QED  BY <1>9
<1>11. UndoPlane(s, pl) = after[n]
    BY DEF UndoPlane, Step, n
<1> HIDE DEF after
<1> DEFINE S == {h \in 0 .. n : after[h] = f[h]}
<1>12. 0 \in S
    BY <1>1, <1>9, <1>10
<1>13. ASSUME NEW h \in 1 .. n, h - 1 \in S
       PROVE  h \in S
    BY <1>1, <1>9, <1>10, <1>13
<1> HIDE DEF S
<1>14. \A h \in 0 .. n : h \in S
    BY <1>1, <1>12, <1>13, StepByStep
<1>15. after[n] = f[n] /\ << f[n], n >> \in I
    BY <1>1, <1>8, <1>14 DEF S
<1>16. Undoes(f[n], At(n), total) /\ Keeps(f[n].co, s.co)
    BY <1>15
<1> QED  BY <1>11, <1>15, <1>16, MixAll DEF At, n

---------------------------------------------------------------------------
(* Planes.                                                                 *)

Cops == UNION {[D -> Patch] : D \in SUBSET Handles}
PlaneSet == [obj : Objects, level : 1 .. MaxLevel, cop : Cops]

LEMMA CopsIs ==
    /\ \A f \in Cops : /\ DOMAIN f \subseteq Handles /\ f = [x \in DOMAIN f |-> f[x]]
                       /\ \A h \in DOMAIN f : f[h] \in Patch
    /\ \A D \in SUBSET Handles : \A g :
          (\A h \in D : g[h] \in Patch) => [x \in D |-> g[x]] \in Cops
    /\ << >> \in Cops /\ DOMAIN << >> = {}
<1>1. ASSUME NEW f \in Cops
      PROVE  /\ DOMAIN f \subseteq Handles /\ f = [x \in DOMAIN f |-> f[x]]
             /\ \A h \in DOMAIN f : f[h] \in Patch
    <2>1. PICK D \in SUBSET Handles : f \in [D -> Patch]
        BY DEF Cops
    <2> HIDE DEF Cops
    <2> QED  BY <2>1 DEF Handles
<1>2. ASSUME NEW D \in SUBSET Handles, NEW g, \A h \in D : g[h] \in Patch
      PROVE  [x \in D |-> g[x]] \in Cops
    <2>1. [x \in D |-> g[x]] \in [D -> Patch]
        BY <1>2
    <2> QED  BY <2>1 DEF Cops
<1>3. DOMAIN << >> = {} /\ << >> = [x \in {} |-> << >>[x]]
    OBVIOUS
<1>4. {} \in SUBSET Handles
    OBVIOUS
<1>5. [x \in {} |-> << >>[x]] \in Cops
    BY <1>2, <1>4
<1> QED  BY <1>1, <1>2, <1>3, <1>5

(* The planes of a list.                                                   *)
All(s) == {s[k] : k \in 1 .. Len(s)}

(* A list of planes, the newest first.                                     *)
Stack(pl, lev) ==
    /\ pl \in Seq(PlaneSet)
    /\ \A k \in 1 .. Len(pl) : pl[k].level <= lev
    /\ \A j \in 1 .. Len(pl), k \in 1 .. Len(pl) :
          j < k => /\ pl[j].level >= pl[k].level
                   /\ ~(pl[j].obj = pl[k].obj /\ pl[j].level = pl[k].level)

LEMMA PlaneFields ==
    ASSUME NEW p \in PlaneSet
    PROVE  /\ p.obj \in Objects /\ p.level \in 1 .. MaxLevel /\ p.level \in Nat /\ p.level > 0
           /\ p.cop \in Cops /\ p = [obj |-> p.obj, level |-> p.level, cop |-> p.cop]
BY Constants DEF PlaneSet

LEMMA StackIs ==
    ASSUME NEW pl, NEW lev \in Nat, Stack(pl, lev)
    PROVE  /\ Len(pl) \in Nat /\ DOMAIN pl = 1 .. Len(pl)
           /\ \A k \in 1 .. Len(pl) : pl[k] \in PlaneSet /\ pl[k] \in All(pl)
           /\ \A p \in All(pl) : p \in PlaneSet /\ p.level <= lev
           /\ \A p \in All(pl), q \in All(pl) : p.obj = q.obj /\ p.level = q.level => p = q
<1>1. Len(pl) \in Nat /\ DOMAIN pl = 1 .. Len(pl) /\ \A k \in 1 .. Len(pl) : pl[k] \in PlaneSet
    BY DEF Stack
<1>2. \A p \in All(pl) : p \in PlaneSet /\ p.level <= lev
    BY <1>1 DEF All, Stack
<1>3. ASSUME NEW p \in All(pl), NEW q \in All(pl), p.obj = q.obj, p.level = q.level
      PROVE  p = q
    <2>1. PICK j \in 1 .. Len(pl) : p = pl[j]
        BY DEF All
    <2>2. PICK k \in 1 .. Len(pl) : q = pl[k]
        BY DEF All
    <2>3. ~(j < k) /\ ~(k < j)
        BY <1>3, <2>1, <2>2 DEF Stack
    <2>4. j \in Int /\ k \in Int
        OBVIOUS
    <2> QED  BY <2>1, <2>2, <2>3, <2>4
<1> QED  BY <1>1, <1>2, <1>3 DEF All

(* A new plane.                                                            *)
LEMMA PushStack ==
    ASSUME NEW pl, NEW lev \in Nat, Stack(pl, lev), NEW p \in PlaneSet, p.level \in {lev, lev + 1},
           \A q \in All(pl) : ~(q.obj = p.obj /\ q.level = p.level),
           NEW new, new = << p >> \o pl
    PROVE  /\ Stack(new, p.level)
           /\ All(new) = {p} \cup All(pl)
<1>1. << p >> \in Seq(PlaneSet) /\ Len(<< p >>) = 1 /\ << p >>[1] = p
    OBVIOUS
<1>2. pl \in Seq(PlaneSet) /\ Len(pl) \in Nat
    BY StackIs DEF Stack
<1>3. new \in Seq(PlaneSet) /\ Joined(new, << p >>, pl)
    BY <1>1, <1>2, ConcatElem
<1>4. /\ Len(new) = 1 + Len(pl) /\ new[1] = p
      /\ \A k \in 1 .. Len(pl) : new[1 + k] = pl[k]
    BY <1>1, <1>3 DEF Joined
<1>5. \A k \in 1 .. Len(new) : k = 1 \/ (k - 1 \in 1 .. Len(pl) /\ new[k] = pl[k - 1])
    <2> TAKE k \in 1 .. Len(new)
    <2>1. k = 1 \/ (k - 1 \in 1 .. Len(pl) /\ 1 + (k - 1) = k)
        BY <1>2, <1>4
    <2> QED  BY <1>4, <2>1
<1>6. All(new) = {p} \cup All(pl)
    <2>1. ASSUME NEW x \in All(new)  PROVE x \in {p} \cup All(pl)
        BY <1>4, <1>5 DEF All
    <2>2. 1 \in 1 .. Len(new) /\ \A k \in 1 .. Len(pl) : 1 + k \in 1 .. Len(new)
        BY <1>2, <1>4
    <2>3. p \in All(new)
        BY <1>4, <2>2 DEF All
    <2>4. ASSUME NEW x \in All(pl)  PROVE x \in All(new)
        <3>1. PICK k \in 1 .. Len(pl) : x = pl[k]
            BY DEF All
        <3>2. x = new[1 + k] /\ 1 + k \in 1 .. Len(new)
            BY <1>4, <2>2, <3>1
        <3> QED  BY <3>2 DEF All
    <2> QED  BY <2>1, <2>3, <2>4
<1>8. p.level \in Nat /\ p.level >= lev
    BY PlaneFields
<1>7. ASSUME NEW k \in 1 .. Len(pl)
      PROVE  /\ pl[k] \in All(pl) /\ pl[k].level \in Nat
             /\ pl[k].level <= lev /\ pl[k].level <= p.level
    <2>1. pl[k] \in All(pl) /\ pl[k] \in PlaneSet /\ pl[k].level <= lev
        BY StackIs DEF Stack
    <2>2. pl[k].level \in Nat
        BY <2>1, PlaneFields
    <2> QED  BY <1>8, <2>1, <2>2
<1>9. \A k \in 1 .. Len(new) : new[k].level <= p.level
    BY <1>4, <1>5, <1>7, <1>8
<1>10. ASSUME NEW j \in 1 .. Len(new), NEW k \in 1 .. Len(new), j < k
       PROVE  /\ new[j].level >= new[k].level
              /\ ~(new[j].obj = new[k].obj /\ new[j].level = new[k].level)
    <2>1. k # 1 /\ j \in Int /\ k \in Int
        BY <1>10
    <2>2. k - 1 \in 1 .. Len(pl) /\ new[k] = pl[k - 1]
        BY <1>5, <2>1
    <2>3. CASE j = 1
        BY <1>4, <1>7, <1>8, <2>2, <2>3
    <2>4. CASE j # 1
        <3>1. j - 1 \in 1 .. Len(pl) /\ new[j] = pl[j - 1] /\ j - 1 < k - 1
            BY <1>5, <1>10, <2>1, <2>4
        <3> QED  BY <2>2, <3>1 DEF Stack
    <2> QED  BY <2>3, <2>4
<1> QED  BY <1>3, <1>6, <1>9, <1>10 DEF Stack

SetsCop(new, pl, k, cop) == new = [pl EXCEPT ![k].cop = cop]
WithCop(p, cop) == [obj |-> p.obj, level |-> p.level, cop |-> cop]

LEMMA SetElem ==
    ASSUME NEW S, NEW s \in Seq(S), NEW k \in 1 .. Len(s), NEW x \in S,
           NEW r, r = [s EXCEPT ![k] = x]
    PROVE  /\ r \in Seq(S) /\ Len(r) = Len(s) /\ DOMAIN r = 1 .. Len(s)
           /\ r[k] = x /\ \A j \in 1 .. Len(s) : j # k => r[j] = s[j]
OBVIOUS

(* The patches of a plane change.                                          *)
LEMMA PatchStack ==
    ASSUME NEW pl, NEW lev \in Nat, Stack(pl, lev), NEW k \in 1 .. Len(pl),
           NEW cop \in Cops, NEW q, q = WithCop(pl[k], cop), NEW new, SetsCop(new, pl, k, cop)
    PROVE  /\ Stack(new, lev)
           /\ All(new) = {q} \cup {p \in All(pl) : p # pl[k]}
<1>1. /\ pl \in Seq(PlaneSet) /\ Len(pl) \in Nat /\ DOMAIN pl = 1 .. Len(pl)
      /\ \A j \in 1 .. Len(pl) : pl[j] \in PlaneSet
    BY StackIs DEF Stack
<1>2. [pl[k] EXCEPT !.cop = cop] = q
    <2>1. pl[k] = [obj |-> pl[k].obj, level |-> pl[k].level, cop |-> pl[k].cop]
        BY <1>1, PlaneFields
    <2> QED  BY <2>1 DEF WithCop
<1>3. q \in PlaneSet
    BY <1>1, PlaneFields DEF PlaneSet, WithCop
<1>4. new = [pl EXCEPT ![k] = q]
    BY <1>2 DEF SetsCop

<1>5. /\ new \in Seq(PlaneSet) /\ Len(new) = Len(pl)
      /\ new[k] = q /\ \A j \in 1 .. Len(pl) : j # k => new[j] = pl[j]
    BY <1>1, <1>3, <1>4, SetElem
<1>6. \A j \in 1 .. Len(pl) : new[j].level = pl[j].level /\ new[j].obj = pl[j].obj
    <2>1. q.level = pl[k].level /\ q.obj = pl[k].obj
        BY DEF WithCop
    <2> QED  BY <1>5, <2>1
<1>7. Stack(new, lev)
    <2>1. \A j \in 1 .. Len(new) : new[j].level <= lev
        BY <1>5, <1>6 DEF Stack
    <2>2. \A j \in 1 .. Len(new), i \in 1 .. Len(new) :
              j < i => /\ new[j].level >= new[i].level
                       /\ ~(new[j].obj = new[i].obj /\ new[j].level = new[i].level)
        BY <1>5, <1>6 DEF Stack
    <2> QED  BY <1>5, <2>1, <2>2 DEF Stack
<1>8. ASSUME NEW j \in 1 .. Len(pl), j # k
      PROVE  pl[j] # pl[k]
    <2>1. j < k \/ k < j
        BY <1>8
    <2> QED  BY <2>1 DEF Stack
<1>9. \A x : x \in All(new) <=> x = q \/ (x \in All(pl) /\ x # pl[k])
    BY <1>5, <1>8 DEF All
<1> QED  BY <1>7, <1>9

---------------------------------------------------------------------------
(* The history that explains the patches.                                  *)

Levels == 1 .. MaxLevel + 1

(* The patches of plane p lead from the history of its level to the next.  *)
Wraps(p, was, co) ==
    \A h \in DOMAIN p.cop :
        /\ << p.obj, h >> \in Callouts /\ h \in 1 .. Len(co[p.obj])
        /\ Fits(p.cop[h], was[p.level][<< p.obj, h >>], was[p.level + 1][<< p.obj, h >>])

Patched(P, c, l) == \E p \in P : p.obj = c[1] /\ p.level = l /\ c[2] \in DOMAIN p.cop

(* Planes P of level lev and below, where the dataspaces are co.           *)
Explains(P, lev, was, co) ==
    /\ was \in [Levels -> Entries]
    /\ \A l \in Levels : l > lev => was[l] = Held(co)
    /\ \A p \in P : Wraps(p, was, co)
    /\ \A l \in 1 .. lev, c \in Callouts : was[l][c] # was[l + 1][c] => Patched(P, c, l)

Keyed(P, lev) ==
    /\ \A p \in P : p \in PlaneSet /\ p.level <= lev
    /\ \A p \in P, q \in P : p.obj = q.obj /\ p.level = q.level => p = q

(* A history with d above level l.                                         *)
Since(was, l, d) == [x \in Levels |-> IF x <= l THEN was[x] ELSE d]

LEMMA SinceIs ==
    ASSUME NEW was \in [Levels -> Entries], NEW l \in Int, NEW d \in Entries
    PROVE  /\ Since(was, l, d) \in [Levels -> Entries]
           /\ \A x \in Levels : /\ x <= l => Since(was, l, d)[x] = was[x]
                                /\ x > l => Since(was, l, d)[x] = d
<1>1. \A x \in Levels : x \in Int
    BY Constants DEF Levels
<1>2. \A x \in Levels : Since(was, l, d)[x] = IF x <= l THEN was[x] ELSE d
    BY DEF Since
<1>3. \A x \in Levels : x > l <=> ~(x <= l)
    BY <1>1
<1>4. Since(was, l, d) \in [Levels -> Entries]
    BY DEF Since
<1> QED  BY <1>2, <1>3, <1>4

LEMMA LevelIs ==
    ASSUME NEW l \in 1 .. MaxLevel
    PROVE  l \in Levels /\ l + 1 \in Levels /\ l \in Nat /\ l > 0
BY Constants DEF Levels

LEMMA PushExplains ==
    ASSUME NEW P, NEW lev \in Nat, NEW was, NEW co, Explains(P, lev, was, co),
           NEW p \in PlaneSet, p.level \in {lev, lev + 1}, p.cop = << >>
    PROVE  Explains({p} \cup P, p.level, was, co)
<1>1. p.level \in 1 .. MaxLevel /\ p.level \in Nat
    BY PlaneFields
<1>2. p.level \in Levels /\ p.level + 1 \in Levels /\ \A l \in Levels : l \in Int
    BY <1>1, LevelIs, Constants DEF Levels
<1>3. was \in [Levels -> Entries] /\ \A l \in Levels : l > p.level => was[l] = Held(co)
    BY <1>1, <1>2 DEF Explains
<1>4. DOMAIN p.cop = {}
    BY CopsIs
<1>5. \A q \in {p} \cup P : Wraps(q, was, co)
    BY <1>4 DEF Wraps, Explains
<1>6. ASSUME NEW l \in 1 .. p.level, NEW c \in Callouts, was[l][c] # was[l + 1][c]
      PROVE  Patched({p} \cup P, c, l)
    <2>1. CASE l <= lev
        <3>1. l \in 1 .. lev
            BY <2>1
        <3>2. Patched(P, c, l)
            BY <1>6, <3>1 DEF Explains
        <3> QED  BY <3>2 DEF Patched
    <2>2. CASE ~(l <= lev)
        <3>1. l > lev /\ l + 1 > lev /\ l = p.level
            BY <1>1, <2>2
        <3> QED  BY <1>2, <1>6, <3>1 DEF Explains
    <2> QED  BY <2>1, <2>2
<1> QED  BY <1>3, <1>5, <1>6 DEF Explains

LEMMA CalloutIs ==
    ASSUME NEW c \in Callouts, NEW o, NEW h
    PROVE  c = << o, h >> <=> c[1] = o /\ c[2] = h
<1>1. c = << c[1], c[2] >>
    BY Constants
<1> QED  BY <1>1

(* What is the same in both.                                               *)
LEMMA WrapsSame ==
    ASSUME NEW p, NEW was, NEW co, Wraps(p, was, co), NEW now, NEW nc, Keeps(nc, co),
           p.obj \in Objects,
           \A h \in DOMAIN p.cop :
              LET c == << p.obj, h >>
              IN  c \in Callouts => /\ now[p.level][c] = was[p.level][c]
                                    /\ now[p.level + 1][c] = was[p.level + 1][c]
    PROVE  Wraps(p, now, nc)
<1> SUFFICES ASSUME NEW h \in DOMAIN p.cop
             PROVE  /\ << p.obj, h >> \in Callouts /\ h \in 1 .. Len(nc[p.obj])
                    /\ Fits(p.cop[h], now[p.level][<< p.obj, h >>],
                                      now[p.level + 1][<< p.obj, h >>])
    BY DEF Wraps
<1>1. PICK c : c = << p.obj, h >>
    OBVIOUS
<1>2. /\ c \in Callouts /\ h \in 1 .. Len(co[p.obj])
      /\ Fits(p.cop[h], was[p.level][c], was[p.level + 1][c])
    BY <1>1 DEF Wraps
<1>3. now[p.level][c] = was[p.level][c] /\ now[p.level + 1][c] = was[p.level + 1][c]
    BY <1>1, <1>2
<1>4. h \in 1 .. Len(nc[p.obj])
    BY <1>2 DEF Keeps
<1> QED  BY <1>1, <1>2, <1>3, <1>4

(* Callout c becomes e, and the plane p of the level has this in cop.      *)
LEMMA PatchExplains ==
    ASSUME NEW L \in 1 .. MaxLevel, NEW P, Keyed(P, L), NEW was, NEW co,
           Explains(P, L, was, co), NEW p \in P, p.level = L,
           NEW h, NEW c \in Callouts, c[1] = p.obj, c[2] = h,
           NEW e \in Entry, NEW nc, Held(nc) = Put(Held(co), c, e), Held(nc) \in Entries,
           Keeps(nc, co), h \in 1 .. Len(nc[p.obj]),
           NEW cop \in Cops,
           \A x : x # h => (x \in DOMAIN cop <=> x \in DOMAIN p.cop),
           \A x \in DOMAIN cop : x # h => cop[x] = p.cop[x],
           h \in DOMAIN cop => Fits(cop[h], was[L][c], e),
           h \notin DOMAIN cop => was[L][c] = e,
           NEW q, q = WithCop(p, cop)
    PROVE  Explains({q} \cup {x \in P : x # p}, L, Since(was, L, Held(nc)), nc)
<1> DEFINE now == Since(was, L, Held(nc))
<1>1. L \in Levels /\ L + 1 \in Levels /\ L \in Nat /\ L > 0 /\ \A l \in Levels : l \in Int
    BY LevelIs, Constants DEF Levels
<1>2. was \in [Levels -> Entries]
    BY DEF Explains
<1>3. now \in [Levels -> Entries]
    BY <1>1, <1>2, SinceIs
<1>4. \A x \in Levels : (x <= L => now[x] = was[x]) /\ (x > L => now[x] = Held(nc))
    BY <1>1, <1>2, SinceIs
<1> HIDE DEF now
<1>5. was[L + 1] = Held(co)
    BY <1>1 DEF Explains
<1>6. now[L] = was[L] /\ now[L + 1] = Held(nc)
    BY <1>1, <1>4
<1>7. Held(co) \in Entries
    BY <1>1, <1>2, <1>5
<1>8. now[L + 1][c] = e /\ \A x \in Callouts : x # c => now[L + 1][x] = was[L + 1][x]
    BY <1>5, <1>6, <1>7 DEF Put, Entries
<1>9. q.obj = p.obj /\ q.level = L /\ q.cop = cop
    BY DEF WithCop
<1>10. p \in PlaneSet /\ p.obj \in Objects
    BY PlaneFields DEF Keyed
<1>11. Wraps(q, now, nc)
    <2> SUFFICES ASSUME NEW g \in DOMAIN cop
                 PROVE  /\ << p.obj, g >> \in Callouts /\ g \in 1 .. Len(nc[p.obj])
                        /\ Fits(cop[g], now[L][<< p.obj, g >>], now[L + 1][<< p.obj, g >>])
        BY <1>9 DEF Wraps
    <2>1. CASE g = h
        <3>1. c = << p.obj, g >>
            BY <2>1, CalloutIs
        <3> QED  BY <1>6, <1>8, <2>1, <3>1
    <2>2. CASE g # h
        <3>1. PICK d : d = << p.obj, g >>
            OBVIOUS
        <3>2. g \in DOMAIN p.cop /\ cop[g] = p.cop[g]
            BY <2>2
        <3>3. /\ d \in Callouts /\ g \in 1 .. Len(co[p.obj])
              /\ Fits(p.cop[g], was[L][d], was[L + 1][d])
            BY <3>1, <3>2 DEF Explains, Wraps
        <3>4. d # c
            BY <2>2, <3>1
        <3>5. now[L][d] = was[L][d] /\ now[L + 1][d] = was[L + 1][d]
            BY <1>6, <1>8, <3>3, <3>4
        <3>6. g \in 1 .. Len(nc[p.obj])
            BY <1>10, <3>3 DEF Keeps
        <3> QED  BY <3>1, <3>2, <3>3, <3>5, <3>6
    <2> QED  BY <2>1, <2>2
<1>12. ASSUME NEW r \in P, r # p
       PROVE  Wraps(r, now, nc)
    <2>1. /\ r \in PlaneSet /\ r.obj \in Objects /\ r.level \in Nat /\ r.level <= L
          /\ r.level \in Levels /\ r.level + 1 \in Levels
        BY PlaneFields, LevelIs DEF Keyed
    <2>2. Wraps(r, was, co)
        BY DEF Explains
    <2>3. now[r.level] = was[r.level]
        BY <1>4, <2>1
    <2>4. ASSUME NEW d \in Callouts, d[1] = r.obj
          PROVE  now[r.level + 1][d] = was[r.level + 1][d]
        <3>1. CASE r.level = L
            <4>1. r.obj # p.obj
                BY <1>12, <3>1 DEF Keyed
            <4> QED  BY <1>8, <2>4, <3>1, <4>1
        <3>2. CASE r.level # L
            <4>1. r.level + 1 <= L
                BY <1>1, <2>1, <3>2
            <4> QED  BY <1>4, <2>1, <4>1
        <3> QED  BY <3>1, <3>2
    <2>5. \A g \in DOMAIN r.cop : LET d == << r.obj, g >>
                                  IN  d \in Callouts => /\ now[r.level][d] = was[r.level][d]
                                                        /\ now[r.level + 1][d] = was[r.level + 1][d]
        BY <2>3, <2>4
    <2> QED  BY <2>1, <2>2, <2>5, WrapsSame
<1> DEFINE Q == {q} \cup {x \in P : x # p}
<1>13. ASSUME NEW l \in 1 .. L, NEW x \in Callouts, now[l][x] # now[l + 1][x]
       PROVE  Patched(Q, x, l)
    <2>1. l \in Nat /\ l \in Levels /\ l + 1 \in Levels /\ now[l] = was[l]
        BY <1>1, <1>4, Constants DEF Levels
    <2>2. CASE l = L /\ x = c
        <3>1. h \in DOMAIN cop
            BY <1>6, <1>8, <1>13, <2>2
        <3> QED  BY <1>9, <2>2, <3>1 DEF Patched
    <2>3. CASE l = L /\ x # c
        <3>1. Patched(P, x, L)
            BY <1>8, <1>13, <2>1, <2>3 DEF Explains
        <3>2. PICK r \in P : r.obj = x[1] /\ r.level = L /\ x[2] \in DOMAIN r.cop
            BY <3>1 DEF Patched
        <3>3. r = p => x[2] # h
            BY <2>3, <3>2, CalloutIs
        <3>4. r = p => x[2] \in DOMAIN q.cop
            BY <1>9, <3>2, <3>3
        <3> QED  BY <1>9, <2>3, <3>2, <3>4 DEF Patched
    <2>4. CASE l # L
        <3>1. l + 1 <= L /\ l \in 1 .. L
            BY <1>1, <2>1, <2>4
        <3>2. now[l + 1] = was[l + 1]
            BY <1>4, <2>1, <3>1
        <3>3. Patched(P, x, l)
            BY <1>13, <2>1, <3>1, <3>2 DEF Explains
        <3> QED  BY <2>4, <3>3 DEF Patched
    <2> QED  BY <2>2, <2>3, <2>4
<1>14. \A r \in Q : Wraps(r, now, nc)
    BY <1>11, <1>12
<1>15. \A l \in Levels : l > L => now[l] = Held(nc)
    BY <1>4
<1> HIDE DEF Q
<1>16. Explains(Q, L, now, nc)
    BY <1>3, <1>13, <1>14, <1>15 DEF Explains
<1> QED  BY <1>16 DEF Q, now

---------------------------------------------------------------------------
(* Merging.                                                                *)

LEMMA ReleasedRecord ==
    ASSUME NEW A, NEW B, NEW C, NEW D, NEW E, NEW F,
           NEW p \in [type : A, aco : B, rco : C, t : D, m : E, q : F],
           NEW a \in A, NEW b \in B, NEW d \in D, NEW e \in E, NEW f \in F,
           NEW r, r = [p EXCEPT !.type = a, !.aco = b, !.t = d, !.m = e, !.q = f]
    PROVE  /\ r \in [type : A, aco : B, rco : C, t : D, m : E, q : F]
           /\ r.type = a /\ r.aco = b /\ r.rco = p.rco
OBVIOUS

LEMMA RetypedRecord ==
    ASSUME NEW A, NEW B, NEW C, NEW D, NEW E, NEW F,
           NEW p \in [type : A, aco : B, rco : C, t : D, m : E, q : F],
           NEW a \in A, NEW c \in C, NEW r, r = [p EXCEPT !.type = a, !.rco = c]
    PROVE  /\ r \in [type : A, aco : B, rco : C, t : D, m : E, q : F]
           /\ r.type = a /\ r.rco = c /\ r.aco = p.aco /\ r.t = p.t /\ r.m = p.m /\ r.q = p.q
OBVIOUS

LEMMA EntryDcallout ==
    \A e \in Entry : e \in Dcallout \cup {Free}
BY DEF Entry, Dcallout

(* A patch that has been replaced by a removal.                            *)
LEMMA ReleasedIs ==
    ASSUME NEW p, NEW r \in Entry, NEW a, Fits(p, r, a), r # Free
    PROVE  Fits(Released(p), r, Free)
<1>1. PICK x : x = Released(p)
    OBVIOUS
<1>2. p \in Patch /\ p.rco = r
    BY DEF Fits
<1>3. "REMOVE" \in {"ADD", "REMOVE", "REPLACE"} /\ 0 \in Nat /\ 0 \in Msecs \cup {NoMsec}
    BY Constants DEF Msecs
<1>4. Free \in Dcallout \cup {Free} /\ Queue \in Lists \cup {Queue}
    OBVIOUS
<1> HIDE DEF Free, Queue, NoMsec, Msecs, Lists, Dcallout
<1>5. x \in Patch /\ x.type = "REMOVE" /\ x.aco = Free /\ x.rco = r
    BY <1>1, <1>2, <1>3, <1>4, ReleasedRecord DEF Released, Patch
<1> QED  BY <1>1, <1>5 DEF Fits

(* A patch that has other entries for before and after.                    *)
LEMMA RetypedIs ==
    ASSUME NEW p, NEW m, NEW a \in Entry, Fits(p, m, a), a # Free, NEW r \in Entry, NEW ty,
           ty = IF r = Free THEN "ADD" ELSE "REPLACE"
    PROVE  Fits([p EXCEPT !.type = ty, !.rco = r], r, a)
<1>1. PICK x : x = [p EXCEPT !.type = ty, !.rco = r]
    OBVIOUS
<1>2. p \in Patch
    BY DEF Fits
<1>3. ty \in {"ADD", "REMOVE", "REPLACE"} /\ r \in Dcallout \cup {Free}
    BY EntryDcallout
<1> HIDE DEF Free, Queue, NoMsec, Msecs, Lists, Dcallout
<1>4. /\ x \in Patch /\ x.type = ty /\ x.rco = r /\ x.aco = p.aco
      /\ x.t = p.t /\ x.m = p.m /\ x.q = p.q
    BY <1>1, <1>2, <1>3, RetypedRecord DEF Patch
<1> QED  BY <1>1, <1>4 DEF Fits

LEMMA MergeFits ==
    ASSUME NEW old, NEW new, NEW r \in Entry, NEW m \in Entry, NEW a \in Entry,
           Fits(old, r, m), Fits(new, m, a)
    PROVE  IF new.type = "REMOVE" /\ old.type # "REPLACE"
           THEN r = Free /\ a = Free
           ELSE Fits(Merge(old, new), r, a)
<1>1. /\ old.type = IF r = Free THEN "ADD" ELSE IF m = Free THEN "REMOVE" ELSE "REPLACE"
      /\ new.type = IF m = Free THEN "ADD" ELSE IF a = Free THEN "REMOVE" ELSE "REPLACE"
      /\ ~(r = Free /\ m = Free) /\ ~(m = Free /\ a = Free)
      /\ old.rco = r
    BY DEF Fits
<1>2. CASE new.type = "ADD" \/ (old.type = "REPLACE" /\ new.type = "REPLACE")
    <2>1. Merge(old, new) = [new EXCEPT !.type = "REPLACE", !.rco = old.rco]
        BY <1>2, Zenon DEF Merge
    <2>2. r # Free /\ a # Free /\ new.type # "REMOVE"
        BY <1>1, <1>2
    <2>3. Fits([new EXCEPT !.type = "REPLACE", !.rco = r], r, a)
        BY <2>2, RetypedIs
    <2> QED  BY <1>1, <2>1, <2>2, <2>3
<1>3. CASE new.type = "REMOVE"
    <2>1. Merge(old, new) = Released(old)
        BY <1>3 DEF Merge
    <2>2. a = Free
        BY <1>1, <1>3
    <2>3. CASE old.type = "REPLACE"
        <3>1. r # Free
            BY <1>1, <2>3
        <3> QED  BY <2>1, <2>2, <2>3, <3>1, ReleasedIs
    <2>4. CASE old.type # "REPLACE"
        <3>1. r = Free
            BY <1>1, <1>3, <2>4
        <3> QED  BY <1>3, <2>2, <2>4, <3>1
    <2> QED  BY <2>3, <2>4
<1>4. CASE new.type = "REPLACE" /\ old.type # "REPLACE"
    <2>1. Merge(old, new) = [new EXCEPT !.type = "ADD", !.rco = Free]
        BY <1>4, Zenon DEF Merge
    <2>2. r = Free /\ a # Free
        BY <1>1, <1>4
    <2>3. Fits([new EXCEPT !.type = "ADD", !.rco = r], r, a)
        BY <2>2, RetypedIs
    <2> QED  BY <1>4, <2>1, <2>2, <2>3
<1>5. new.type \in {"ADD", "REMOVE", "REPLACE"}
    BY <1>1
<1> QED  BY <1>2, <1>3, <1>4, <1>5

(* Patches of object o that lead from r to a.                              *)
Leads(cop, o, r, a) ==
    /\ \A h \in DOMAIN cop : << o, h >> \in Callouts /\ Fits(cop[h], r[<< o, h >>], a[<< o, h >>])
    /\ \A c \in Callouts : c[1] = o /\ r[c] # a[c] => c[2] \in DOMAIN cop

LEMMA MergePatchesIs ==
    ASSUME NEW old \in Cops, NEW new \in Cops, NEW o,
           NEW r \in Entries, NEW m \in Entries, NEW a \in Entries,
           Leads(old, o, r, m), Leads(new, o, m, a), NEW cop, cop = MergePatches(old, new)
    PROVE  /\ cop \in Cops /\ Leads(cop, o, r, a)
           /\ \A h \in DOMAIN cop : h \in DOMAIN old \/ h \in DOMAIN new
<1> DEFINE both == DOMAIN old \cap DOMAIN new
           gone == {h \in both : new[h].type = "REMOVE" /\ old[h].type # "REPLACE"}
           D == (DOMAIN old \cup DOMAIN new) \ gone
           F(h) == IF h \in both THEN Merge(old[h], new[h])
                   ELSE IF h \in DOMAIN old THEN old[h] ELSE new[h]
<1>1. cop = [h \in D |-> F(h)]
    BY DEF MergePatches
<1>2. D \in SUBSET Handles
    BY CopsIs
<1>3. \A c \in Callouts : r[c] \in Entry /\ m[c] \in Entry /\ a[c] \in Entry
    BY DEF Entries
<1>4. ASSUME NEW h \in D
      PROVE  << o, h >> \in Callouts /\ Fits(F(h), r[<< o, h >>], a[<< o, h >>])
    <2>1. PICK c : c = << o, h >>
        OBVIOUS
    <2>2. c \in Callouts
        BY <2>1 DEF Leads
    <2>3. c[1] = o /\ c[2] = h
        BY <2>1
    <2>4. CASE h \in both
        <3>1. Fits(old[h], r[c], m[c]) /\ Fits(new[h], m[c], a[c])
            BY <2>1, <2>4 DEF Leads
        <3>2. ~(new[h].type = "REMOVE" /\ old[h].type # "REPLACE")
            BY <2>4
        <3>3. Fits(Merge(old[h], new[h]), r[c], a[c])
            BY <1>3, <2>2, <3>1, <3>2, MergeFits
        <3> QED  BY <2>1, <2>2, <2>4, <3>3
    <2>5. CASE h \in DOMAIN old /\ h \notin DOMAIN new
        <3>1. Fits(old[h], r[c], m[c]) /\ m[c] = a[c]
            BY <2>1, <2>2, <2>3, <2>5 DEF Leads
        <3> QED  BY <2>1, <2>2, <2>5, <3>1
    <2>6. CASE h \notin DOMAIN old /\ h \in DOMAIN new
        <3>1. Fits(new[h], m[c], a[c]) /\ r[c] = m[c]
            BY <2>1, <2>2, <2>3, <2>6 DEF Leads
        <3> QED  BY <2>1, <2>2, <2>6, <3>1
    <2> QED  BY <2>4, <2>5, <2>6
<1>5. ASSUME NEW c \in Callouts, c[1] = o, c[2] \notin D
      PROVE  r[c] = a[c]
    <2>1. c = << o, c[2] >>
        BY <1>5, CalloutIs
    <2>2. CASE c[2] \in both
        <3>1. Fits(old[c[2]], r[c], m[c]) /\ Fits(new[c[2]], m[c], a[c])
            BY <2>1, <2>2 DEF Leads
        <3>2. new[c[2]].type = "REMOVE" /\ old[c[2]].type # "REPLACE"
            BY <1>5, <2>2
        <3> QED  BY <1>3, <3>1, <3>2, MergeFits
    <2>3. CASE c[2] \notin both
        <3>1. c[2] \notin DOMAIN old /\ c[2] \notin DOMAIN new
            BY <1>5, <2>3
        <3> QED  BY <1>5, <3>1 DEF Leads
    <2> QED  BY <2>2, <2>3
<1>6. \A h \in D : F(h) \in Patch
    BY <1>4 DEF Fits
<1> HIDE DEF F
<1>7. \A h \in D : h \in DOMAIN old \/ h \in DOMAIN new
    OBVIOUS
<1> HIDE DEF D
<1>8. DOMAIN cop = D /\ \A h \in D : cop[h] = F(h)
    BY <1>1
<1>9. cop \in Cops
    <2>1. \A h \in D : cop[h] \in Patch
        BY <1>6, <1>8
    <2>2. [x \in D |-> cop[x]] \in Cops
        BY <1>2, <2>1, CopsIs
    <2>3. [x \in D |-> cop[x]] = [x \in D |-> F(x)]
        BY <1>8
    <2> QED  BY <1>1, <2>2, <2>3
<1>10. Leads(cop, o, r, a)
    BY <1>4, <1>5, <1>8 DEF Leads
<1> QED  BY <1>7, <1>8, <1>9, <1>10

---------------------------------------------------------------------------
(* One level down.                                                         *)

LEMMA NoPlane ==
    ASSUME NEW P, NEW lev, NEW was, NEW co, Explains(P, lev, was, co),
           NEW l \in 1 .. lev, NEW c \in Callouts,
           \A p \in P : ~(p.obj = c[1] /\ p.level = l)
    PROVE  was[l][c] = was[l + 1][c]
BY DEF Explains, Patched

LEMMA PlaneLeads ==
    ASSUME NEW P, NEW lev \in 0 .. MaxLevel, Keyed(P, lev), NEW was, NEW co,
           Explains(P, lev, was, co), NEW p \in P, NEW l, p.level = l
    PROVE  /\ Leads(p.cop, p.obj, was[l], was[l + 1])
           /\ \A h \in DOMAIN p.cop : h \in 1 .. Len(co[p.obj])
           /\ l \in 1 .. lev /\ p.cop \in Cops
<1>1. p \in PlaneSet /\ p.level <= lev
    BY DEF Keyed
<1>2. l \in 1 .. lev /\ p.cop \in Cops
    BY <1>1, PlaneFields, Constants
<1>3. Wraps(p, was, co)
    BY DEF Explains
<1>4. ASSUME NEW c \in Callouts, c[1] = p.obj, was[l][c] # was[l + 1][c]
      PROVE  c[2] \in DOMAIN p.cop
    <2>1. Patched(P, c, l)
        BY <1>2, <1>4 DEF Explains
    <2>2. PICK q \in P : q.obj = c[1] /\ q.level = l /\ c[2] \in DOMAIN q.cop
        BY <2>1 DEF Patched
    <2>3. q = p
        BY <1>4, <2>2 DEF Keyed
    <2> QED  BY <2>2, <2>3
<1> QED  BY <1>2, <1>3, <1>4 DEF Leads, Wraps

Is(q, o, l) == q.obj = o /\ q.level = l

(* What becomes of the planes P when level L is committed.                 *)
Descends(q, P, L) ==
    \/ q \in P /\ q.level < L - 1
    \/ /\ q.level = L - 1 /\ \A r \in P : ~Is(r, q.obj, L)
       /\ \E p \in P : Is(p, q.obj, L - 1) /\ q.cop = p.cop
    \/ /\ q.level = L - 1
       /\ \E p \in P, r \in P : /\ Is(p, q.obj, L - 1) /\ Is(r, q.obj, L)
                                /\ q.cop = MergePatches(p.cop, r.cop)
    \/ /\ q.level = L - 1 /\ \A p \in P : ~Is(p, q.obj, L - 1)
       /\ \E r \in P : Is(r, q.obj, L) /\ q.cop = r.cop

LEMMA DescendsLeads ==
    ASSUME NEW L \in 2 .. MaxLevel, NEW P, Keyed(P, L), NEW was, NEW co,
           Explains(P, L, was, co), NEW q, Descends(q, P, L), q.level = L - 1
    PROVE  /\ q.cop \in Cops /\ Leads(q.cop, q.obj, was[L - 1], Held(co))
           /\ \A h \in DOMAIN q.cop : h \in 1 .. Len(co[q.obj])
<1>1. /\ L - 1 \in 1 .. L /\ L \in 1 .. L /\ L \in 0 .. MaxLevel
      /\ L - 1 \in Levels /\ L \in Levels /\ L + 1 \in Levels /\ L + 1 > L /\ (L - 1) + 1 = L
    BY Constants DEF Levels
<1>2. /\ was[L - 1] \in Entries /\ was[L] \in Entries /\ was[L + 1] \in Entries
      /\ was[L + 1] = Held(co)
    BY <1>1 DEF Explains
<1>3. CASE \A r \in P : ~Is(r, q.obj, L)
    <2>1. PICK p \in P : Is(p, q.obj, L - 1) /\ q.cop = p.cop
        BY <1>1, <1>3 DEF Descends
    <2>2. /\ Leads(q.cop, q.obj, was[L - 1], was[L]) /\ q.cop \in Cops
          /\ \A h \in DOMAIN q.cop : h \in 1 .. Len(co[q.obj])
        BY <1>1, <2>1, PlaneLeads DEF Is
    <2>3. \A c \in Callouts : c[1] = q.obj => was[L][c] = was[L + 1][c]
        BY <1>1, <1>3, NoPlane DEF Is
    <2>4. ASSUME NEW h \in DOMAIN q.cop
          PROVE  /\ << q.obj, h >> \in Callouts
                 /\ Fits(q.cop[h], was[L - 1][<< q.obj, h >>], Held(co)[<< q.obj, h >>])
        <3>1. << q.obj, h >>[1] = q.obj
            OBVIOUS
        <3> QED  BY <1>2, <2>2, <2>3, <3>1 DEF Leads
    <2> QED  BY <1>2, <2>2, <2>3, <2>4 DEF Leads
<1>4. CASE \A p \in P : ~Is(p, q.obj, L - 1)
    <2>1. PICK r \in P : Is(r, q.obj, L) /\ q.cop = r.cop
        BY <1>1, <1>4 DEF Descends
    <2>2. /\ Leads(q.cop, q.obj, was[L], was[L + 1]) /\ q.cop \in Cops
          /\ \A h \in DOMAIN q.cop : h \in 1 .. Len(co[q.obj])
        BY <1>1, <2>1, PlaneLeads DEF Is
    <2>3. \A c \in Callouts : c[1] = q.obj => was[L - 1][c] = was[L][c]
        BY <1>1, <1>4, NoPlane DEF Is
    <2>4. ASSUME NEW h \in DOMAIN q.cop
          PROVE  /\ << q.obj, h >> \in Callouts
                 /\ Fits(q.cop[h], was[L - 1][<< q.obj, h >>], Held(co)[<< q.obj, h >>])
        <3>1. << q.obj, h >>[1] = q.obj
            OBVIOUS
        <3> QED  BY <1>2, <2>2, <2>3, <3>1 DEF Leads
    <2> QED  BY <1>2, <2>2, <2>3, <2>4 DEF Leads
<1>5. CASE (\E r \in P : Is(r, q.obj, L)) /\ \E p \in P : Is(p, q.obj, L - 1)
    <2>1. PICK p \in P, r \in P : /\ Is(p, q.obj, L - 1) /\ Is(r, q.obj, L)
                                  /\ q.cop = MergePatches(p.cop, r.cop)
        BY <1>1, <1>5 DEF Descends
    <2>2. /\ Leads(p.cop, q.obj, was[L - 1], was[L]) /\ p.cop \in Cops
          /\ \A h \in DOMAIN p.cop : h \in 1 .. Len(co[q.obj])
        BY <1>1, <2>1, PlaneLeads DEF Is
    <2>3. /\ Leads(r.cop, q.obj, was[L], Held(co)) /\ r.cop \in Cops
          /\ \A h \in DOMAIN r.cop : h \in 1 .. Len(co[q.obj])
        BY <1>1, <1>2, <2>1, PlaneLeads DEF Is
    <2>4. /\ q.cop \in Cops /\ Leads(q.cop, q.obj, was[L - 1], Held(co))
          /\ \A h \in DOMAIN q.cop : h \in DOMAIN p.cop \/ h \in DOMAIN r.cop
        BY <1>2, <2>1, <2>2, <2>3, MergePatchesIs
    <2> QED  BY <2>2, <2>3, <2>4
<1> QED  BY <1>3, <1>4, <1>5

LEMMA CommitExplains ==
    ASSUME NEW L \in 2 .. MaxLevel, NEW P, Keyed(P, L), NEW was, NEW co,
           Explains(P, L, was, co), NEW Q, \A q \in Q : Descends(q, P, L),
           \A p \in P : p.level < L - 1 => p \in Q,
           \A p \in P : p.level >= L - 1 => \E q \in Q : Is(q, p.obj, L - 1)
    PROVE  Explains(Q, L - 1, Since(was, L - 1, Held(co)), co)
<1> DEFINE now == Since(was, L - 1, Held(co))
<1>1. /\ L - 1 \in 1 .. L /\ L \in 1 .. L /\ L \in 0 .. MaxLevel /\ L - 1 \in Int
      /\ L - 1 \in Levels /\ L \in Levels /\ L + 1 \in Levels /\ L + 1 > L /\ (L - 1) + 1 = L
      /\ \A l \in Levels : l \in Nat /\ l > 0
    BY Constants DEF Levels
<1>2. was \in [Levels -> Entries] /\ was[L + 1] = Held(co) /\ Held(co) \in Entries
    BY <1>1 DEF Explains
<1>3. now \in [Levels -> Entries]
    BY <1>1, <1>2, SinceIs
<1>4. \A x \in Levels : (x <= L - 1 => now[x] = was[x]) /\ (x > L - 1 => now[x] = Held(co))
    BY <1>1, <1>2, SinceIs
<1> HIDE DEF now
<1>5. now[L - 1] = was[L - 1] /\ now[L] = Held(co)
    BY <1>1, <1>4
<1>6. ASSUME NEW q \in Q
      PROVE  Wraps(q, now, co)
    <2>1. Descends(q, P, L)
        OBVIOUS
    <2>2. CASE q.level = L - 1
        <3>1. /\ Leads(q.cop, q.obj, now[L - 1], now[L])
              /\ \A h \in DOMAIN q.cop : h \in 1 .. Len(co[q.obj])
            BY <1>5, <2>1, <2>2, DescendsLeads
        <3> QED  BY <1>1, <2>2, <3>1 DEF Leads, Wraps
    <2>3. CASE q \in P /\ q.level < L - 1
        <3>1. q \in PlaneSet
            BY <2>3 DEF Keyed
        <3>2. q.level \in Levels /\ q.level + 1 \in Levels /\ q.level + 1 <= L - 1
              /\ q.level <= L - 1 /\ q.obj \in Objects
            BY <1>1, <2>3, <3>1, PlaneFields, LevelIs
        <3>3. now[q.level] = was[q.level] /\ now[q.level + 1] = was[q.level + 1]
            BY <1>4, <3>2
        <3>4. Wraps(q, was, co)
            BY <2>3 DEF Explains
        <3> QED  BY <3>3, <3>4 DEF Wraps
    <2> QED  BY <2>1, <2>2, <2>3 DEF Descends
<1>7. ASSUME NEW l \in 1 .. L - 1, NEW c \in Callouts, now[l][c] # now[l + 1][c]
      PROVE  Patched(Q, c, l)
    <2>1. l \in Nat /\ l \in Levels /\ l + 1 \in Levels /\ l \in 1 .. L /\ now[l] = was[l]
        BY <1>1, <1>4, Constants DEF Levels
    <2>2. CASE l = L - 1
        <3>1. was[L - 1][c] # was[L][c] \/ was[L][c] # was[L + 1][c]
            BY <1>1, <1>2, <1>5, <1>7, <2>2
        <3>2. Patched(P, c, L - 1) \/ Patched(P, c, L)
            BY <1>1, <3>1 DEF Explains
        <3>3. PICK p \in P : p.obj = c[1] /\ p.level >= L - 1
            BY <1>1, <3>2 DEF Patched
        <3>4. PICK q \in Q : Is(q, c[1], L - 1)
            BY <3>3
        <3>5. Leads(q.cop, q.obj, now[L - 1], now[L])
            BY <1>5, <3>4, DescendsLeads DEF Is
        <3>6. c[2] \in DOMAIN q.cop
            BY <1>1, <1>7, <2>2, <3>4, <3>5 DEF Leads, Is
        <3> QED  BY <2>2, <3>4, <3>6 DEF Patched, Is
    <2>3. CASE l # L - 1
        <3>1. l + 1 <= L - 1 /\ l < L - 1
            BY <1>1, <2>1, <2>3
        <3>2. now[l + 1] = was[l + 1]
            BY <1>4, <2>1, <3>1
        <3>3. Patched(P, c, l)
            BY <1>7, <2>1, <3>2 DEF Explains
        <3> QED  BY <3>1, <3>3 DEF Patched
    <2> QED  BY <2>2, <2>3
<1>8. \A l \in Levels : l > L - 1 => now[l] = Held(co)
    BY <1>4
<1>9. Explains(Q, L - 1, now, co)
    BY <1>3, <1>6, <1>7, <1>8 DEF Explains
<1> QED  BY <1>9 DEF now

(* The planes of level L are gone, and the dataspaces are as before it.    *)
LEMMA DiscardExplains ==
    ASSUME NEW L \in 1 .. MaxLevel, NEW P, Keyed(P, L), NEW was, NEW co,
           Explains(P, L, was, co), NEW nc, Held(nc) = was[L], Keeps(nc, co),
           NEW Q, \A q : q \in Q <=> q \in P /\ q.level < L
    PROVE  Explains(Q, L - 1, Since(was, L - 1, Held(nc)), nc)
<1> DEFINE now == Since(was, L - 1, Held(nc))
<1>1. /\ L - 1 \in Int /\ L \in Int /\ L \in Levels
      /\ \A l \in Levels : l \in Nat /\ l > 0
    BY Constants DEF Levels
<1>2. was \in [Levels -> Entries] /\ Held(nc) \in Entries
    BY <1>1 DEF Explains
<1>3. now \in [Levels -> Entries]
    BY <1>1, <1>2, SinceIs
<1>4. \A x \in Levels : (x <= L - 1 => now[x] = was[x]) /\ (x > L - 1 => now[x] = Held(nc))
    BY <1>1, <1>2, SinceIs
<1> HIDE DEF now
<1>5. \A x \in Levels : x <= L => now[x] = was[x]
    <2> TAKE x \in Levels
    <2>1. x <= L => x <= L - 1 \/ (x = L /\ x > L - 1)
        BY <1>1
    <2> QED  BY <1>4, <2>1
<1>6. ASSUME NEW q \in Q
      PROVE  Wraps(q, now, nc)
    <2>1. q \in PlaneSet /\ q.level < L /\ Wraps(q, was, co)
        BY DEF Keyed, Explains
    <2>2. q.level \in Levels /\ q.level + 1 \in Levels /\ q.level + 1 <= L
          /\ q.level <= L /\ q.obj \in Objects
        BY <1>1, <2>1, PlaneFields, LevelIs
    <2>3. now[q.level] = was[q.level] /\ now[q.level + 1] = was[q.level + 1]
        BY <1>5, <2>2
    <2> QED  BY <2>1, <2>2, <2>3, WrapsSame
<1>7. ASSUME NEW l \in 1 .. L - 1, NEW c \in Callouts, now[l][c] # now[l + 1][c]
      PROVE  Patched(Q, c, l)
    <2>1. /\ l \in Nat /\ l \in Levels /\ l + 1 \in Levels /\ l \in 1 .. L
          /\ l <= L /\ l + 1 <= L /\ l < L
        BY <1>1, Constants DEF Levels
    <2>2. now[l] = was[l] /\ now[l + 1] = was[l + 1]
        BY <1>5, <2>1
    <2>3. Patched(P, c, l)
        BY <1>7, <2>1, <2>2 DEF Explains
    <2> QED  BY <2>1, <2>3 DEF Patched
<1>8. \A l \in Levels : l > L - 1 => now[l] = Held(nc)
    BY <1>4
<1>9. Explains(Q, L - 1, now, nc)
    BY <1>3, <1>6, <1>7, <1>8 DEF Explains
<1> QED  BY <1>9 DEF now

---------------------------------------------------------------------------
(* The planes of the current level, and those below it.                    *)

LEMMA SubSeqElem ==
    ASSUME NEW S, NEW s \in Seq(S), NEW n \in 0 .. Len(s), NEW a, a = SubSeq(s, 1, n),
           NEW b, b = SubSeq(s, n + 1, Len(s))
    PROVE  /\ a \in Seq(S) /\ Len(a) = n /\ \A k \in 1 .. n : a[k] = s[k]
           /\ b \in Seq(S) /\ Len(b) = Len(s) - n
           /\ \A k \in 1 .. Len(s) - n : b[k] = s[n + k]
<1>1. a \in Seq(S) /\ Len(a) = n /\ \A k \in 1 .. n : a[k] = s[k]
    OBVIOUS
<1>2. b \in Seq(S) /\ Len(b) = Len(s) - n
    OBVIOUS
<1>3. \A k \in 1 .. Len(s) - n : b[k] = s[n + k]
    OBVIOUS
<1> QED  BY <1>1, <1>2, <1>3

LEMMA InLevelIs ==
    ASSUME level \in Nat, Stack(plist, level)
    PROVE  /\ InLevel \in 0 .. Len(plist)
           /\ \A k \in 1 .. Len(plist) : k <= InLevel <=> plist[k].level = level
<1> DEFINE N == Len(plist)
           S == {n \in 0 .. N : n < N => plist[n + 1].level # level}
           P(n) == /\ \A k \in 1 .. n : plist[k].level = level
                   /\ n < Len(plist) => plist[n + 1].level # level
<1>1. N \in Nat /\ \A k \in 1 .. N : plist[k].level \in Nat /\ plist[k].level <= level
    BY StackIs, PlaneFields DEF Stack
<1>2. S \in SUBSET Int /\ N \in S /\ \A x \in S : x >= 0
    BY <1>1
<1> HIDE DEF N
<1>3. PICK n \in S : \A x \in S : n <= x
    <2> HIDE DEF S
    <2> QED  BY <1>2, LeastExists
<1>4. \A k \in 1 .. n : plist[k].level = level
    <2> TAKE k \in 1 .. n
    <2>1. k - 1 \in 0 .. N /\ k - 1 < N /\ ~(n <= k - 1) /\ (k - 1) + 1 = k
        BY <1>1
    <2>2. k - 1 \notin S
        BY <1>3, <2>1
    <2> QED  BY <2>1, <2>2
<1>5. P(n) /\ n \in 0 .. N
    BY <1>4 DEF N
<1>6. InLevel \in 0 .. N /\ P(InLevel)
    <2>1. InLevel = CHOOSE x \in 0 .. N : P(x)
        BY DEF InLevel, N
    <2> HIDE DEF P
    <2> QED  BY <1>5, <2>1
<1>7. ASSUME NEW k \in 1 .. N, ~(k <= InLevel)
      PROVE  plist[k].level # level
    <2>1. InLevel < N /\ InLevel + 1 \in 1 .. N /\ InLevel + 1 <= k
        BY <1>1, <1>6, <1>7
    <2>2. plist[InLevel + 1].level # level /\ plist[InLevel + 1].level <= level
        BY <1>1, <1>6, <2>1 DEF N
    <2>3. k = InLevel + 1 \/ plist[InLevel + 1].level >= plist[k].level
        BY <2>1 DEF Stack, N
    <2> QED  BY <1>1, <2>1, <2>2, <2>3
<1>8. \A k \in 1 .. N : k <= InLevel => plist[k].level = level
    BY <1>1, <1>6
<1> QED  BY <1>6, <1>7, <1>8 DEF N

LEMMA CurrentIs ==
    ASSUME level \in Nat, Stack(plist, level)
    PROVE  /\ Current \in Seq(PlaneSet) /\ Len(Current) \in Nat
           /\ \A k \in 1 .. Len(Current) :
                 /\ Current[k] \in All(plist) /\ Current[k].level = level
                 /\ Current[k] \in PlaneSet
           /\ \A j \in 1 .. Len(Current), k \in 1 .. Len(Current) :
                 j # k => Current[j].obj # Current[k].obj
           /\ \A p \in All(plist) : p.level = level => \E k \in 1 .. Len(Current) : p = Current[k]
<1> DEFINE n == InLevel
<1>1. n \in 0 .. Len(plist) /\ \A k \in 1 .. Len(plist) : k <= n <=> plist[k].level = level
    BY InLevelIs
<1>2. plist \in Seq(PlaneSet) /\ Len(plist) \in Nat
    BY StackIs DEF Stack
<1>3. Current = SubSeq(plist, 1, n)
    BY DEF Current
<1> HIDE DEF n
<1>4. Current \in Seq(PlaneSet) /\ Len(Current) = n /\ \A k \in 1 .. n : Current[k] = plist[k]
    BY <1>1, <1>2, <1>3, SubSeqElem
<1>5. \A k \in 1 .. n : k \in 1 .. Len(plist) /\ plist[k].level = level
    BY <1>1, <1>2
<1>6. \A k \in 1 .. n : Current[k] \in All(plist) /\ Current[k].level = level
                        /\ Current[k] \in PlaneSet
    BY <1>4, <1>5, StackIs
<1>7. ASSUME NEW j \in 1 .. n, NEW k \in 1 .. n, j # k
      PROVE  Current[j].obj # Current[k].obj
    <2>1. j < k \/ k < j
        BY <1>1, <1>7
    <2> QED  BY <1>4, <1>5, <2>1 DEF Stack
<1>8. ASSUME NEW p \in All(plist), p.level = level
      PROVE  \E k \in 1 .. n : p = Current[k]
    <2>1. PICK k \in 1 .. Len(plist) : p = plist[k]
        BY DEF All
    <2>2. k \in 1 .. n
        BY <1>1, <1>8, <2>1
    <2> QED  BY <1>4, <2>1, <2>2
<1> QED  BY <1>1, <1>4, <1>6, <1>7, <1>8

LEMMA BelowIs ==
    ASSUME level \in Nat, Stack(plist, level)
    PROVE  /\ Below \in Seq(PlaneSet) /\ Len(Below) \in Nat /\ DOMAIN Below = 1 .. Len(Below)
           /\ \A k \in 1 .. Len(Below) : Below[k] \in All(plist) /\ Below[k].level < level
           /\ \A p \in All(plist) : p.level < level => \E k \in 1 .. Len(Below) : p = Below[k]
           /\ \A j \in 1 .. Len(Below), k \in 1 .. Len(Below) :
                 j < k => /\ Below[j].level >= Below[k].level
                          /\ ~(Below[j].obj = Below[k].obj /\ Below[j].level = Below[k].level)
<1> DEFINE n == InLevel
           N == Len(plist)
<1>1. n \in 0 .. N /\ \A k \in 1 .. N : k <= n <=> plist[k].level = level
    BY InLevelIs
<1>2. /\ plist \in Seq(PlaneSet) /\ N \in Nat
      /\ \A k \in 1 .. N : /\ plist[k].level \in Nat /\ plist[k].level <= level
                           /\ plist[k] \in All(plist)
    BY StackIs, PlaneFields DEF Stack
<1>3. Below = SubSeq(plist, n + 1, Len(plist))
    BY DEF Below
<1> HIDE DEF n
<1>4. /\ Below \in Seq(PlaneSet) /\ Len(Below) = N - n
      /\ \A k \in 1 .. N - n : Below[k] = plist[n + k]
    BY <1>1, <1>2, <1>3, SubSeqElem
<1> HIDE DEF N
<1>5. \A k \in 1 .. N - n : n + k \in 1 .. N /\ ~(n + k <= n)
    BY <1>1, <1>2
<1>6. ASSUME NEW k \in 1 .. N - n
      PROVE  Below[k] \in All(plist) /\ Below[k].level < level
    <2>1. plist[n + k].level # level /\ n + k \in 1 .. N
        BY <1>1, <1>5
    <2> QED  BY <1>2, <1>4, <2>1
<1>7. ASSUME NEW p \in All(plist), p.level < level
      PROVE  \E k \in 1 .. N - n : p = Below[k]
    <2>1. PICK j \in 1 .. N : p = plist[j]
        BY DEF All, N
    <2>2. ~(j <= n)
        BY <1>1, <1>2, <1>7, <2>1
    <2>3. j - n \in 1 .. N - n /\ n + (j - n) = j
        BY <1>1, <1>2, <2>2
    <2> QED  BY <1>4, <2>1, <2>3
<1>8. ASSUME NEW j \in 1 .. N - n, NEW k \in 1 .. N - n, j < k
      PROVE  /\ Below[j].level >= Below[k].level
             /\ ~(Below[j].obj = Below[k].obj /\ Below[j].level = Below[k].level)
    <2>1. n + j < n + k /\ n + j \in 1 .. N /\ n + k \in 1 .. N
        BY <1>1, <1>2, <1>5, <1>8
    <2> QED  BY <1>4, <2>1 DEF Stack, N
<1>9. N - n \in Nat
    BY <1>1, <1>2
<1>10. DOMAIN Below = 1 .. Len(Below)
    BY <1>4
<1> QED  BY <1>4, <1>6, <1>7, <1>8, <1>9, <1>10

LEMMA PlanesOfIs ==
    ASSUME level \in Nat, Stack(plist, level), NEW o, NEW l
    PROVE  /\ PlanesOf(o, l) # {} <=> \E p \in All(plist) : Is(p, o, l)
           /\ \A k \in PlanesOf(o, l) : plist[k] \in All(plist) /\ Is(plist[k], o, l)
<1>1. DOMAIN plist = 1 .. Len(plist)
    BY StackIs
<1> QED  BY <1>1 DEF PlanesOf, All, Is

LEMMA DiscardStack ==
    ASSUME level \in 1 .. MaxLevel, Stack(plist, level)
    PROVE  /\ Stack(Below, level - 1)
           /\ \A q : q \in All(Below) <=> q \in All(plist) /\ q.level < level
<1>1. level \in Nat /\ MaxLevel \in Nat
    BY Constants
<1>2. \A q : q \in All(Below) <=> q \in All(plist) /\ q.level < level
    BY <1>1, BelowIs DEF All
<1>3. \A k \in 1 .. Len(Below) : Below[k].level <= level - 1
    <2> TAKE k \in 1 .. Len(Below)
    <2>1. Below[k] \in PlaneSet /\ Below[k].level < level
        BY <1>1, BelowIs, StackIs
    <2> QED  BY <1>1, <2>1, PlaneFields
<1> QED  BY <1>1, <1>2, <1>3, BelowIs DEF Stack

---------------------------------------------------------------------------
(* The planes after a commit to a plane that is not the last.              *)

Down(p) == [p EXCEPT !.level = level - 1]

LEMMA DownIs ==
    ASSUME level \in 2 .. MaxLevel, NEW p \in PlaneSet
    PROVE  /\ Down(p) \in PlaneSet /\ Down(p).level = level - 1
           /\ Down(p).obj = p.obj /\ Down(p).cop = p.cop
<1>1. level - 1 \in 1 .. MaxLevel
    BY Constants
<1>2. p = [obj |-> p.obj, level |-> p.level, cop |-> p.cop]
    BY PlaneFields
<1>3. Down(p) = [obj |-> p.obj, level |-> level - 1, cop |-> p.cop]
    BY <1>2 DEF Down
<1>4. p.obj \in Objects /\ p.cop \in Cops
    BY PlaneFields
<1> QED  BY <1>1, <1>3, <1>4 DEF PlaneSet

(* Planes s are those of the first k of the current level that move down.  *)
DownTo(s, k) ==
    /\ s \in Seq(PlaneSet)
    /\ \A i \in 1 .. Len(s) :
          \E j \in 1 .. k : s[i] = Down(Current[j]) /\ ~HasPrevious(Current[j].obj)
    /\ \A j \in 1 .. k :
          ~HasPrevious(Current[j].obj) => \E i \in 1 .. Len(s) : s[i] = Down(Current[j])
    /\ \A i \in 1 .. Len(s), j \in 1 .. Len(s) : i # j => s[i].obj # s[j].obj

LEMMA MoveOne ==
    ASSUME level \in 2 .. MaxLevel, Stack(plist, level), NEW k \in 1 .. Len(Current),
           NEW s, DownTo(s, k - 1)
    PROVE  DownTo(IF HasPrevious(Current[k].obj) THEN s ELSE Append(s, Down(Current[k])), k)
<1>1. k \in Nat /\ k - 1 \in Nat /\ k # k - 1 /\ level \in Nat
    BY CurrentIs, Constants
<1>2. \A j \in 1 .. k : j = k \/ j \in 1 .. k - 1
    BY <1>1
<1>3. \A j \in 1 .. k - 1 : j \in 1 .. k /\ j # k
    BY <1>1
<1>4. CASE HasPrevious(Current[k].obj)
    BY <1>2, <1>3, <1>4 DEF DownTo
<1>5. CASE ~HasPrevious(Current[k].obj)
    <2> DEFINE x == Down(Current[k])
               r == Append(s, x)
    <2>1. Current[k] \in PlaneSet
        BY <1>1, CurrentIs
    <2>2. x \in PlaneSet /\ x.obj = Current[k].obj
        BY <2>1, DownIs
    <2>3. s \in Seq(PlaneSet)
        BY DEF DownTo
    <2> HIDE DEF x
    <2>4. /\ r \in Seq(PlaneSet) /\ Len(s) \in Nat /\ Len(r) = Len(s) + 1
          /\ \A i \in 1 .. Len(s) : r[i] = s[i]
          /\ r[Len(s) + 1] = x
        BY <2>2, <2>3, AppendElem
    <2> HIDE DEF r
    <2>5. \A i \in 1 .. Len(r) : i \in 1 .. Len(s) \/ i = Len(r)
        BY <2>4
    <2>6. \A i \in 1 .. Len(s) : i \in 1 .. Len(r) /\ i # Len(r)
        BY <2>4
    <2>7. r[Len(r)] = x /\ Len(r) \in 1 .. Len(r)
        BY <2>4
    <2>8. ASSUME NEW i \in 1 .. Len(r)
          PROVE  \E j \in 1 .. k : r[i] = Down(Current[j]) /\ ~HasPrevious(Current[j].obj)
        <3>1. CASE i = Len(r)
            <4>1. k \in 1 .. k
                BY <1>1
            <4> QED  BY <1>5, <2>7, <3>1, <4>1 DEF x
        <3>2. CASE i \in 1 .. Len(s)
            BY <1>3, <2>4, <3>2 DEF DownTo
        <3> QED  BY <2>5, <3>1, <3>2
    <2>9. ASSUME NEW j \in 1 .. k, ~HasPrevious(Current[j].obj)
          PROVE  \E i \in 1 .. Len(r) : r[i] = Down(Current[j])
        <3>1. CASE j = k
            BY <2>7, <3>1 DEF x
        <3>2. CASE j \in 1 .. k - 1
            BY <2>4, <2>6, <2>9, <3>2 DEF DownTo
        <3> QED  BY <1>2, <3>1, <3>2
    <2>10. ASSUME NEW i \in 1 .. Len(s)
           PROVE  s[i].obj # x.obj
        <3>1. PICK j \in 1 .. k - 1 : s[i] = Down(Current[j])
            BY DEF DownTo
        <3>2. j \in 1 .. Len(Current) /\ j # k
            BY <1>1, CurrentIs
        <3>3. Current[j] \in PlaneSet /\ Current[j].obj # Current[k].obj
            BY <1>1, <3>2, CurrentIs
        <3> QED  BY <2>2, <3>1, <3>3, DownIs
    <2>11. \A i \in 1 .. Len(r), j \in 1 .. Len(r) : i # j => r[i].obj # r[j].obj
        <3> TAKE i \in 1 .. Len(r), j \in 1 .. Len(r)
        <3> HAVE i # j
        <3>1. CASE i = Len(r)
            <4>1. j \in 1 .. Len(s)
                BY <2>5, <3>1
            <4> QED  BY <2>4, <2>7, <2>10, <3>1, <4>1
        <3>2. CASE j = Len(r)
            <4>1. i \in 1 .. Len(s)
                BY <2>5, <3>2
            <4> QED  BY <2>4, <2>7, <2>10, <3>2, <4>1
        <3>3. CASE i \in 1 .. Len(s) /\ j \in 1 .. Len(s)
            BY <2>4, <3>3 DEF DownTo
        <3> QED  BY <2>5, <3>1, <3>2, <3>3
    <2>12. DownTo(r, k)
        BY <2>4, <2>8, <2>9, <2>11 DEF DownTo
    <2> QED  BY <1>5, <2>12 DEF r, x
<1> QED  BY <1>4, <1>5

LEMMA MovedDownIs ==
    ASSUME level \in 2 .. MaxLevel, Stack(plist, level)
    PROVE  DownTo(MovedDown, Len(Current))
<1> DEFINE n == Len(Current)
           Step(x, k) == IF HasPrevious(Current[k].obj) THEN x ELSE Append(x, Down(Current[k]))
           M == Seq(PlaneSet)
           I == {p \in M \X (0 .. n) : DownTo(p[1], p[2])}
           Op == [p \in I |-> Step(p[1], p[2] + 1)]
           F(f) == [k \in 0 .. n |-> IF k = 0 THEN << >> ELSE Step(f[k - 1], k)]
           after == CHOOSE f : f = F(f)
<1>1. n \in Nat
    BY CurrentIs, Constants
<1>2. \A x, k : DownTo(x, k) => x \in M
    BY DEF DownTo
<1>3. << >> \in M /\ DownTo(<< >>, 0)
    <2>1. << >> \in Seq(PlaneSet) /\ Len(<< >>) = 0 /\ 1 .. 0 = {}
        OBVIOUS
    <2> QED  BY <2>1 DEF DownTo
<1>4. << << >>, 0 >> \in I
    <2>1. PICK e : e = << >>
        OBVIOUS
    <2> HIDE DEF M
    <2>2. << e, 0 >> \in I
        BY <1>1, <1>3, <2>1
    <2> QED  BY <2>1, <2>2
<1>5. ASSUME NEW k \in 1 .. n, NEW x, DownTo(x, k - 1)
      PROVE  DownTo(Step(x, k), k)
    <2> HIDE DEF F, after, I, Op, M
    <2> QED  BY <1>5, MoveOne
<1> HIDE DEF M, Step
<1>6. \A k \in 1 .. n : \A x : << x, k - 1 >> \in I => Op[<< x, k - 1 >>] = Step(x, k)
    <2> TAKE k \in 1 .. n
    <2> TAKE x
    <2>1. (k - 1) + 1 = k
        BY <1>1
    <2> HIDE DEF I
    <2> QED  BY <2>1
<1>7. Closed(I, n, Op)
    <2> SUFFICES ASSUME NEW k \in 1 .. n, NEW x, << x, k - 1 >> \in I
                 PROVE  << Step(x, k), k >> \in I
        <3> HIDE DEF I
        <3> QED  BY <1>6 DEF Closed
    <2>1. DownTo(Step(x, k), k)
        BY <1>5
    <2>2. k \in 0 .. n
        BY <1>1
    <2> QED  BY <1>2, <2>1, <2>2
<1> HIDE DEF Op
<1>8. PICK f : Walks(f, n, << >>, Op) /\ \A k \in 0 .. n : << f[k], k >> \in I
    <2> HIDE DEF I
    <2> QED  BY <1>1, <1>4, <1>7, WalkWithin
<1> HIDE DEF n
<1>9. f = F(f)
    <2>1. \A k \in 1 .. n : Op[<< f[k - 1], k - 1 >>] = Step(f[k - 1], k)
        <3> TAKE k \in 1 .. n
        <3>1. << f[k - 1], k - 1 >> \in I
            BY <1>1, <1>8
        <3> QED  BY <1>6, <3>1
    <2> HIDE DEF I
    <2>2. /\ f = [k \in 0 .. n |-> f[k]]
          /\ \A k \in 0 .. n : f[k] = IF k = 0 THEN << >> ELSE Op[<< f[k - 1], k - 1 >>]
        BY <1>8 DEF Walks
    <2>3. \A k \in 0 .. n : f[k] = IF k = 0 THEN << >> ELSE Step(f[k - 1], k)
        <3> TAKE k \in 0 .. n
        <3>1. k # 0 => k \in 1 .. n
            BY <1>1
        <3> QED  BY <2>1, <2>2, <3>1
    <2> QED  BY <2>2, <2>3
<1>10. after = F(after)
    <2> HIDE DEF F
    <2> QED  BY <1>9
<1>11. MovedDown = after[n]
    BY DEF MovedDown, Step, Down, n
<1> HIDE DEF after
<1> DEFINE S == {k \in 0 .. n : after[k] = f[k]}
<1>12. 0 \in S
    BY <1>1, <1>9, <1>10
<1>13. ASSUME NEW k \in 1 .. n, k - 1 \in S
       PROVE  k \in S
    BY <1>1, <1>9, <1>10, <1>13
<1> HIDE DEF S
<1>14. \A k \in 0 .. n : k \in S
    BY <1>1, <1>12, <1>13, StepByStep
<1>15. after[n] = f[n] /\ << f[n], n >> \in I
    BY <1>1, <1>8, <1>14 DEF S
<1> QED  BY <1>11, <1>15 DEF n

(* A plane of those below, to which the committed patches are merged.      *)
MergedPlane(q, p) ==
    \/ q = p /\ ~(p.level = level - 1 /\ PlanesOf(p.obj, level) # {})
    \/ /\ p.level = level - 1
       /\ \E r \in All(plist) : /\ Is(r, p.obj, level)
                                /\ q = WithCop(p, MergePatches(p.cop, r.cop))

LEMMA MergedIs ==
    ASSUME level \in 2 .. MaxLevel, Stack(plist, level)
    PROVE  /\ DOMAIN Merged = 1 .. Len(Below) /\ Merged = [k \in 1 .. Len(Below) |-> Merged[k]]
           /\ \A k \in 1 .. Len(Below) : MergedPlane(Merged[k], Below[k])
<1>1. level \in Nat /\ DOMAIN Below = 1 .. Len(Below)
    BY Constants, BelowIs
<1>2. ASSUME NEW k \in 1 .. Len(Below)
      PROVE  MergedPlane(Merged[k], Below[k])
    <2> DEFINE p == Below[k]
               j == CHOOSE x \in PlanesOf(p.obj, level) : TRUE
    <2>1. Merged[k] = IF p.level = level - 1 /\ PlanesOf(p.obj, level) # {}
                      THEN [p EXCEPT !.cop = MergePatches(@, plist[j].cop)] ELSE p
        BY <1>1 DEF Merged
    <2>2. CASE p.level = level - 1 /\ PlanesOf(p.obj, level) # {}
        <3>1. p \in PlaneSet
            BY <1>1, BelowIs, StackIs
        <3>2. j \in PlanesOf(p.obj, level)
            BY <2>2
        <3> HIDE DEF j
        <3>3. plist[j] \in All(plist) /\ Is(plist[j], p.obj, level)
            BY <1>1, <3>2, PlanesOfIs
        <3>4. p = [obj |-> p.obj, level |-> p.level, cop |-> p.cop]
            BY <3>1, PlaneFields
        <3>5. Merged[k] = [p EXCEPT !.cop = MergePatches(p.cop, plist[j].cop)]
            BY <2>1, <2>2
        <3> HIDE DEF p
        <3>6. Merged[k] = WithCop(p, MergePatches(p.cop, plist[j].cop))
            <4> DEFINE m == MergePatches(p.cop, plist[j].cop)
            <4> HIDE DEF m
            <4> QED  BY <3>4, <3>5 DEF WithCop, m
        <3>7. MergedPlane(Merged[k], p)
            BY <2>2, <3>3, <3>6 DEF MergedPlane
        <3> QED  BY <3>7 DEF p
    <2>3. CASE ~(p.level = level - 1 /\ PlanesOf(p.obj, level) # {})
        BY <2>1, <2>3 DEF MergedPlane
    <2> QED  BY <2>2, <2>3
<1>3. DOMAIN Merged = 1 .. Len(Below) /\ Merged = [k \in 1 .. Len(Below) |-> Merged[k]]
    BY <1>1 DEF Merged
<1> QED  BY <1>2, <1>3

LEMMA MovedPlane ==
    ASSUME level \in 2 .. MaxLevel, Stack(plist, level), NEW i \in 1 .. Len(MovedDown)
    PROVE  /\ MovedDown[i] \in PlaneSet /\ MovedDown[i].level = level - 1
           /\ \A p \in All(plist) : ~Is(p, MovedDown[i].obj, level - 1)
           /\ \E r \in All(plist) : Is(r, MovedDown[i].obj, level) /\ MovedDown[i].cop = r.cop
<1>1. level \in Nat
    BY Constants
<1>2. PICK j \in 1 .. Len(Current) :
          MovedDown[i] = Down(Current[j]) /\ ~HasPrevious(Current[j].obj)
    BY MovedDownIs DEF DownTo
<1>3. Current[j] \in All(plist) /\ Current[j].level = level /\ Current[j] \in PlaneSet
    BY <1>1, CurrentIs
<1>4. /\ MovedDown[i] \in PlaneSet /\ MovedDown[i].level = level - 1
      /\ MovedDown[i].obj = Current[j].obj /\ MovedDown[i].cop = Current[j].cop
    BY <1>2, <1>3, DownIs
<1>5. \A p \in All(plist) : ~Is(p, MovedDown[i].obj, level - 1)
    BY <1>1, <1>2, <1>4, PlanesOfIs DEF HasPrevious
<1> QED  BY <1>3, <1>4, <1>5 DEF Is

LEMMA MergedDescends ==
    ASSUME level \in 2 .. MaxLevel, Stack(plist, level), NEW k \in 1 .. Len(Below)
    PROVE  /\ Descends(Merged[k], All(plist), level)
           /\ Is(Merged[k], Below[k].obj, Below[k].level)
           /\ Below[k].level < level - 1 => Merged[k] = Below[k]
<1> DEFINE p == Below[k]
           q == Merged[k]
<1>1. level \in Nat
    BY Constants
<1>2. p \in All(plist) /\ p.level < level
    BY <1>1, BelowIs
<1>3. p \in PlaneSet /\ p.level \in Nat
    BY <1>1, <1>2, StackIs, PlaneFields
<1>4. MergedPlane(q, p)
    BY MergedIs
<1> HIDE DEF p, q
<1>5. CASE q = p /\ ~(p.level = level - 1 /\ PlanesOf(p.obj, level) # {})
    <2>1. p.level < level - 1 \/ p.level = level - 1
        BY <1>1, <1>2, <1>3
    <2>2. p.level = level - 1 => \A r \in All(plist) : ~Is(r, p.obj, level)
        BY <1>1, <1>5, PlanesOfIs
    <2>3. Descends(q, All(plist), level)
        BY <1>2, <1>5, <2>1, <2>2 DEF Descends, Is
    <2> QED  BY <1>5, <2>3 DEF Is, p, q
<1>6. CASE /\ p.level = level - 1
           /\ \E r \in All(plist) : /\ Is(r, p.obj, level)
                                    /\ q = WithCop(p, MergePatches(p.cop, r.cop))
    <2>1. PICK r \in All(plist) : /\ Is(r, p.obj, level)
                                  /\ q = WithCop(p, MergePatches(p.cop, r.cop))
        BY <1>6
    <2>2. PICK m : m = MergePatches(p.cop, r.cop)
        OBVIOUS
    <2>3. q.obj = p.obj /\ q.level = p.level /\ q.cop = m
        BY <2>1, <2>2 DEF WithCop
    <2>4. Descends(q, All(plist), level)
        BY <1>2, <1>6, <2>1, <2>2, <2>3 DEF Descends, Is
    <2>5. ~(p.level < level - 1)
        BY <1>1, <1>6
    <2> QED  BY <2>3, <2>4, <2>5 DEF Is, p, q
<1> QED  BY <1>4, <1>5, <1>6 DEF MergedPlane

LEMMA CommitStack ==
    ASSUME level \in 2 .. MaxLevel, Stack(plist, level), NEW was, NEW co,
           Explains(All(plist), level, was, co), NEW new, new = MovedDown \o Merged
    PROVE  /\ Stack(new, level - 1)
           /\ Explains(All(new), level - 1, Since(was, level - 1, Held(co)), co)
<1> DEFINE P == All(plist)
           d == MovedDown
           m == Merged
           N == Len(Below)
<1>1. /\ level \in Nat /\ level - 1 \in Nat /\ MaxLevel \in Nat /\ level - 1 < level
      /\ level - 1 \in 1 .. MaxLevel
    BY Constants
<1>2. Keyed(P, level)
    BY <1>1, StackIs DEF Keyed
<1>3. N \in Nat /\ \A k \in 1 .. N : Below[k] \in P /\ Below[k].level < level
    BY <1>1, BelowIs
<1>4. \A k \in 1 .. N : Below[k] \in PlaneSet
    BY <1>1, <1>3, StackIs
<1>5. \A k \in 1 .. N : /\ Descends(m[k], P, level)
                        /\ Is(m[k], Below[k].obj, Below[k].level)
                        /\ Below[k].level < level - 1 => m[k] = Below[k]
    BY MergedDescends
<1>6. DOMAIN m = 1 .. N /\ m = [k \in 1 .. N |-> m[k]]
    BY MergedIs
<1>7. d \in Seq(PlaneSet) /\ Len(d) \in Nat
    BY MovedDownIs DEF DownTo
<1>8. \A i \in 1 .. Len(d) :
          /\ d[i] \in PlaneSet /\ d[i].level = level - 1
          /\ \A p \in P : ~Is(p, d[i].obj, level - 1)
          /\ \E r \in P : Is(r, d[i].obj, level) /\ d[i].cop = r.cop
    BY MovedPlane
<1>9. \A i \in 1 .. Len(d), j \in 1 .. Len(d) : i # j => d[i].obj # d[j].obj
    BY MovedDownIs DEF DownTo
<1>10. \A j \in 1 .. Len(Current) :
           ~HasPrevious(Current[j].obj) => \E i \in 1 .. Len(d) : d[i] = Down(Current[j])
    BY MovedDownIs DEF DownTo
<1> HIDE DEF d, m, N
<1>11. ASSUME NEW k \in 1 .. N
       PROVE  m[k] \in PlaneSet
    <2>1. CASE Below[k].level < level - 1
        BY <1>4, <1>5, <2>1
    <2>2. CASE Below[k].level = level - 1
        <3>1. m[k].level = level - 1 /\ m[k].obj = Below[k].obj
            BY <1>5, <2>2 DEF Is
        <3>2. m[k].cop \in Cops
            BY <1>2, <1>5, <3>1, DescendsLeads
        <3>3. CASE MergedPlane(m[k], Below[k]) /\ m[k] = Below[k]
            BY <1>4, <3>3
        <3>4. CASE \E r \in P : m[k] = WithCop(Below[k], MergePatches(Below[k].cop, r.cop))
            <4>1. PICK c : m[k] = WithCop(Below[k], c)
                BY <3>4
            <4>2. m[k].cop = c
                BY <4>1 DEF WithCop
            <4>3. Below[k].obj \in Objects /\ Below[k].level \in 1 .. MaxLevel
                BY <1>4, PlaneFields
            <4> QED  BY <3>2, <4>1, <4>2, <4>3 DEF WithCop, PlaneSet
        <3>5. MergedPlane(m[k], Below[k])
            BY MergedIs DEF m, N
        <3> QED  BY <3>3, <3>4, <3>5 DEF MergedPlane
    <2>3. Below[k].level \in Nat
        BY <1>4, PlaneFields
    <2> QED  BY <1>1, <1>3, <2>1, <2>2, <2>3
<1>12. m \in Seq(PlaneSet) /\ Len(m) = N
    <2>1. [k \in 1 .. N |-> m[k]] \in [1 .. N -> PlaneSet]
        BY <1>11
    <2>2. m \in [1 .. N -> PlaneSet]
        BY <1>6, <2>1
    <2> QED  BY <1>3, <2>2
<1>13. new \in Seq(PlaneSet) /\ Joined(new, d, m)
    BY <1>7, <1>12, ConcatElem DEF d, m
<1>14. /\ Len(new) = Len(d) + N
       /\ \A k \in 1 .. Len(d) : new[k] = d[k]
       /\ \A k \in 1 .. N : new[Len(d) + k] = m[k]
    BY <1>12, <1>13 DEF Joined
<1>15. ASSUME NEW k \in 1 .. Len(new)
       PROVE  \/ k \in 1 .. Len(d) /\ new[k] = d[k]
              \/ ~(k <= Len(d)) /\ k - Len(d) \in 1 .. N /\ new[k] = m[k - Len(d)]
    <2>1. \/ k \in 1 .. Len(d)
          \/ ~(k <= Len(d)) /\ k - Len(d) \in 1 .. N /\ Len(d) + (k - Len(d)) = k
        BY <1>3, <1>7, <1>14
    <2> QED  BY <1>14, <2>1
<1>16. /\ \A k \in 1 .. Len(d) : k \in 1 .. Len(new)
       /\ \A k \in 1 .. N : Len(d) + k \in 1 .. Len(new)
    BY <1>3, <1>7, <1>14
<1>17. All(new) = {d[k] : k \in 1 .. Len(d)} \cup {m[k] : k \in 1 .. N}
    <2>1. ASSUME NEW x \in All(new)
          PROVE  x \in {d[k] : k \in 1 .. Len(d)} \cup {m[k] : k \in 1 .. N}
        BY <1>15 DEF All
    <2>2. ASSUME NEW k \in 1 .. Len(d)  PROVE d[k] \in All(new)
        BY <1>14, <1>16 DEF All
    <2>3. ASSUME NEW k \in 1 .. N  PROVE m[k] \in All(new)
        BY <1>14, <1>16 DEF All
    <2> QED  BY <2>1, <2>2, <2>3
<1>18. \A q \in All(new) : Descends(q, P, level)
    <2>1. \A k \in 1 .. Len(d) : Descends(d[k], P, level)
        BY <1>8 DEF Descends
    <2> QED  BY <1>5, <1>17, <2>1
<1>19. ASSUME NEW p \in P, p.level < level
       PROVE  \E q \in All(new) : Is(q, p.obj, p.level) /\ (p.level < level - 1 => q = p)
    <2>1. PICK k \in 1 .. N : p = Below[k]
        BY <1>1, <1>19, BelowIs DEF N
    <2>2. m[k] \in All(new)
        BY <1>17
    <2> QED  BY <1>5, <2>1, <2>2
<1>20. \A p \in P : p.level < level - 1 => p \in All(new)
    <2> TAKE p \in P
    <2> HAVE p.level < level - 1
    <2>1. p \in PlaneSet
        BY <1>2 DEF Keyed
    <2>2. p.level < level
        BY <1>1, <2>1, PlaneFields
    <2> QED  BY <1>19, <2>2
<1>21. ASSUME NEW p \in P, p.level >= level - 1
       PROVE  \E q \in All(new) : Is(q, p.obj, level - 1)
    <2>1. p \in PlaneSet /\ p.level <= level
        BY <1>2 DEF Keyed
    <2>2. p.level = level - 1 \/ p.level = level
        BY <1>1, <1>21, <2>1, PlaneFields
    <2>3. CASE \E r \in P : Is(r, p.obj, level - 1)
        BY <1>1, <1>19, <2>3 DEF Is
    <2>4. CASE \A r \in P : ~Is(r, p.obj, level - 1)
        <3>1. p.level = level
            BY <2>2, <2>4 DEF Is
        <3>2. PICK j \in 1 .. Len(Current) : p = Current[j]
            BY <1>1, <3>1, CurrentIs
        <3>3. ~HasPrevious(p.obj)
            BY <1>1, <2>4, PlanesOfIs DEF HasPrevious
        <3>4. PICK i \in 1 .. Len(d) : d[i] = Down(p)
            BY <1>10, <3>2, <3>3
        <3>5. d[i] \in All(new) /\ Is(d[i], p.obj, level - 1)
            BY <1>17, <2>1, <3>4, DownIs DEF Is
        <3> QED  BY <3>5
    <2> QED  BY <2>3, <2>4
<1>22. Explains(All(new), level - 1, Since(was, level - 1, Held(co)), co)
    BY <1>2, <1>18, <1>20, <1>21, CommitExplains
<1>23. \A k \in 1 .. N : m[k].level = Below[k].level /\ m[k].obj = Below[k].obj
                         /\ m[k].level \in Nat /\ m[k].level <= level - 1
    <2> TAKE k \in 1 .. N
    <2>1. m[k].level = Below[k].level /\ m[k].obj = Below[k].obj /\ Below[k].level \in Nat
        BY <1>4, <1>5, PlaneFields DEF Is
    <2> QED  BY <1>1, <1>3, <2>1
<1>24. ASSUME NEW k \in 1 .. Len(new)
       PROVE  new[k].level <= level - 1
    <2>1. CASE k \in 1 .. Len(d) /\ new[k] = d[k]
        BY <1>1, <1>8, <2>1
    <2>2. CASE k - Len(d) \in 1 .. N /\ new[k] = m[k - Len(d)]
        BY <1>23, <2>2
    <2> QED  BY <1>15, <2>1, <2>2
<1>25. ASSUME NEW j \in 1 .. Len(new), NEW k \in 1 .. Len(new), j < k
       PROVE  /\ new[j].level >= new[k].level
              /\ ~(new[j].obj = new[k].obj /\ new[j].level = new[k].level)
    <2>1. CASE k \in 1 .. Len(d) /\ new[k] = d[k]
        <3>1. j \in 1 .. Len(d) /\ j # k
            BY <1>7, <1>25, <2>1
        <3>2. new[j] = d[j]
            BY <1>14, <3>1
        <3> QED  BY <1>1, <1>8, <1>9, <2>1, <3>1, <3>2
    <2>2. CASE k - Len(d) \in 1 .. N /\ new[k] = m[k - Len(d)]
        <3> DEFINE b == k - Len(d)
        <3>1. new[k].level = Below[b].level /\ new[k].obj = Below[b].obj
              /\ new[k].level \in Nat /\ new[k].level <= level - 1 /\ b \in 1 .. N
            BY <1>23, <2>2
        <3>2. CASE j \in 1 .. Len(d) /\ new[j] = d[j]
            <4>1. new[j].level = level - 1 /\ \A p \in P : ~Is(p, new[j].obj, level - 1)
                BY <1>8, <3>2
            <4>2. Below[b] \in P
                BY <1>3, <3>1
            <4> QED  BY <1>1, <3>1, <4>1, <4>2 DEF Is
        <3>3. CASE j - Len(d) \in 1 .. N /\ new[j] = m[j - Len(d)]
            <4> DEFINE a == j - Len(d)
            <4>1. new[j].level = Below[a].level /\ new[j].obj = Below[a].obj /\ a \in 1 .. N
                BY <1>23, <3>3
            <4>2. a < b
                BY <1>7, <1>25
            <4> HIDE DEF a, b
            <4> QED  BY <1>1, <3>1, <4>1, <4>2, BelowIs DEF N
        <3> QED  BY <1>15, <3>2, <3>3
    <2> QED  BY <1>15, <2>1, <2>2
<1> QED  BY <1>13, <1>22, <1>24, <1>25 DEF Stack

---------------------------------------------------------------------------
(* All planes of a level.                                                  *)

(* Planes s of different objects make the difference between d and w.      *)
Layer(s, d, w) ==
    /\ d \in Entries /\ w \in Entries /\ Len(s) \in Nat
    /\ \A k \in 1 .. Len(s) : DOMAIN s[k].cop \subseteq Handles
    /\ \A k \in 1 .. Len(s) : \A h \in DOMAIN s[k].cop : << s[k].obj, h >> \in Callouts
    /\ \A j \in 1 .. Len(s), k \in 1 .. Len(s) : j # k => s[j].obj # s[k].obj
    /\ \A c \in Callouts : d[c] # w[c] =>
          \E k \in 1 .. Len(s) : s[k].obj = c[1] /\ c[2] \in DOMAIN s[k].cop

(* The callouts of the first k.                                            *)
Reached(s, k) == {c \in Callouts : \E j \in 1 .. k : s[j].obj = c[1]}

LEMMA ReachedNone ==
    ASSUME NEW s, NEW d \in Entries, NEW w
    PROVE  Mix(d, w, Reached(s, 0)) = d
<1>1. \A c \in Callouts : c \notin Reached(s, 0)
    BY DEF Reached
<1> QED  BY <1>1 DEF Mix, Entries

LEMMA ReachedAll ==
    ASSUME NEW s, NEW d, NEW w, Layer(s, d, w)
    PROVE  Mix(d, w, Reached(s, Len(s))) = w
<1>1. \A c \in Callouts : c \notin Reached(s, Len(s)) => d[c] = w[c]
    BY DEF Reached, Layer
<1>2. w \in Entries
    BY DEF Layer
<1>3. \A c \in Callouts : (IF c \in Reached(s, Len(s)) THEN w[c] ELSE d[c]) = w[c]
    BY <1>1
<1> QED  BY <1>2, <1>3 DEF Mix, Entries

LEMMA ReachedStep ==
    ASSUME NEW s, NEW d, NEW w, Layer(s, d, w), NEW k \in 1 .. Len(s),
           NEW b, b = Mix(d, w, Reached(s, k - 1))
    PROVE  /\ b \in Entries
           /\ Covers(s[k], b, w)
           /\ Mix(b, w, Of(s[k].obj)) = Mix(d, w, Reached(s, k))
           /\ \A c \in Callouts : c[1] = s[k].obj => b[c] = d[c]
<1>1. d \in Entries /\ w \in Entries /\ k \in Nat /\ k > 0 /\ Len(s) \in Nat
    BY DEF Layer
<1>2. b \in Entries
    BY <1>1, MixType
<1>3. ASSUME NEW c \in Callouts
      PROVE  /\ c \in Reached(s, k) <=> c \in Reached(s, k - 1) \/ c \in Of(s[k].obj)
             /\ c \in Of(s[k].obj) => c \notin Reached(s, k - 1)
    <2>1. \A j \in 1 .. k : j \in 1 .. k - 1 \/ j = k
        BY <1>1
    <2>2. \A j \in 1 .. k - 1 : j \in 1 .. k /\ j # k /\ j \in 1 .. Len(s)
        BY <1>1
    <2>3. k \in 1 .. k
        BY <1>1
    <2> QED  BY <2>1, <2>2, <2>3 DEF Reached, Of, Layer
<1> DEFINE S == Reached(s, k - 1)
           T == Reached(s, k)
           U == Of(s[k].obj)
<1>4. \A c \in Callouts : /\ c \in T <=> c \in S \/ c \in U
                          /\ c \in U => c \notin S
                          /\ c[1] = s[k].obj => c \in U
    BY <1>3 DEF Of
<1>5. b = Mix(d, w, S)
    OBVIOUS
<1> HIDE DEF S, T, U
<1>6. \A c \in Callouts : b[c] = IF c \in S THEN w[c] ELSE d[c]
    BY <1>5 DEF Mix
<1>7. \A c \in Callouts : (IF c \in U THEN w[c] ELSE b[c]) = IF c \in T THEN w[c] ELSE d[c]
    BY <1>4, <1>6
<1>8. Mix(b, w, U) = Mix(d, w, T)
    BY <1>7 DEF Mix
<1>9. \A c \in Callouts : c[1] = s[k].obj => b[c] = d[c]
    BY <1>4, <1>6
<1>10. ASSUME NEW c \in Callouts, c[1] = s[k].obj, c[2] \notin DOMAIN s[k].cop
       PROVE  d[c] = w[c]
    BY <1>10 DEF Layer
<1>11. Covers(s[k], b, w)
    BY <1>9, <1>10 DEF Covers, Layer
<1> QED  BY <1>2, <1>8, <1>9, <1>11 DEF S, T, U

(* d_commit_plane() of one plane of the first level.                       *)
LEMMA ApplyOne ==
    ASSUME NEW d, NEW w, NEW total \in Int, Layer(Current, d, w), NEW k \in 1 .. Len(Current),
           Leads(Current[k].cop, Current[k].obj, d, w),
           NEW x, Commits(x, Mix(d, w, Reached(Current, k - 1)), total)
    PROVE  Commits(ApplyPlane(x, Current[k]), Mix(d, w, Reached(Current, k)), total)
<1>1. PICK b : b = Mix(d, w, Reached(Current, k - 1))
    OBVIOUS
<1>2. PICK pl : pl = Current[k]
    OBVIOUS
<1>3. /\ b \in Entries /\ Covers(pl, b, w)
      /\ Mix(b, w, Of(pl.obj)) = Mix(d, w, Reached(Current, k))
      /\ \A c \in Callouts : c[1] = pl.obj => b[c] = d[c]
    BY <1>1, <1>2, ReachedStep
<1>4. ASSUME NEW h \in DOMAIN pl.cop
      PROVE  Fits(pl.cop[h], b[<< pl.obj, h >>], w[<< pl.obj, h >>])
    <2>1. PICK c : c = << pl.obj, h >>
        OBVIOUS
    <2>2. c \in Callouts /\ c[1] = pl.obj /\ Fits(pl.cop[h], d[c], w[c])
        BY <1>2, <2>1 DEF Leads
    <2> QED  BY <1>3, <2>1, <2>2
<1>5. w \in Entries
    BY DEF Layer
<1>6. Commits(x, b, total)
    BY <1>1
<1>7. Commits(ApplyPlane(x, pl), Mix(b, w, Of(pl.obj)), total)
    BY <1>3, <1>4, <1>5, <1>6, ApplyPlaneIs
<1> QED  BY <1>2, <1>3, <1>7

LEMMA AppliedIs ==
    ASSUME NEW d, NEW w, NEW total \in Int, Layer(Current, d, w),
           \A k \in 1 .. Len(Current) : Leads(Current[k].cop, Current[k].obj, d, w),
           Commits([tab |-> tab, n |-> ncallout], d, total)
    PROVE  Commits(Applied, w, total)
<1> DEFINE n == Len(Current)
           s == [tab |-> tab, n |-> ncallout]
           At(k) == Mix(d, w, Reached(Current, k))
           Step(x, k) == ApplyPlane(x, Current[k])
           M == [tab : Table, n : Int]
           I == {p \in M \X (0 .. n) : Commits(p[1], At(p[2]), total)}
           Op == [p \in I |-> Step(p[1], p[2] + 1)]
           F(f) == [k \in 0 .. n |-> IF k = 0 THEN s ELSE Step(f[k - 1], k)]
           after == CHOOSE f : f = F(f)
<1>1. n \in Nat /\ d \in Entries
    BY DEF Layer
<1>2. ASSUME NEW x, NEW b, Commits(x, b, total)
      PROVE  x \in M
    BY <1>2, CommitsType
<1>3. At(0) = d
    BY <1>1, ReachedNone
<1>4. Commits(s, d, total)
    OBVIOUS
<1>5. ASSUME NEW k \in 1 .. n, NEW x, Commits(x, At(k - 1), total)
      PROVE  Commits(Step(x, k), At(k), total)
    <2> HIDE DEF F, after, I, Op, M
    <2> QED  BY <1>5, ApplyOne
<1>11. Applied = after[n]
    BY DEF Applied, Step, n, s
<1> HIDE DEF At, M, Step, s
<1>16. << s, 0 >> \in I
    BY <1>1, <1>2, <1>3, <1>4
<1>6. \A k \in 1 .. n : \A x : << x, k - 1 >> \in I => Op[<< x, k - 1 >>] = Step(x, k)
    <2> TAKE k \in 1 .. n
    <2> TAKE x
    <2>1. (k - 1) + 1 = k
        BY <1>1
    <2> HIDE DEF I
    <2> QED  BY <2>1
<1>7. Closed(I, n, Op)
    <2> SUFFICES ASSUME NEW k \in 1 .. n, NEW x, << x, k - 1 >> \in I
                 PROVE  << Step(x, k), k >> \in I
        <3> HIDE DEF I
        <3> QED  BY <1>6 DEF Closed
    <2>1. Commits(Step(x, k), At(k), total)
        BY <1>5
    <2>2. k \in 0 .. n
        BY <1>1
    <2> QED  BY <1>2, <2>1, <2>2
<1> HIDE DEF Op
<1>8. PICK f : Walks(f, n, s, Op) /\ \A k \in 0 .. n : << f[k], k >> \in I
    <2> HIDE DEF I
    <2> QED  BY <1>1, <1>16, <1>7, WalkWithin
<1> HIDE DEF n
<1>9. f = F(f)
    <2>1. \A k \in 1 .. n : Op[<< f[k - 1], k - 1 >>] = Step(f[k - 1], k)
        <3> TAKE k \in 1 .. n
        <3>1. << f[k - 1], k - 1 >> \in I
            BY <1>1, <1>8
        <3> QED  BY <1>6, <3>1
    <2> HIDE DEF I
    <2>2. /\ f = [k \in 0 .. n |-> f[k]]
          /\ \A k \in 0 .. n : f[k] = IF k = 0 THEN s ELSE Op[<< f[k - 1], k - 1 >>]
        BY <1>8 DEF Walks
    <2>3. \A k \in 0 .. n : f[k] = IF k = 0 THEN s ELSE Step(f[k - 1], k)
        <3> TAKE k \in 0 .. n
        <3>1. k # 0 => k \in 1 .. n
            BY <1>1
        <3> QED  BY <2>1, <2>2, <3>1
    <2> QED  BY <2>2, <2>3
<1>10. after = F(after)
    <2> HIDE DEF F
    <2> QED  BY <1>9
<1> HIDE DEF after
<1> DEFINE S == {k \in 0 .. n : after[k] = f[k]}
<1>12. 0 \in S
    BY <1>1, <1>9, <1>10
<1>13. ASSUME NEW k \in 1 .. n, k - 1 \in S
       PROVE  k \in S
    BY <1>1, <1>9, <1>10, <1>13
<1> HIDE DEF S
<1>14. \A k \in 0 .. n : k \in S
    BY <1>1, <1>12, <1>13, StepByStep
<1>15. after[n] = f[n] /\ << f[n], n >> \in I
    BY <1>1, <1>8, <1>14 DEF S
<1>17. Commits(f[n], At(n), total)
    BY <1>15
<1> QED  BY <1>11, <1>15, <1>17, ReachedAll DEF At, n

(* d_discard_plane() of one plane.                                         *)
LEMMA UndoOne ==
    ASSUME NEW d, NEW w, NEW total \in Int, Layer(Current, d, w), NEW k \in 1 .. Len(Current),
           Leads(Current[k].cop, Current[k].obj, w, d), Current[k].obj \in Objects,
           \A h \in DOMAIN Current[k].cop : h \in 1 .. Len(callouts[Current[k].obj]),
           NEW x, Undoes(x, Mix(d, w, Reached(Current, k - 1)), total), Keeps(x.co, callouts),
           NEW y, y = UndoPlane(x, Current[k])
    PROVE  Undoes(y, Mix(d, w, Reached(Current, k)), total) /\ Keeps(y.co, callouts)
<1>1. PICK b : b = Mix(d, w, Reached(Current, k - 1))
    OBVIOUS
<1>2. PICK pl : pl = Current[k]
    OBVIOUS
<1>3. /\ b \in Entries /\ Covers(pl, b, w)
      /\ Mix(b, w, Of(pl.obj)) = Mix(d, w, Reached(Current, k))
      /\ \A c \in Callouts : c[1] = pl.obj => b[c] = d[c]
    BY <1>1, <1>2, ReachedStep
<1>4. ASSUME NEW h \in DOMAIN pl.cop
      PROVE  /\ h \in 1 .. Len(x.co[pl.obj])
             /\ Fits(pl.cop[h], w[<< pl.obj, h >>], b[<< pl.obj, h >>])
    <2>1. PICK c : c = << pl.obj, h >>
        OBVIOUS
    <2>2. c \in Callouts /\ c[1] = pl.obj /\ Fits(pl.cop[h], w[c], d[c])
        BY <1>2, <2>1 DEF Leads
    <2>3. h \in 1 .. Len(x.co[pl.obj])
        BY <1>2 DEF Keeps
    <2> QED  BY <1>3, <2>1, <2>2, <2>3
<1>5. w \in Entries
    BY DEF Layer
<1>6. Undoes(x, b, total)
    BY <1>1
<1>7. /\ Undoes(UndoPlane(x, pl), Mix(b, w, Of(pl.obj)), total)
      /\ Keeps(UndoPlane(x, pl).co, x.co)
    BY <1>3, <1>4, <1>5, <1>6, UndoPlaneIs
<1>8. Keeps(UndoPlane(x, pl).co, callouts)
    BY <1>7 DEF Keeps
<1> QED  BY <1>2, <1>3, <1>7, <1>8

LEMMA UndoneIs ==
    ASSUME NEW d, NEW w, NEW total \in Int, Layer(Current, d, w),
           \A k \in 1 .. Len(Current) :
              /\ Leads(Current[k].cop, Current[k].obj, w, d)
              /\ \A h \in DOMAIN Current[k].cop : h \in 1 .. Len(callouts[Current[k].obj])
              /\ Current[k].obj \in Objects,
           Undoes([co |-> callouts, free |-> fcallouts, n |-> ncallout], d, total)
    PROVE  Undoes(Undone, w, total) /\ Keeps(Undone.co, callouts)
<1> DEFINE n == Len(Current)
           s == [co |-> callouts, free |-> fcallouts, n |-> ncallout]
           At(k) == Mix(d, w, Reached(Current, k))
           Step(x, k) == UndoPlane(x, Current[k])
           M == [co : [Objects -> Seq(Entry)], free : [Objects -> Seq(Handles)], n : Int]
           I == {p \in M \X (0 .. n) : Undoes(p[1], At(p[2]), total) /\ Keeps(p[1].co, callouts)}
           Op == [p \in I |-> Step(p[1], p[2] + 1)]
           F(f) == [k \in 0 .. n |-> IF k = 0 THEN s ELSE Step(f[k - 1], k)]
           after == CHOOSE f : f = F(f)
<1>1. n \in Nat /\ d \in Entries
    BY DEF Layer
<1>2. ASSUME NEW x, NEW b, Undoes(x, b, total)
      PROVE  x \in M
    BY <1>2, UndoesType
<1>3. At(0) = d
    BY <1>1, ReachedNone
<1>4. Undoes(s, d, total) /\ Keeps(s.co, callouts)
    BY DEF Keeps
<1>5. ASSUME NEW k \in 1 .. n, NEW x, Undoes(x, At(k - 1), total),
             Keeps(x.co, callouts)
      PROVE  Undoes(Step(x, k), At(k), total) /\ Keeps(Step(x, k).co, callouts)
    <2> HIDE DEF F, after, I, Op, M
    <2> QED  BY <1>5, UndoOne
<1>11. Undone = after[n]
    BY DEF Undone, Step, n, s
<1> HIDE DEF At, M, Step, s
<1>16. << s, 0 >> \in I
    BY <1>1, <1>2, <1>3, <1>4
<1>6. \A k \in 1 .. n : \A x : << x, k - 1 >> \in I => Op[<< x, k - 1 >>] = Step(x, k)
    <2> TAKE k \in 1 .. n
    <2> TAKE x
    <2>1. (k - 1) + 1 = k
        BY <1>1
    <2> HIDE DEF I
    <2> QED  BY <2>1
<1>7. Closed(I, n, Op)
    <2> SUFFICES ASSUME NEW k \in 1 .. n, NEW x, << x, k - 1 >> \in I
                 PROVE  << Step(x, k), k >> \in I
        <3> HIDE DEF I
        <3> QED  BY <1>6 DEF Closed
    <2>1. Undoes(Step(x, k), At(k), total) /\ Keeps(Step(x, k).co, callouts)
        BY <1>5
    <2>2. k \in 0 .. n
        BY <1>1
    <2> QED  BY <1>2, <2>1, <2>2
<1> HIDE DEF Op
<1>8. PICK f : Walks(f, n, s, Op) /\ \A k \in 0 .. n : << f[k], k >> \in I
    <2> HIDE DEF I
    <2> QED  BY <1>1, <1>16, <1>7, WalkWithin
<1> HIDE DEF n
<1>9. f = F(f)
    <2>1. \A k \in 1 .. n : Op[<< f[k - 1], k - 1 >>] = Step(f[k - 1], k)
        <3> TAKE k \in 1 .. n
        <3>1. << f[k - 1], k - 1 >> \in I
            BY <1>1, <1>8
        <3> QED  BY <1>6, <3>1
    <2> HIDE DEF I
    <2>2. /\ f = [k \in 0 .. n |-> f[k]]
          /\ \A k \in 0 .. n : f[k] = IF k = 0 THEN s ELSE Op[<< f[k - 1], k - 1 >>]
        BY <1>8 DEF Walks
    <2>3. \A k \in 0 .. n : f[k] = IF k = 0 THEN s ELSE Step(f[k - 1], k)
        <3> TAKE k \in 0 .. n
        <3>1. k # 0 => k \in 1 .. n
            BY <1>1
        <3> QED  BY <2>1, <2>2, <3>1
    <2> QED  BY <2>2, <2>3
<1>10. after = F(after)
    <2> HIDE DEF F
    <2> QED  BY <1>9
<1> HIDE DEF after
<1> DEFINE S == {k \in 0 .. n : after[k] = f[k]}
<1>12. 0 \in S
    BY <1>1, <1>9, <1>10
<1>13. ASSUME NEW k \in 1 .. n, k - 1 \in S
       PROVE  k \in S
    BY <1>1, <1>9, <1>10, <1>13
<1> HIDE DEF S
<1>14. \A k \in 0 .. n : k \in S
    BY <1>1, <1>12, <1>13, StepByStep
<1>15. after[n] = f[n] /\ << f[n], n >> \in I
    BY <1>1, <1>8, <1>14 DEF S
<1>17. Undoes(f[n], At(n), total) /\ Keeps(f[n].co, callouts)
    BY <1>15
<1> QED  BY <1>11, <1>15, <1>17, ReachedAll DEF At, n

LEMMA CurrentLayer ==
    ASSUME level \in 1 .. MaxLevel, Stack(plist, level), NEW was, NEW co,
           Explains(All(plist), level, was, co)
    PROVE  /\ Layer(Current, was[level], was[level + 1])
           /\ Layer(Current, was[level + 1], was[level])
           /\ \A k \in 1 .. Len(Current) :
                 /\ Leads(Current[k].cop, Current[k].obj, was[level], was[level + 1])
                 /\ \A h \in DOMAIN Current[k].cop : h \in 1 .. Len(co[Current[k].obj])
                 /\ Current[k].obj \in Objects
<1>1. /\ level \in Nat /\ level \in 0 .. MaxLevel /\ level \in 1 .. level
      /\ level \in Levels /\ level + 1 \in Levels
    BY LevelIs, Constants
<1>2. was[level] \in Entries /\ was[level + 1] \in Entries
    BY <1>1 DEF Explains
<1>3. Keyed(All(plist), level)
    BY <1>1, StackIs DEF Keyed
<1>4. /\ Len(Current) \in Nat
      /\ \A k \in 1 .. Len(Current) : /\ Current[k] \in All(plist) /\ Current[k].level = level
                                       /\ Current[k] \in PlaneSet
      /\ \A j \in 1 .. Len(Current), k \in 1 .. Len(Current) :
            j # k => Current[j].obj # Current[k].obj
      /\ \A p \in All(plist) : p.level = level => \E k \in 1 .. Len(Current) : p = Current[k]
    BY <1>1, CurrentIs
<1>5. \A k \in 1 .. Len(Current) :
          /\ Leads(Current[k].cop, Current[k].obj, was[level], was[level + 1])
          /\ \A h \in DOMAIN Current[k].cop : h \in 1 .. Len(co[Current[k].obj])
          /\ Current[k].obj \in Objects /\ Current[k].cop \in Cops
    BY <1>1, <1>3, <1>4, PlaneLeads, PlaneFields
<1>6. \A k \in 1 .. Len(Current) : DOMAIN Current[k].cop \subseteq Handles
    BY <1>5, CopsIs
<1>7. \A k \in 1 .. Len(Current) : \A h \in DOMAIN Current[k].cop :
          << Current[k].obj, h >> \in Callouts
    BY <1>5 DEF Leads
<1>8. ASSUME NEW c \in Callouts, was[level][c] # was[level + 1][c]
      PROVE  \E k \in 1 .. Len(Current) :
                 Current[k].obj = c[1] /\ c[2] \in DOMAIN Current[k].cop
    <2>1. Patched(All(plist), c, level)
        BY <1>1, <1>8 DEF Explains
    <2>2. PICK p \in All(plist) : p.obj = c[1] /\ p.level = level /\ c[2] \in DOMAIN p.cop
        BY <2>1 DEF Patched
    <2> QED  BY <1>4, <2>2
<1>9. Layer(Current, was[level], was[level + 1])
    BY <1>2, <1>4, <1>6, <1>7, <1>8 DEF Layer
<1>10. Layer(Current, was[level + 1], was[level])
    BY <1>2, <1>4, <1>6, <1>7, <1>8 DEF Layer
<1> QED  BY <1>5, <1>9, <1>10

---------------------------------------------------------------------------
(* The state of atomic code.                                               *)

(* The history "was" explains the planes pl of level lev and below, the    *)
(* dataspaces, the table tb and the difference n of their numbers.         *)
Explained(was, lev, pl, co, free, tb, n) ==
    /\ lev \in 0 .. MaxLevel
    /\ Stack(pl, lev)
    /\ Spaces(co, free)
    /\ Explains(All(pl), lev, was, co)
    /\ Shows(tb, was[1])
    /\ n = Uindex(Count(Held(co)) - Count(was[1]))

LEMMA FirstIs ==
    ASSUME NEW was, NEW lev, NEW pl, NEW co, NEW free, NEW tb, NEW n,
           Explained(was, lev, pl, co, free, tb, n)
    PROVE  /\ 1 \in Levels /\ was[1] \in Entries /\ Held(co) \in Entries /\ lev \in Nat
           /\ lev = 0 => was[1] = Held(co) /\ All(pl) = {} /\ pl = << >>
           /\ MaxLevel + 1 \in Levels
           /\ lev < MaxLevel + 1
<1>1. 1 \in Levels /\ MaxLevel + 1 \in Levels /\ lev \in Nat /\ lev < MaxLevel + 1
    BY Constants DEF Levels, Explained
<1>2. was[1] \in Entries /\ Held(co) \in Entries
    BY <1>1, HeldType DEF Explained, Explains
<1>3. ASSUME lev = 0
      PROVE  was[1] = Held(co) /\ All(pl) = {} /\ pl = << >>
    <2>1. was[1] = Held(co)
        BY <1>1, <1>3 DEF Explained, Explains
    <2>2. Stack(pl, lev)
        BY DEF Explained
    <2>3. All(pl) = {}
        <3> SUFFICES ASSUME NEW p \in All(pl)  PROVE FALSE
            OBVIOUS
        <3>1. p \in PlaneSet /\ p.level <= 0
            BY <1>1, <1>3, <2>2, StackIs
        <3> QED  BY <3>1, PlaneFields
    <2>4. pl \in Seq(PlaneSet) /\ Len(pl) \in Nat
        BY <1>1, <2>2, StackIs DEF Stack
    <2>5. Len(pl) = 0
        <3>1. ~(1 \in 1 .. Len(pl))
            BY <2>3 DEF All
        <3> QED  BY <2>4, <3>1
    <2>6. pl = << >>
        BY <2>4, <2>5
    <2> QED  BY <2>1, <2>3, <2>6
<1> QED  BY <1>1, <1>2, <1>3

LEMMA NoDifference ==
    ASSUME NEW d
    PROVE  Uindex(Count(d) - Count(d)) = 0
<1>1. Count(d) - Count(d) = 0
    <2>1. Count(d) \in Nat
        BY CountType
    <2> HIDE DEF Count
    <2> QED  BY <2>1
<1>2. Uindex(0) = 0
    BY DEF Uindex, UindexRange
<1> QED  BY <1>1, <1>2

(* Outside of atomic code all is as the dataspaces have it.                *)
LEMMA Outside ==
    ASSUME NEW was \in [Levels -> Entries], NEW pl, pl = << >>, NEW co, NEW free,
           Spaces(co, free), NEW tb, Shows(tb, Held(co)), NEW n, n = 0
    PROVE  Explained(Since(was, 0, Held(co)), 0, pl, co, free, tb, n)
<1> DEFINE now == Since(was, 0, Held(co))
<1>1. 1 \in Levels /\ \A l \in Levels : l > 0 /\ MaxLevel \in Nat /\ 0 \in Int
    BY Constants DEF Levels
<1>2. Held(co) \in Entries
    BY HeldType
<1>3. now \in [Levels -> Entries] /\ \A l \in Levels : now[l] = Held(co)
    BY <1>1, <1>2, SinceIs
<1> HIDE DEF now
<1>4. pl \in Seq(PlaneSet) /\ Len(pl) = 0 /\ All(pl) = {}
    BY DEF All
<1>5. Stack(pl, 0)
    BY <1>4 DEF Stack
<1>6. Explains(All(pl), 0, now, co)
    BY <1>1, <1>3, <1>4 DEF Explains
<1>7. n = Uindex(Count(Held(co)) - Count(now[1])) /\ Shows(tb, now[1])
    BY <1>1, <1>3, NoDifference
<1>8. 0 \in 0 .. MaxLevel
    BY Constants
<1> QED  BY <1>5, <1>6, <1>7, <1>8 DEF Explained, now

(* The plane of the object that runs.                                      *)
LEMMA WithPlaneIs ==
    ASSUME level \in 1 .. MaxLevel, Stack(plist, level), NEW was, NEW co,
           Explains(All(plist), level, was, co), NEW o \in Objects,
           NEW ps, ps = WithPlane(o), NEW k, k = Top(ps, o)
    PROVE  /\ Stack(ps, level) /\ Explains(All(ps), level, was, co)
           /\ k \in 1 .. Len(ps) /\ ps[k].obj = o /\ ps[k].level = level
<1>1. level \in Nat /\ level # 0
    BY Constants
<1>2. /\ Stack(ps, level) /\ Explains(All(ps), level, was, co)
      /\ \E q \in All(ps) : Is(q, o, level)
    <2>1. CASE PlanesOf(o, level) # {}
        <3>1. ps = plist
            BY <1>1, <2>1 DEF WithPlane
        <3>2. \E q \in All(plist) : Is(q, o, level)
            BY <1>1, <2>1, PlanesOfIs
        <3> QED  BY <3>1, <3>2
    <2>2. CASE PlanesOf(o, level) = {}
        <3> DEFINE p == [obj |-> o, level |-> level, cop |-> << >>]
        <3>1. ps = << p >> \o plist
            BY <1>1, <2>2 DEF WithPlane
        <3>2. p \in PlaneSet
            BY CopsIs DEF PlaneSet
        <3>3. p.obj = o /\ p.level = level /\ p.cop = << >>
            OBVIOUS
        <3> HIDE DEF p
        <3>4. \A q \in All(plist) : ~(q.obj = p.obj /\ q.level = p.level)
            BY <1>1, <2>2, <3>3, PlanesOfIs DEF Is
        <3>5. p.level \in {level, level + 1}
            BY <3>3
        <3>6. Stack(ps, level) /\ All(ps) = {p} \cup All(plist)
            BY <1>1, <3>1, <3>2, <3>3, <3>4, <3>5, PushStack
        <3>7. Explains({p} \cup All(plist), level, was, co)
            BY <1>1, <3>2, <3>3, <3>5, PushExplains
        <3> QED  BY <3>3, <3>6, <3>7 DEF Is
    <2> QED  BY <2>1, <2>2
<1>3. Len(ps) \in Nat /\ DOMAIN ps = 1 .. Len(ps)
    BY <1>1, <1>2, StackIs
<1>4. PICK j \in 1 .. Len(ps) : Is(ps[j], o, level)
    BY <1>2 DEF All
<1> DEFINE S == {i \in 1 .. Len(ps) : ps[i].obj = o}
           P(i) == ps[i].obj = o /\ \A x \in DOMAIN ps : ps[x].obj = o => i <= x
<1>5. S \in SUBSET Int /\ S # {} /\ 1 \in Int /\ \A x \in S : x >= 1
    BY <1>3, <1>4 DEF Is
<1>6. PICK i \in S : \A x \in S : i <= x
    <2> HIDE DEF S
    <2> QED  BY <1>5, LeastExists
<1>7. k \in DOMAIN ps /\ P(k)
    <2>1. k = CHOOSE x \in DOMAIN ps : P(x)
        BY DEF Top
    <2>2. i \in DOMAIN ps /\ P(i)
        BY <1>3, <1>6
    <2> HIDE DEF P
    <2> QED  BY <2>1, <2>2
<1>8. k \in 1 .. Len(ps) /\ ps[k].obj = o /\ k <= j
    BY <1>3, <1>4, <1>7 DEF Is
<1>9. ps[k].level = level
    <2>1. k = j \/ k < j
        BY <1>3, <1>8
    <2>2. ps[k].level >= ps[j].level \/ k = j
        BY <1>2, <1>8, <2>1 DEF Stack
    <2>3. ps[k].level <= level /\ ps[k] \in PlaneSet
        BY <1>1, <1>2, <1>8, StackIs DEF Stack
    <2>4. ps[k].level \in Nat
        BY <2>3, PlaneFields
    <2> QED  BY <1>1, <1>4, <2>2, <2>3, <2>4 DEF Is
<1> QED  BY <1>2, <1>8, <1>9

(* A callout becomes e within atomic code, and has the patches cop then.   *)
Replaces(cop, old, h) ==
    /\ cop \in Cops
    /\ \A x : x # h => (x \in DOMAIN cop <=> x \in DOMAIN old)
    /\ \A x \in DOMAIN cop : x # h => cop[x] = old[x]

LEMMA PatchStep ==
    ASSUME level \in 1 .. MaxLevel, NEW was,
           Explained(was, level, plist, callouts, fcallouts, tab, ncallout),
           NEW o \in Objects, NEW h, NEW c \in Callouts, c[1] = o, c[2] = h, NEW e \in Entry,
           NEW nc, NEW nf, Spaces(nc, nf), Held(nc) = Put(Held(callouts), c, e),
           Keeps(nc, callouts), h \in 1 .. Len(nc[o]),
           NEW ps, ps = WithPlane(o), NEW k, k = Top(ps, o),
           NEW cop, Replaces(cop, ps[k].cop, h),
           h \in DOMAIN cop => Fits(cop[h], was[level][c], e),
           h \notin DOMAIN cop => was[level][c] = e,
           NEW new, SetsCop(new, ps, k, cop),
           NEW n, n = Uindex(Count(Held(nc)) - Count(was[1]))
    PROVE  Explained(Since(was, level, Held(nc)), level, new, nc, nf, tab, n)
<1> DEFINE now == Since(was, level, Held(nc))
<1>1. /\ Stack(plist, level) /\ Explains(All(plist), level, was, callouts)
      /\ Shows(tab, was[1]) /\ level \in 0 .. MaxLevel /\ level \in Nat
    BY Constants DEF Explained
<1>2. /\ Stack(ps, level) /\ Explains(All(ps), level, was, callouts)
      /\ k \in 1 .. Len(ps) /\ ps[k].obj = o /\ ps[k].level = level
    BY <1>1, WithPlaneIs
<1>3. cop \in Cops
    BY DEF Replaces
<1>4. PICK q : q = WithCop(ps[k], cop)
    OBVIOUS
<1>5. Stack(new, level) /\ All(new) = {q} \cup {p \in All(ps) : p # ps[k]}
    BY <1>1, <1>2, <1>3, <1>4, PatchStack
<1>6. Keyed(All(ps), level) /\ ps[k] \in All(ps)
    BY <1>1, <1>2, StackIs DEF Keyed
<1>7. PICK p : p = ps[k]
    OBVIOUS
<1>8. Explains({q} \cup {x \in All(ps) : x # p}, level, now, nc)
    <2>1. Held(nc) \in Entries
        BY HeldType
    <2>2. /\ \A x : x # h => (x \in DOMAIN cop <=> x \in DOMAIN p.cop)
          /\ \A x \in DOMAIN cop : x # h => cop[x] = p.cop[x]
        BY <1>7 DEF Replaces
    <2>3. /\ p \in All(ps) /\ p.level = level /\ c[1] = p.obj /\ h \in 1 .. Len(nc[p.obj])
          /\ q = WithCop(p, cop)
        BY <1>2, <1>4, <1>6, <1>7
    <2> QED  BY <1>2, <1>3, <1>6, <2>1, <2>2, <2>3, PatchExplains
<1>9. now[1] = was[1]
    <2>1. 1 \in Levels /\ 1 <= level /\ level \in Int
        BY <1>1, Constants DEF Levels
    <2> QED  BY <2>1 DEF Since
<1>10. n = Uindex(Count(Held(nc)) - Count(now[1])) /\ Shows(tab, now[1])
    BY <1>1, <1>9
<1> HIDE DEF now
<1>11. Explained(now, level, new, nc, nf, tab, n)
    BY <1>1, <1>5, <1>7, <1>8, <1>10 DEF Explained
<1> QED  BY <1>11 DEF now

LEMMA WithReplaces ==
    ASSUME NEW old \in Cops, NEW h \in Handles, NEW p \in Patch, NEW cop,
           \/ cop = With(old, h, p)
           \/ h \in DOMAIN old /\ cop = [old EXCEPT ![h] = p]
    PROVE  Replaces(cop, old, h) /\ h \in DOMAIN cop /\ cop[h] = p
<1>1. /\ DOMAIN old \subseteq Handles /\ old = [x \in DOMAIN old |-> old[x]]
      /\ \A x \in DOMAIN old : old[x] \in Patch
    BY CopsIs
<1> DEFINE D == DOMAIN old \cup {h}
<1>2. /\ cop = [x \in D |-> cop[x]] /\ DOMAIN cop = D
      /\ cop[h] = p /\ \A x \in D : x # h => cop[x] = old[x]
    <2>1. CASE cop = With(old, h, p)
        BY <2>1 DEF With
    <2>2. CASE h \in DOMAIN old /\ cop = [old EXCEPT ![h] = p]
        BY <1>1, <2>2
    <2> QED  BY <2>1, <2>2
<1>3. D \in SUBSET Handles /\ \A x \in D : cop[x] \in Patch
    BY <1>1, <1>2
<1>4. cop \in Cops
    <2> HIDE DEF D
    <2>1. [x \in D |-> cop[x]] \in Cops
        BY <1>3, CopsIs
    <2> QED  BY <1>2, <2>1
<1>5. \A x : x # h => (x \in DOMAIN cop <=> x \in DOMAIN old)
    BY <1>2
<1>6. h \in DOMAIN cop /\ \A x \in DOMAIN cop : x # h => cop[x] = old[x]
    BY <1>2
<1> QED  BY <1>2, <1>4, <1>5, <1>6 DEF Replaces

LEMMA WithoutReplaces ==
    ASSUME NEW old \in Cops, NEW h, NEW cop, cop = Without(old, h)
    PROVE  Replaces(cop, old, h) /\ h \notin DOMAIN cop
<1>1. DOMAIN old \subseteq Handles /\ \A x \in DOMAIN old : old[x] \in Patch
    BY CopsIs
<1> DEFINE D == DOMAIN old \ {h}
<1>2. cop = [x \in D |-> old[x]]
    BY DEF Without
<1>3. D \in SUBSET Handles /\ \A x \in D : old[x] \in Patch
    BY <1>1
<1>4. cop \in Cops
    <2> HIDE DEF D
    <2> QED  BY <1>2, <1>3, CopsIs
<1> QED  BY <1>2, <1>4 DEF Replaces

---------------------------------------------------------------------------
(* The operations.                                                         *)

Known(was) == Explained(was, level, plist, callouts, fcallouts, tab, ncallout)
KnownNext(was) == Explained(was, level', plist', callouts', fcallouts', tab', ncallout')

(* A single callout changes, in the dataspaces and in the table unless     *)
(* this is in atomic code.                                                 *)
Changes ==
    /\ \E c \in Callouts, e \in Entry : Held(callouts') = Put(Held(callouts), c, e)
    /\ level' = level
    /\ level > 0 => tab' = tab

LEMMA TableAlone ==
    ASSUME NEW was, Known(was), level = 0, level' = 0,
           Spaces(callouts', fcallouts'), Shows(tab', Held(callouts')),
           plist' = plist, ncallout' = ncallout
    PROVE  KnownNext(Since(was, level, Held(callouts')))
<1>1. Explained(was, level, plist, callouts, fcallouts, tab, ncallout)
    BY DEF Known
<1>2. was[1] = Held(callouts) /\ plist = << >> /\ was \in [Levels -> Entries]
    <2>1. was[1] = Held(callouts) /\ plist = << >>
        BY <1>1, FirstIs
    <2> QED  BY <1>1, <2>1 DEF Explained, Explains
<1>3. ncallout = 0
    BY <1>1, <1>2, NoDifference DEF Explained
<1>4. Explained(Since(was, 0, Held(callouts')), 0, plist', callouts', fcallouts', tab', ncallout')
    BY <1>2, <1>3, Outside
<1> QED  BY <1>4 DEF KnownNext

LEMMA FitsAdd ==
    ASSUME NEW e \in Entry, e # Free, NEW p,
           p = [type |-> "ADD", aco |-> e, rco |-> Free,
                t |-> e.t, m |-> NoMsec, q |-> PlaceOf(e.t)]
    PROVE  Fits(p, Free, e)
<1>1. e.t \in Nat
    BY EntryIs
<1>2. PlaceOf(e.t) \in Lists \cup {Queue}
    BY <1>1, PlaceIs DEF Lists
<1>3. Free \in Dcallout \cup {Free} /\ e \in Dcallout \cup {Free} /\ NoMsec \in Msecs \cup {NoMsec}
    BY EntryDcallout
<1> HIDE DEF Free, Queue, NoMsec, Msecs, Lists, Dcallout, PlaceOf
<1>4. p \in Patch
    BY <1>1, <1>2, <1>3 DEF Patch
<1> QED  BY <1>4 DEF Fits

LEMMA FitsRemove ==
    ASSUME NEW r \in Entry, r # Free, NEW p,
           p = [type |-> "REMOVE", aco |-> Free, rco |-> r, t |-> 0, m |-> 0, q |-> Queue]
    PROVE  Fits(p, r, Free)
<1>1. Free \in Dcallout \cup {Free} /\ r \in Dcallout \cup {Free}
    BY EntryDcallout
<1>2. 0 \in Msecs \cup {NoMsec} /\ Queue \in Lists \cup {Queue}
    BY Constants DEF Msecs
<1> HIDE DEF Free, Queue, NoMsec, Msecs, Lists, Dcallout
<1>3. p \in Patch
    BY <1>1, <1>2 DEF Patch
<1> QED  BY <1>3 DEF Fits

LEMMA ReplacedRecord ==
    ASSUME NEW A, NEW B, NEW C, NEW D, NEW E, NEW F,
           NEW p \in [type : A, aco : B, rco : C, t : D, m : E, q : F],
           NEW a \in A, NEW b \in B, NEW d \in D, NEW e \in E, NEW f \in F,
           NEW r, r = [p EXCEPT !.type = a, !.aco = b, !.t = d, !.m = e, !.q = f]
    PROVE  /\ r \in [type : A, aco : B, rco : C, t : D, m : E, q : F]
           /\ r.type = a /\ r.aco = b /\ r.rco = p.rco /\ r.t = d /\ r.m = e /\ r.q = f
OBVIOUS

LEMMA FitsReplace ==
    ASSUME NEW p, NEW r \in Entry, Fits(p, r, Free), NEW e \in Entry, e # Free, NEW x,
           x = [p EXCEPT !.type = "REPLACE", !.aco = e,
                         !.t = e.t, !.m = NoMsec, !.q = PlaceOf(e.t)]
    PROVE  Fits(x, r, e)
<1>1. e.t \in Nat
    BY EntryIs
<1>2. PlaceOf(e.t) \in Lists \cup {Queue}
    BY <1>1, PlaceIs DEF Lists
<1>3. e \in Dcallout \cup {Free} /\ NoMsec \in Msecs \cup {NoMsec}
    BY EntryDcallout
<1>4. p \in Patch /\ p.rco = r /\ r # Free
    BY DEF Fits
<1>5. "REPLACE" \in {"ADD", "REMOVE", "REPLACE"}
    OBVIOUS
<1> HIDE DEF Free, Queue, NoMsec, Msecs, Lists, Dcallout, PlaceOf
<1>6. /\ x \in Patch /\ x.type = "REPLACE" /\ x.aco = e /\ x.rco = r
      /\ x.t = e.t /\ x.m = NoMsec /\ x.q = PlaceOf(e.t)
    BY <1>1, <1>2, <1>3, <1>4, <1>5, ReplacedRecord DEF Patch
<1> QED  BY <1>4, <1>6 DEF Fits

(* What the plane of the object that runs knows of a callout.              *)
LEMMA PlaneKnows ==
    ASSUME level \in 1 .. MaxLevel, NEW was, Known(was), NEW o \in Objects,
           NEW c \in Callouts, c[1] = o, NEW ps, ps = WithPlane(o), NEW k, k = Top(ps, o)
    PROVE  /\ was[level] \in Entries /\ ps[k].cop \in Cops
           /\ DOMAIN ps = 1 .. Len(ps) /\ k \in 1 .. Len(ps)
           /\ IF c[2] \in DOMAIN ps[k].cop
              THEN Fits(ps[k].cop[c[2]], was[level][c], Held(callouts)[c])
              ELSE was[level][c] = Held(callouts)[c]
<1>1. /\ Stack(plist, level) /\ Explains(All(plist), level, was, callouts)
      /\ level \in Nat /\ level \in 0 .. MaxLevel
    BY Constants DEF Known, Explained
<1>2. /\ Stack(ps, level) /\ Explains(All(ps), level, was, callouts)
      /\ k \in 1 .. Len(ps) /\ ps[k].obj = o /\ ps[k].level = level
    BY <1>1, WithPlaneIs
<1>3. level \in Levels /\ level + 1 \in Levels /\ level + 1 > level
    BY LevelIs
<1>4. was[level] \in Entries /\ was[level + 1] = Held(callouts)
    BY <1>1, <1>3 DEF Explains
<1>5. Keyed(All(ps), level) /\ ps[k] \in All(ps) /\ DOMAIN ps = 1 .. Len(ps)
    BY <1>1, <1>2, StackIs DEF Keyed
<1>6. Leads(ps[k].cop, o, was[level], Held(callouts)) /\ ps[k].cop \in Cops
    BY <1>1, <1>2, <1>4, <1>5, PlaneLeads
<1>7. c = << o, c[2] >>
    BY CalloutIs
<1> QED  BY <1>2, <1>4, <1>5, <1>6, <1>7 DEF Leads

(* d_new_call_out()                                                        *)
LEMMA NewStep ==
    ASSUME NEW was, Known(was), NEW o \in Objects, NEW v \in Vals, NEW delay \in Delays,
           NewCallOut(o, v, delay, NoMsec)
    PROVE  KnownNext(Since(was, level, Held(callouts'))) /\ Changes
<1> DEFINE due == Due(tab, [t |-> tab.timestamp, m |-> 0], delay, NoMsec)
           h == NewHandle(Data(o))
           e == [t |-> due.t, m |-> due.m, val |-> v]
           ps == WithPlane(o)
           k == Top(ps, o)
           patch == IF h \in DOMAIN ps[k].cop
                    THEN [ps[k].cop[h] EXCEPT !.type = "REPLACE", !.aco = e,
                                              !.t = due.t, !.m = due.m, !.q = due.q]
                    ELSE [type |-> "ADD", aco |-> e, rco |-> Free,
                          t |-> due.t, m |-> due.m, q |-> due.q]
           c == << o, h >>
           u == AllocCallOut(Data(o), h, e)
<1>1. h \in Handles /\ c \in Callouts /\ SetData(o, u) /\ level' = level
    BY DEF NewCallOut
<1>2. level = 0 => /\ \E i \in NewIndices(tab) : tab' = CoNew(tab, c, due, i)
                   /\ plist' = plist /\ ncallout' = ncallout
    BY DEF NewCallOut
<1>3. level # 0 => /\ plist' = [ps EXCEPT ![k].cop = With(@, h, patch)]
                   /\ ncallout' = Uindex(ncallout + 1) /\ tab' = tab
    BY DEF NewCallOut
<1>4. /\ Spaces(callouts, fcallouts) /\ Shows(tab, was[1]) /\ level \in 0 .. MaxLevel
      /\ ncallout = Uindex(Count(Held(callouts)) - Count(was[1]))
    BY DEF Known, Explained
<1>5. delay \in Nat /\ tab.timestamp = 0
    BY <1>4, Constants, ShowsFields
<1>6. due = [t |-> delay, m |-> NoMsec, q |-> PlaceOf(delay)]
    BY <1>5, DueIs
<1> HIDE DEF due
<1>7. /\ due.t = delay /\ due.m = NoMsec /\ due.q = PlaceOf(delay)
      /\ e = [t |-> delay, m |-> NoMsec, val |-> v]
    BY <1>6
<1>8. e \in Entry /\ e # Free /\ e.t = delay
    BY <1>5, <1>7, EntryIs
<1> HIDE DEF e
<1>9. Data(o) = DataOf(callouts, fcallouts, o)
    BY DEF Data, DataOf
<1>10. Space(Data(o)) /\ Data(o).co = callouts[o]
    BY <1>4 DEF Spaces, Data
<1>11. h = Len(callouts[o]) + 1 \/ (h \in 1 .. Len(callouts[o]) /\ callouts[o][h] = Free)
    BY <1>10, NewHandleIs
<1>12. Sets(callouts', fcallouts', callouts, fcallouts, o, u)
    BY <1>1 DEF SetData, Sets
<1>13. Held(callouts)[c] = Free
    <2>1. c[1] = o /\ c[2] = h /\ Len(callouts[o]) \in Nat
        BY <1>4 DEF Spaces
    <2>2. h \notin 1 .. Len(callouts[o]) \/ callouts[o][h] = Free
        BY <1>11, <2>1
    <2> QED  BY <1>1, <2>1, <2>2 DEF Held
<1> HIDE DEF h, u, ps, k, c
<1>14. c = << o, h >> /\ c[1] = o /\ c[2] = h
    BY DEF c
<1>15. u = AllocCallOut(DataOf(callouts, fcallouts, o), h, e)
    BY <1>9 DEF u
<1>16. /\ Spaces(callouts', fcallouts') /\ Held(callouts') = Put(Held(callouts), c, e)
       /\ Keeps(callouts', callouts) /\ h \in 1 .. Len(callouts'[o])
    BY <1>1, <1>4, <1>8, <1>11, <1>12, <1>14, <1>15, AllocSpaces
<1>17. Explained(was, level, plist, callouts, fcallouts, tab, ncallout)
    BY DEF Known
<1>18. was[1] \in Entries /\ Held(callouts) \in Entries /\ (level = 0 => was[1] = Held(callouts))
    BY <1>17, FirstIs
<1>19. CASE level = 0
    <2>1. PICK i \in NewIndices(tab) : tab' = CoNew(tab, c, due, i)
        BY <1>2, <1>19
    <2>2. was[1][c] = Free
        BY <1>13, <1>18, <1>19
    <2>3. Shows(tab', Put(was[1], c, e))
        BY <1>1, <1>4, <1>7, <1>8, <1>18, <2>1, <2>2, PutShows
    <2>4. Shows(tab', Held(callouts'))
        BY <1>16, <1>18, <1>19, <2>3
    <2>5. level' = 0 /\ plist' = plist /\ ncallout' = ncallout
        BY <1>1, <1>2, <1>19
    <2>6. KnownNext(Since(was, level, Held(callouts')))
        BY <1>16, <1>19, <2>4, <2>5, TableAlone
    <2> QED  BY <1>1, <1>8, <1>16, <1>19, <2>6 DEF Changes
<1>20. CASE level # 0
    <2>1. level \in 1 .. MaxLevel /\ level > 0
        BY <1>4, <1>20, Constants
    <2>2. ps = WithPlane(o) /\ k = Top(ps, o)
        BY DEF ps, k
    <2>3. /\ was[level] \in Entries /\ ps[k].cop \in Cops
          /\ IF h \in DOMAIN ps[k].cop
             THEN Fits(ps[k].cop[h], was[level][c], Free) ELSE was[level][c] = Free
        BY <1>1, <1>13, <1>14, <2>1, <2>2, PlaneKnows
    <2>4. was[level][c] \in Entry
        BY <1>1, <2>3 DEF Entries
    <2>5. Fits(patch, was[level][c], e)
        <3>1. CASE h \in DOMAIN ps[k].cop
            <4>1. patch = [ps[k].cop[h] EXCEPT !.type = "REPLACE", !.aco = e,
                              !.t = e.t, !.m = NoMsec, !.q = PlaceOf(e.t)]
                BY <1>7, <1>8, <3>1
            <4> HIDE DEF patch
            <4> QED  BY <1>8, <2>3, <2>4, <3>1, <4>1, FitsReplace
        <3>2. CASE h \notin DOMAIN ps[k].cop
            <4>1. patch = [type |-> "ADD", aco |-> e, rco |-> Free,
                           t |-> e.t, m |-> NoMsec, q |-> PlaceOf(e.t)]
                BY <1>7, <1>8, <3>2
            <4> HIDE DEF patch
            <4>2. Fits(patch, Free, e)
                BY <1>8, <4>1, FitsAdd
            <4> QED  BY <2>3, <3>2, <4>2
        <3> QED  BY <3>1, <3>2
    <2> HIDE DEF patch
    <2>6. patch \in Patch
        BY <2>5 DEF Fits
    <2>7. PICK cop : cop = With(ps[k].cop, h, patch)
        OBVIOUS
    <2>8. Replaces(cop, ps[k].cop, h) /\ h \in DOMAIN cop /\ cop[h] = patch
        BY <1>1, <2>3, <2>6, <2>7, WithReplaces
    <2>9. SetsCop(plist', ps, k, cop)
        BY <1>3, <1>20, <2>7 DEF SetsCop
    <2>10. ncallout' = Uindex(Count(Held(callouts')) - Count(was[1]))
        <3>1. Count(Held(callouts')) = Count(Held(callouts)) + 1
            <4>1. Count(Put(Held(callouts), c, e)) = Count(Held(callouts)) + 1 - 0
                BY <1>1, <1>8, <1>13, <1>18, CountChanged
            <4>2. Count(Held(callouts)) \in Nat
                BY CountType
            <4> QED  BY <1>16, <4>1, <4>2
        <3>2. Count(Held(callouts)) \in Nat /\ Count(was[1]) \in Nat
            BY CountType
        <3> HIDE DEF Count
        <3>3. Count(Held(callouts)) - Count(was[1]) \in Int
            BY <3>2
        <3>4. ncallout' = Uindex((Count(Held(callouts)) - Count(was[1])) + 1)
            BY <1>3, <1>4, <1>20, <3>3, UindexIs
        <3>5. (Count(Held(callouts)) - Count(was[1])) + 1 = Count(Held(callouts')) - Count(was[1])
            BY <3>1, <3>2
        <3> QED  BY <3>4, <3>5
    <2>11. Explained(Since(was, level, Held(callouts')), level, plist', callouts', fcallouts', tab,
                     ncallout')
        BY <1>1, <1>8, <1>14, <1>16, <1>17, <2>1, <2>2, <2>5, <2>8, <2>9, <2>10, PatchStep
    <2>12. KnownNext(Since(was, level, Held(callouts')))
        BY <1>1, <1>3, <1>20, <2>11 DEF KnownNext
    <2> QED  BY <1>1, <1>3, <1>8, <1>16, <1>20, <2>12 DEF Changes
<1> QED  BY <1>19, <1>20

(* d_del_call_out()                                                        *)
LEMMA DelStep ==
    ASSUME NEW was, Known(was), NEW o \in Objects, NEW h \in Handles, DelCallOut(o, h)
    PROVE  KnownNext(Since(was, level, Held(callouts'))) /\ Changes
<1> DEFINE r == callouts[o][h]
           ps == WithPlane(o)
           k == Top(ps, o)
           old == ps[k].cop
           remove == [type |-> "REMOVE", aco |-> Free, rco |-> r,
                      t |-> 0, m |-> 0, q |-> Queue]
           cop == IF h \notin DOMAIN old THEN With(old, h, remove)
                  ELSE IF old[h].type = "REPLACE" THEN [old EXCEPT ![h] = Released(@)]
                  ELSE Without(old, h)
           u == FreeCallOut(Data(o), h)
<1>1. h \in DOMAIN callouts[o] /\ r # Free /\ SetData(o, u) /\ level' = level
    BY DEF DelCallOut
<1>2. level = 0 => /\ tab' = CoDel(tab, << o, h >>, r.t, r.m)
                   /\ plist' = plist /\ ncallout' = ncallout
    BY DEF DelCallOut
<1>3. level # 0 => /\ plist' = [ps EXCEPT ![k].cop = cop]
                   /\ ncallout' = Uindex(ncallout - 1) /\ tab' = tab
    BY DEF DelCallOut
<1>4. /\ Spaces(callouts, fcallouts) /\ Shows(tab, was[1]) /\ level \in 0 .. MaxLevel
      /\ ncallout = Uindex(Count(Held(callouts)) - Count(was[1]))
    BY DEF Known, Explained
<1>5. h \in 1 .. Len(callouts[o])
    BY <1>1, <1>4 DEF Spaces
<1>6. PICK c : c = << o, h >>
    OBVIOUS
<1>7. c \in Callouts /\ c[1] = o /\ c[2] = h
    BY <1>4, <1>5, <1>6 DEF Spaces
<1>8. Held(callouts)[c] = r
    BY <1>5, <1>7 DEF Held
<1>9. Held(callouts) \in Entries /\ r \in Entry
    <2>1. Held(callouts) \in Entries
        BY <1>4, HeldType
    <2> QED  BY <1>7, <1>8, <2>1 DEF Entries
<1>10. Sets(callouts', fcallouts', callouts, fcallouts, o, u)
    BY <1>1 DEF SetData, Sets
<1>11. u = FreeCallOut(DataOf(callouts, fcallouts, o), h)
    BY DEF Data, DataOf
<1> HIDE DEF u, cop, ps, k
<1>12. /\ Spaces(callouts', fcallouts') /\ Held(callouts') = Put(Held(callouts), c, Free)
       /\ Keeps(callouts', callouts) /\ h \in 1 .. Len(callouts'[o])
    BY <1>1, <1>4, <1>5, <1>6, <1>7, <1>10, <1>11, FreeSpaces
<1>13. Explained(was, level, plist, callouts, fcallouts, tab, ncallout)
    BY DEF Known
<1>14. was[1] \in Entries /\ (level = 0 => was[1] = Held(callouts))
    BY <1>13, FirstIs
<1>15. Free \in Entry
    BY EntryIs
<1>16. CASE level = 0
    <2>1. was[1][c] = r
        BY <1>8, <1>14, <1>16
    <2>2. tab' = CoDel(tab, c, was[1][c].t, was[1][c].m)
        BY <1>2, <1>6, <1>16, <2>1
    <2>3. Shows(tab', Put(was[1], c, Free))
        BY <1>1, <1>4, <1>7, <1>14, <2>1, <2>2, TakeShows
    <2>4. Shows(tab', Held(callouts'))
        BY <1>12, <1>14, <1>16, <2>3
    <2>5. level' = 0 /\ plist' = plist /\ ncallout' = ncallout
        BY <1>1, <1>2, <1>16
    <2>6. KnownNext(Since(was, level, Held(callouts')))
        BY <1>12, <1>16, <2>4, <2>5, TableAlone
    <2> QED  BY <1>1, <1>7, <1>12, <1>15, <1>16, <2>6 DEF Changes
<1>17. CASE level # 0
    <2>1. level \in 1 .. MaxLevel /\ level > 0
        BY <1>4, <1>17, Constants
    <2>2. ps = WithPlane(o) /\ k = Top(ps, o)
        BY DEF ps, k
    <2>3. /\ was[level] \in Entries /\ old \in Cops
          /\ IF h \in DOMAIN old THEN Fits(old[h], was[level][c], r) ELSE was[level][c] = r
        BY <1>7, <1>8, <2>1, <2>2, PlaneKnows
    <2>4. was[level][c] \in Entry
        BY <1>7, <2>3 DEF Entries
    <2>5. /\ Replaces(cop, old, h)
          /\ IF h \in DOMAIN cop THEN Fits(cop[h], was[level][c], Free) ELSE was[level][c] = Free
        <3>1. CASE h \notin DOMAIN old
            <4>1. cop = With(old, h, remove)
                BY <3>1 DEF cop
            <4>2. Fits(remove, r, Free)
                BY <1>1, <1>9, FitsRemove
            <4> HIDE DEF remove, old
            <4>3. remove \in Patch
                BY <4>2 DEF Fits
            <4>4. Replaces(cop, old, h) /\ h \in DOMAIN cop /\ cop[h] = remove
                BY <2>3, <4>1, <4>3, WithReplaces
            <4> QED  BY <2>3, <3>1, <4>2, <4>4
        <3>2. CASE h \in DOMAIN old /\ old[h].type = "REPLACE"
            <4>1. cop = [old EXCEPT ![h] = Released(old[h])]
                BY <3>2 DEF cop
            <4>2. Fits(old[h], was[level][c], r)
                BY <2>3, <3>2
            <4>3. was[level][c] # Free
                BY <3>2, <4>2 DEF Fits
            <4>4. Fits(Released(old[h]), was[level][c], Free)
                BY <2>4, <4>2, <4>3, ReleasedIs
            <4>5. Released(old[h]) \in Patch
                BY <4>4 DEF Fits
            <4> HIDE DEF old
            <4>6. Replaces(cop, old, h) /\ h \in DOMAIN cop /\ cop[h] = Released(old[h])
                BY <2>3, <3>2, <4>1, <4>5, WithReplaces
            <4> QED  BY <4>4, <4>6
        <3>3. CASE h \in DOMAIN old /\ old[h].type # "REPLACE"
            <4>1. cop = Without(old, h)
                BY <3>3 DEF cop
            <4>2. Fits(old[h], was[level][c], r)
                BY <2>3, <3>3
            <4>3. was[level][c] = Free
                BY <1>1, <3>3, <4>2 DEF Fits
            <4> HIDE DEF old
            <4>4. Replaces(cop, old, h) /\ h \notin DOMAIN cop
                BY <2>3, <4>1, WithoutReplaces
            <4> QED  BY <4>3, <4>4
        <3> QED  BY <3>1, <3>2, <3>3
    <2>6. SetsCop(plist', ps, k, cop)
        BY <1>3, <1>17 DEF SetsCop
    <2>7. ncallout' = Uindex(Count(Held(callouts')) - Count(was[1]))
        <3>1. Count(Held(callouts')) = Count(Held(callouts)) - 1
            <4>1. Count(Put(Held(callouts), c, Free)) = Count(Held(callouts)) + 0 - 1
                BY <1>1, <1>7, <1>8, <1>9, <1>15, CountChanged
            <4>2. Count(Held(callouts)) \in Nat
                BY CountType
            <4> QED  BY <1>12, <4>1, <4>2
        <3>2. Count(Held(callouts)) \in Nat /\ Count(was[1]) \in Nat
            BY CountType
        <3> HIDE DEF Count
        <3>3. Count(Held(callouts)) - Count(was[1]) \in Int
            BY <3>2
        <3>4. ncallout' = Uindex((Count(Held(callouts)) - Count(was[1])) - 1)
            BY <1>3, <1>4, <1>17, <3>3, UindexIs
        <3>5. (Count(Held(callouts)) - Count(was[1])) - 1 = Count(Held(callouts')) - Count(was[1])
            BY <3>1, <3>2
        <3> QED  BY <3>4, <3>5
    <2>8. Explained(Since(was, level, Held(callouts')), level, plist', callouts', fcallouts', tab,
                    ncallout')
        BY <1>7, <1>12, <1>13, <1>15, <2>1, <2>2, <2>5, <2>6, <2>7, PatchStep
    <2>9. KnownNext(Since(was, level, Held(callouts')))
        BY <1>1, <1>3, <1>17, <2>8 DEF KnownNext
    <2> QED  BY <1>1, <1>3, <1>7, <1>12, <1>15, <1>17, <2>9 DEF Changes
<1> QED  BY <1>16, <1>17

LEMMA EnterStep ==
    ASSUME NEW was, Known(was), NEW o \in Objects, EnterAtomic(o)
    PROVE  KnownNext(was)
<1> DEFINE p == [obj |-> o, level |-> level + 1, cop |-> << >>]
<1>1. /\ Stack(plist, level) /\ Explains(All(plist), level, was, callouts)
      /\ level \in 0 .. MaxLevel /\ level \in Nat /\ MaxLevel \in Nat
    BY Constants DEF Known, Explained
<1>2. /\ level < MaxLevel /\ level' = level + 1 /\ plist' = << p >> \o plist
      /\ tab' = tab /\ callouts' = callouts /\ fcallouts' = fcallouts /\ ncallout' = ncallout
    BY DEF EnterAtomic
<1>3. p \in PlaneSet
    <2>1. level + 1 \in 1 .. MaxLevel
        BY <1>1, <1>2
    <2> QED  BY <2>1, CopsIs DEF PlaneSet
<1>4. p.level = level + 1 /\ p.cop = << >>
    OBVIOUS
<1> HIDE DEF p
<1>5. \A q \in All(plist) : ~(q.obj = p.obj /\ q.level = p.level)
    <2> TAKE q \in All(plist)
    <2>1. q \in PlaneSet /\ q.level <= level
        BY <1>1, StackIs
    <2> QED  BY <1>1, <1>4, <2>1, PlaneFields
<1>6. Stack(plist', level + 1) /\ All(plist') = {p} \cup All(plist)
    <2>1. PICK new : new = plist'
        OBVIOUS
    <2>2. p.level \in {level, level + 1} /\ new = << p >> \o plist
        BY <1>2, <1>4, <2>1
    <2>3. Stack(new, p.level) /\ All(new) = {p} \cup All(plist)
        BY <1>1, <1>3, <1>5, <2>2, PushStack
    <2> QED  BY <1>4, <2>1, <2>3
<1>7. Explains({p} \cup All(plist), level + 1, was, callouts)
    BY <1>1, <1>3, <1>4, PushExplains
<1>8. level + 1 \in 0 .. MaxLevel
    BY <1>1, <1>2
<1> QED  BY <1>2, <1>6, <1>7, <1>8 DEF Known, KnownNext, Explained

(* d_commit_plane()                                                        *)
LEMMA CommitStep ==
    ASSUME NEW was, Known(was), Commit
    PROVE  /\ KnownNext(Since(was, level - 1, Held(callouts)))
           /\ level > 0 /\ level' = level - 1 /\ callouts' = callouts
           /\ level' > 0 => tab' = tab
<1>1. /\ Stack(plist, level) /\ Explains(All(plist), level, was, callouts)
      /\ Spaces(callouts, fcallouts) /\ Shows(tab, was[1])
      /\ level \in 0 .. MaxLevel /\ level \in Nat /\ MaxLevel \in Nat
      /\ ncallout = Uindex(Count(Held(callouts)) - Count(was[1]))
      /\ was \in [Levels -> Entries]
    BY Constants DEF Known, Explained, Explains
<1>2. level > 0 /\ level' = level - 1 /\ callouts' = callouts /\ fcallouts' = fcallouts
    BY DEF Commit
<1>3. CASE level = 1
    <2>1. tab' = Applied.tab /\ ncallout' = Applied.n /\ plist' = << >>
        BY <1>3 DEF Commit
    <2>2. /\ Layer(Current, was[1], was[2]) /\ level \in 1 .. MaxLevel
          /\ \A k \in 1 .. Len(Current) : Leads(Current[k].cop, Current[k].obj, was[1], was[2])
        <3>1. level \in 1 .. MaxLevel
            BY <1>1, <1>3
        <3>2. 1 + 1 = 2
            OBVIOUS
        <3> QED  BY <1>1, <1>3, <3>1, <3>2, CurrentLayer
    <2>3. was[2] = Held(callouts)
        <3>1. 2 \in Levels /\ 2 > level
            BY <1>1, <1>3 DEF Levels
        <3> QED  BY <1>1, <3>1 DEF Explains
    <2> DEFINE total == Count(Held(callouts))
    <2>4. total \in Int
        <3>1. total \in Nat
            BY CountType
        <3> HIDE DEF total
        <3> QED  BY <3>1
    <2>5. Commits([tab |-> tab, n |-> ncallout], was[1], total)
        BY <1>1 DEF Commits
    <2> HIDE DEF total
    <2>6. Commits(Applied, Held(callouts), total)
        BY <2>2, <2>3, <2>4, <2>5, AppliedIs
    <2>7. Shows(tab', Held(callouts)) /\ ncallout' = 0
        BY <2>1, <2>6, NoDifference DEF Commits, total
    <2>8. Explained(Since(was, 0, Held(callouts)), 0, plist', callouts, fcallouts, tab', ncallout')
        BY <1>1, <2>1, <2>7, Outside
    <2>9. level - 1 = 0 /\ level' = 0 /\ ~(level' > 0)
        BY <1>2, <1>3
    <2> QED  BY <1>2, <2>8, <2>9 DEF KnownNext
<1>4. CASE level # 1
    <2>1. plist' = MovedDown \o Merged /\ tab' = tab /\ ncallout' = ncallout
        BY <1>4 DEF Commit
    <2>2. level \in 2 .. MaxLevel /\ level - 1 \in 0 .. MaxLevel
        BY <1>1, <1>2, <1>4
    <2> DEFINE now == Since(was, level - 1, Held(callouts))
    <2>3. Stack(plist', level - 1) /\ Explains(All(plist'), level - 1, now, callouts)
        BY <1>1, <2>1, <2>2, CommitStack
    <2>4. now[1] = was[1]
        <3>1. 1 \in Levels /\ 1 <= level - 1
            BY <1>1, <2>2 DEF Levels
        <3> QED  BY <3>1 DEF Since
    <2> HIDE DEF now
    <2>5. Explained(now, level - 1, plist', callouts, fcallouts, tab, ncallout)
        BY <1>1, <2>2, <2>3, <2>4 DEF Explained
    <2> QED  BY <1>2, <2>1, <2>5 DEF KnownNext, now
<1> QED  BY <1>3, <1>4

(* d_discard_plane()                                                       *)
LEMMA DiscardStep ==
    ASSUME NEW was, Known(was), Discard
    PROVE  /\ KnownNext(Since(was, level - 1, Held(callouts')))
           /\ level > 0 /\ level' = level - 1 /\ tab' = tab
           /\ Held(callouts') = was[level]
<1>1. /\ Stack(plist, level) /\ Explains(All(plist), level, was, callouts)
      /\ Spaces(callouts, fcallouts) /\ Shows(tab, was[1])
      /\ level \in 0 .. MaxLevel /\ level \in Nat /\ MaxLevel \in Nat
      /\ ncallout = Uindex(Count(Held(callouts)) - Count(was[1]))
      /\ was \in [Levels -> Entries]
    BY Constants DEF Known, Explained, Explains
<1>2. /\ level > 0 /\ level' = level - 1 /\ tab' = tab /\ plist' = Below
      /\ callouts' = Undone.co /\ fcallouts' = Undone.free /\ ncallout' = Undone.n
    BY DEF Discard
<1>3. /\ level \in 1 .. MaxLevel /\ level - 1 \in 0 .. MaxLevel
      /\ level \in Levels /\ level + 1 \in Levels /\ level + 1 > level
    BY <1>1, <1>2 DEF Levels
<1>4. was[level + 1] = Held(callouts)
    BY <1>1, <1>3 DEF Explains
<1> DEFINE total == Count(was[1])
<1>5. total \in Int
    <2>1. total \in Nat
        BY CountType
    <2> HIDE DEF total
    <2> QED  BY <2>1
<1>6. Undoes([co |-> callouts, free |-> fcallouts, n |-> ncallout], was[level + 1], total)
    BY <1>1, <1>4 DEF Undoes
<1> HIDE DEF total
<1>7. Undoes(Undone, was[level], total) /\ Keeps(Undone.co, callouts)
    <2>1. /\ Layer(Current, was[level + 1], was[level])
          /\ \A k \in 1 .. Len(Current) :
                /\ Leads(Current[k].cop, Current[k].obj, was[level], was[level + 1])
                /\ \A h \in DOMAIN Current[k].cop : h \in 1 .. Len(callouts[Current[k].obj])
                /\ Current[k].obj \in Objects
        BY <1>1, <1>3, CurrentLayer
    <2> QED  BY <1>5, <1>6, <2>1, UndoneIs
<1>8. /\ Spaces(callouts', fcallouts') /\ Held(callouts') = was[level]
      /\ ncallout' = Uindex(Count(was[level]) - total) /\ Keeps(callouts', callouts)
    BY <1>2, <1>7 DEF Undoes
<1>9. Stack(Below, level - 1) /\ \A q : q \in All(Below) <=> q \in All(plist) /\ q.level < level
    BY <1>1, <1>3, DiscardStack
<1>10. Keyed(All(plist), level)
    BY <1>1, StackIs DEF Keyed
<1> DEFINE now == Since(was, level - 1, Held(callouts'))
<1>11. Explains(All(Below), level - 1, now, callouts')
    BY <1>1, <1>3, <1>8, <1>9, <1>10, DiscardExplains
<1>12. now[1] = was[1]
    <2>1. 1 \in Levels /\ (1 <= level - 1 \/ level = 1)
        BY <1>1, <1>2 DEF Levels
    <2>2. 1 <= level - 1 => now[1] = was[1]
        BY <2>1 DEF Since
    <2>3. level = 1 => now[1] = Held(callouts')
        BY <2>1 DEF Since
    <2> QED  BY <1>8, <2>1, <2>2, <2>3
<1> HIDE DEF now
<1>13. Explained(now, level - 1, Below, callouts', fcallouts', tab, ncallout')
    BY <1>1, <1>3, <1>8, <1>9, <1>11, <1>12 DEF Explained, total
<1> QED  BY <1>2, <1>8, <1>13 DEF KnownNext, now

---------------------------------------------------------------------------
(* The theorems.                                                           *)

(* The inductive invariant: some history explains the state.               *)
IInv == \E was : Known(was)

LEMMA EmptyShows ==
    ASSUME NEW d \in Entries, \A c \in Callouts : d[c] = Free
    PROVE  Shows(EmptyTable, d)
<1>1. /\ EmptyTable.queue = << >> /\ EmptyTable.timestamp = 0
      /\ \A l \in Lists : EmptyTable.list[l] = << >>
    BY DEF EmptyTable
<1>2. Good(EmptyTable)
    BY EmptyTableGood
<1>3. DOMAIN << >> = {} /\ Len(<< >>) = 0
    OBVIOUS
<1>4. Once(<< >>) /\ \A c : ~Holds(<< >>, c)
    BY <1>3 DEF Once, Holds
<1> HIDE DEF EmptyTable
<1>5. Once(EmptyTable.queue) /\ \A l \in Lists : Once(EmptyTable.list[l])
    BY <1>1, <1>4
<1>6. \A c \in Callouts, l \in Everywhere : ~In(EmptyTable, c, l)
    BY <1>1, <1>4 DEF In, Everywhere
<1>7. \A k \in 1 .. Len(EmptyTable.queue) : FALSE
    BY <1>1, <1>3
<1> QED  BY <1>1, <1>2, <1>5, <1>6, <1>7 DEF Shows

LEMMA AInitKnown ==
    ASSUME AInit
    PROVE  IInv
<1>1. /\ tab = EmptyTable /\ level = 0 /\ plist = << >> /\ ncallout = 0
      /\ callouts = [o \in Objects |-> << >>] /\ fcallouts = [o \in Objects |-> << >>]
    BY DEF AInit
<1>2. << >> \in Seq(Entry) /\ << >> \in Seq(Handles) /\ Len(<< >>) = 0
    OBVIOUS
<1>3. Space([co |-> << >>, free |-> << >>])
    <2> DEFINE d == [co |-> << >>, free |-> << >>]
    <2>1. d.co = << >> /\ d.free = << >> /\ d \in [co : Seq(Entry), free : Seq(Handles)]
        BY <1>2
    <2> HIDE DEF d
    <2>2. Len(d.co) = 0 /\ Len(d.free) = 0
        BY <1>2, <2>1
    <2>3. Space(d)
        BY <2>1, <2>2 DEF Space
    <2> QED  BY <2>3 DEF d
<1>4. Spaces(callouts, fcallouts)
    <2>1. PICK e : e = << >>
        OBVIOUS
    <2>2. /\ callouts = [o \in Objects |-> e] /\ fcallouts = [o \in Objects |-> e]
          /\ e \in Seq(Entry) /\ e \in Seq(Handles) /\ Len(e) = 0
          /\ Space([co |-> e, free |-> e])
        BY <1>1, <1>2, <1>3, <2>1
    <2> QED  BY <2>2 DEF Spaces
<1>5. Held(callouts) \in Entries /\ \A c \in Callouts : Held(callouts)[c] = Free
    <2>1. \A c \in Callouts : c[1] \in Objects
        BY Constants
    <2>2. \A c \in Callouts : Len(callouts[c[1]]) = 0
        BY <1>1, <1>2, <2>1
    <2> QED  BY <1>4, <2>2, HeldType DEF Held
<1>6. Shows(tab, Held(callouts))
    BY <1>1, <1>5, EmptyShows
<1> DEFINE any == [l \in Levels |-> Held(callouts)]
<1>7. any \in [Levels -> Entries]
    BY <1>5
<1> HIDE DEF any
<1>8. Explained(Since(any, 0, Held(callouts)), 0, plist, callouts, fcallouts, tab, ncallout)
    BY <1>1, <1>4, <1>6, <1>7, Outside
<1> QED  BY <1>1, <1>8 DEF IInv, Known

LEMMA NextKnown ==
    ASSUME NEW was, Known(was), [ANext]_avars
    PROVE  \E now : KnownNext(now)
<1>1. ASSUME NEW o \in Objects, EnterAtomic(o)
      PROVE  \E now : KnownNext(now)
    BY <1>1, EnterStep
<1>2. ASSUME NEW o \in Objects, NEW v \in Vals, NEW d \in Delays, NewCallOut(o, v, d, NoMsec)
      PROVE  \E now : KnownNext(now)
    BY <1>2, NewStep
<1>3. ASSUME NEW o \in Objects, NEW h \in Handles, DelCallOut(o, h)
      PROVE  \E now : KnownNext(now)
    BY <1>3, DelStep
<1>4. ASSUME Commit
      PROVE  \E now : KnownNext(now)
    BY <1>4, CommitStep
<1>5. ASSUME Discard
      PROVE  \E now : KnownNext(now)
    BY <1>5, DiscardStep
<1>6. ASSUME UNCHANGED avars
      PROVE  \E now : KnownNext(now)
    BY <1>6 DEF avars, Known, KnownNext
<1> QED  BY <1>1, <1>2, <1>3, <1>4, <1>5, <1>6 DEF ANext

LEMMA StepKnown ==
    ASSUME IInv, [ANext]_avars
    PROVE  IInv'
<1>1. PICK was : Known(was)
    BY DEF IInv
<1>2. PICK now : KnownNext(now)
    BY <1>1, NextKnown
<1> QED  BY <1>2 DEF IInv, Known, KnownNext

LEMMA InTableIs ==
    ASSUME NEW was, Known(was), NEW c \in Callouts
    PROVE  InTable(c) <=> was[1][c] # Free
<1>1. Shows(tab, was[1]) /\ was[1] \in Entries
    BY FirstIs DEF Known, Explained
<1>2. was[1][c].t \in Nat
    BY <1>1, EntryIs DEF Entries
<1>3. PlaceOf(was[1][c].t) \in Everywhere
    BY <1>2, PlaceIs
<1>4. \A l \in Everywhere : In(tab, c, l) <=> was[1][c] # Free /\ l = PlaceOf(was[1][c].t)
    BY <1>1 DEF Shows
<1>5. InTable(c) <=> \E l \in Everywhere : In(tab, c, l)
    <2>1. Queue \notin Lists
        BY ListNames
    <2> QED  BY <2>1 DEF InTable, In, Everywhere
<1> HIDE DEF PlaceOf, Free
<1> QED  BY <1>3, <1>4, <1>5

LEMMA LiveIs ==
    ASSUME NEW was, Known(was), NEW c \in Callouts
    PROVE  /\ Live(c) <=> Held(callouts)[c] # Free
           /\ Live(c) => callouts[c[1]][c[2]] = Held(callouts)[c]
<1>1. Spaces(callouts, fcallouts) /\ c[1] \in Objects
    BY Constants DEF Known, Explained
<1>2. DOMAIN callouts[c[1]] = 1 .. Len(callouts[c[1]])
    BY <1>1 DEF Spaces
<1> HIDE DEF Free
<1> QED  BY <1>2 DEF Live, Held

LEMMA KnownSound ==
    ASSUME NEW was, Known(was)
    PROVE  AtomicSound
<1>1. /\ level \in 0 .. MaxLevel /\ level \in Nat /\ Stack(plist, level)
      /\ Spaces(callouts, fcallouts) /\ Shows(tab, was[1])
      /\ ncallout = Uindex(Count(Held(callouts)) - Count(was[1]))
    BY Constants DEF Known, Explained
<1>2. ATypeOK
    <2>1. tab \in Table
        BY <1>1, ShowsFields
    <2>2. callouts \in [Objects -> Seq(Dcallout \cup {Free})]
        <3>1. Entry \subseteq Dcallout \cup {Free}
            BY EntryDcallout
        <3>2. \A s \in Seq(Entry) : s \in Seq(Dcallout \cup {Free})
            <4> HIDE DEF Entry, Dcallout, Free
            <4> QED  BY <3>1
        <3>3. callouts \in [Objects -> Seq(Entry)]
            BY <1>1 DEF Spaces
        <3> HIDE DEF Entry, Dcallout, Free
        <3> QED  BY <3>2, <3>3
    <2>3. fcallouts \in [Objects -> Seq(Handles)]
        BY <1>1 DEF Spaces
    <2>4. ASSUME NEW k \in 1 .. Len(plist)
          PROVE  IsPlane(plist[k])
        <3>1. plist[k] \in PlaneSet
            BY <1>1, StackIs
        <3>2. plist[k].obj \in Objects /\ plist[k].level \in 1 .. MaxLevel /\ plist[k].cop \in Cops
            BY <3>1, PlaneFields
        <3>3. /\ DOMAIN plist[k].cop \subseteq Handles
              /\ \A h \in DOMAIN plist[k].cop : plist[k].cop[h] \in Patch
            BY <3>2, CopsIs
        <3> QED  BY <3>2, <3>3 DEF IsPlane
    <2>5. ncallout \in 0 .. UindexRange - 1
        <3>1. Count(Held(callouts)) \in Nat /\ Count(was[1]) \in Nat
            BY CountType
        <3> HIDE DEF Count
        <3>2. Count(Held(callouts)) - Count(was[1]) \in Int
            BY <3>1
        <3> QED  BY <1>1, <3>2, UindexIs
    <2> QED  BY <1>1, <2>1, <2>2, <2>3, <2>4, <2>5 DEF ATypeOK
<1>3. FreeHandles
    <2> SUFFICES ASSUME NEW o \in Objects
                 PROVE  /\ ToSet(fcallouts[o]) = {h \in DOMAIN callouts[o] : callouts[o][h] = Free}
                        /\ IsInjective(fcallouts[o])
        BY DEF FreeHandles
    <2>1. /\ Space([co |-> callouts[o], free |-> fcallouts[o]])
          /\ callouts[o] \in Seq(Entry) /\ fcallouts[o] \in Seq(Handles)
        BY <1>1 DEF Spaces
    <2>2. DOMAIN callouts[o] = 1 .. Len(callouts[o]) /\ DOMAIN fcallouts[o] = 1 .. Len(fcallouts[o])
        BY <2>1
    <2>3. /\ \A h : (\E k \in 1 .. Len(fcallouts[o]) : fcallouts[o][k] = h)
                       <=> h \in 1 .. Len(callouts[o]) /\ callouts[o][h] = Free
          /\ \A j \in 1 .. Len(fcallouts[o]), k \in 1 .. Len(fcallouts[o]) :
                fcallouts[o][j] = fcallouts[o][k] => j = k
        BY <2>1 DEF Space
    <2> HIDE DEF Free
    <2> QED  BY <2>2, <2>3 DEF ToSet, IsInjective
<1>4. NetCount
    <2>1. {c \in Callouts : Live(c)} = {c \in Callouts : Held(callouts)[c] # Free}
        BY LiveIs
    <2>2. {c \in Callouts : InTable(c)} = {c \in Callouts : was[1][c] # Free}
        BY InTableIs
    <2> QED  BY <1>1, <2>1, <2>2 DEF NetCount, Count
<1>5. Stacked
    <2>1. DOMAIN plist = 1 .. Len(plist)
        BY <1>1, StackIs
    <2>2. \A k \in 1 .. Len(plist) : plist[k].level <= level
        BY <1>1 DEF Stack
    <2>3. ASSUME NEW j \in 1 .. Len(plist), NEW k \in 1 .. Len(plist), j < k
          PROVE  /\ plist[j].level >= plist[k].level
                 /\ << plist[j].obj, plist[j].level >> # << plist[k].obj, plist[k].level >>
        BY <1>1, <2>3 DEF Stack
    <2> QED  BY <2>1, <2>2, <2>3 DEF Stacked
<1> QED  BY <1>2, <1>3, <1>4, <1>5 DEF AtomicSound

(* In every state, the free lists are exact, ncallout is the number of     *)
(* callouts that the dataspaces have more than the table, modulo 2^16, and *)
(* the planes are stacked: what d_commit_plane() and d_discard_plane()     *)
(* work on.                                                                *)
THEOREM AtomicIsSound == ASpec => []AtomicSound
<1>1. AInit => IInv
    BY AInitKnown
<1>2. IInv /\ [ANext]_avars => IInv'
    BY StepKnown
<1>3. IInv => AtomicSound
    BY KnownSound DEF IInv
<1> QED  BY <1>1, <1>2, <1>3, PTL DEF ASpec

---------------------------------------------------------------------------
(* What is kept for going back is the history.                             *)

Touching(c, l) ==
    {k \in DOMAIN plist : /\ plist[k].obj = c[1] /\ plist[k].level >= l
                          /\ c[2] \in DOMAIN plist[k].cop}

(* A callout does not change between two levels without a patch.           *)
LEMMA Unpatched ==
    ASSUME NEW was, Known(was), NEW c \in Callouts, NEW l \in Levels, NEW n \in Levels, l <= n,
           \A x \in 1 .. level : l <= x /\ x < n => ~Patched(All(plist), c, x)
    PROVE  was[l][c] = was[n][c]
<1>1. /\ Explains(All(plist), level, was, callouts) /\ level \in Nat
      /\ \A x \in Levels : x \in Nat /\ x > 0 /\ x <= MaxLevel + 1 /\ MaxLevel \in Nat
    BY Constants DEF Known, Explained, Levels
<1>2. ASSUME NEW x \in Levels, l <= x, x < n
      PROVE  x + 1 \in Levels /\ was[x][c] = was[x + 1][c]
    <2>1. x + 1 \in Levels
        BY <1>1, <1>2 DEF Levels
    <2>2. CASE x <= level
        <3>1. x \in 1 .. level
            BY <1>1, <2>2
        <3>2. ~Patched(All(plist), c, x)
            BY <1>2, <3>1
        <3> QED  BY <1>1, <2>1, <3>1, <3>2 DEF Explains
    <2>3. CASE ~(x <= level)
        <3>1. x > level /\ x + 1 > level
            BY <1>1, <2>3
        <3> QED  BY <1>1, <2>1, <3>1 DEF Explains
    <2> QED  BY <2>1, <2>2, <2>3
<1> DEFINE m == n - l
           S == {k \in 0 .. m : was[l][c] = was[l + k][c]}
<1>3. m \in Nat /\ l + m = n /\ l \in Nat
    BY <1>1
<1>4. 0 \in S
    <2>1. l + 0 = l /\ 0 \in 0 .. m
        BY <1>3
    <2> QED  BY <2>1
<1>5. ASSUME NEW k \in 1 .. m, k - 1 \in S
      PROVE  k \in S
    <2>1. /\ l + (k - 1) \in Levels /\ l <= l + (k - 1) /\ l + (k - 1) < n
          /\ (l + (k - 1)) + 1 = l + k /\ k \in 0 .. m
        BY <1>1, <1>3 DEF Levels
    <2>2. was[l + (k - 1)][c] = was[l + k][c]
        BY <1>2, <2>1
    <2>3. was[l][c] = was[l + (k - 1)][c]
        BY <1>5
    <2> QED  BY <2>1, <2>2, <2>3
<1> HIDE DEF S
<1>6. \A k \in 0 .. m : k \in S
    <2> HIDE DEF m
    <2> QED  BY <1>3, <1>4, <1>5, StepByStep
<1>7. m \in S
    BY <1>3, <1>6
<1> QED  BY <1>3, <1>7 DEF S

LEMMA BeforeIs ==
    ASSUME NEW was, Known(was), NEW c \in Callouts, NEW l \in Levels
    PROVE  Before(c, l) = was[l][c]
<1>1. /\ Stack(plist, level) /\ Explains(All(plist), level, was, callouts)
      /\ level \in Nat /\ level \in 0 .. MaxLevel
      /\ MaxLevel + 1 \in Levels /\ l <= MaxLevel + 1 /\ l \in Nat /\ l > 0
      /\ level < MaxLevel + 1 /\ MaxLevel \in Nat
    BY Constants DEF Known, Explained, Levels
<1>2. was[MaxLevel + 1] = Held(callouts)
    BY <1>1 DEF Explains
<1>3. DOMAIN plist = 1 .. Len(plist) /\ Len(plist) \in Nat
    BY <1>1, StackIs
<1> DEFINE ks == Touching(c, l)
           P(k) == \A j \in ks : j <= k
<1>4. Before(c, l) = IF ks # {} THEN plist[CHOOSE k \in ks : P(k)].cop[c[2]].rco
                     ELSE IF Live(c) THEN callouts[c[1]][c[2]] ELSE Free
    BY DEF Before, Touching
<1>5. \A k \in ks : /\ k \in 1 .. Len(plist) /\ plist[k].obj = c[1] /\ plist[k].level >= l
                    /\ c[2] \in DOMAIN plist[k].cop
    BY <1>3 DEF Touching
<1>6. ASSUME NEW x \in 1 .. level, l <= x, Patched(All(plist), c, x)
      PROVE  \E k \in ks : plist[k].level = x
    <2>1. PICK p \in All(plist) : p.obj = c[1] /\ p.level = x /\ c[2] \in DOMAIN p.cop
        BY <1>6 DEF Patched
    <2>2. PICK k \in 1 .. Len(plist) : p = plist[k]
        BY DEF All
    <2>3. k \in ks
        BY <1>1, <1>3, <1>6, <2>1, <2>2 DEF Touching
    <2> QED  BY <2>1, <2>2, <2>3
<1> HIDE DEF ks
<1>7. CASE ks = {}
    <2>1. was[l][c] = was[MaxLevel + 1][c]
        <3>1. \A x \in 1 .. level : l <= x /\ x < MaxLevel + 1 => ~Patched(All(plist), c, x)
            BY <1>6, <1>7
        <3> QED  BY <1>1, <3>1, Unpatched
    <2>2. Live(c) <=> Held(callouts)[c] # Free
        BY LiveIs
    <2>3. Live(c) => callouts[c[1]][c[2]] = Held(callouts)[c]
        BY LiveIs
    <2> HIDE DEF Free
    <2> QED  BY <1>2, <1>4, <1>7, <2>1, <2>2, <2>3
<1>8. CASE ks # {}
    <2> DEFINE k == CHOOSE x \in ks : P(x)
               T == {Len(plist) - j : j \in ks}
    <2>1. k \in ks /\ P(k)
        <3>1. T \in SUBSET Int /\ T # {} /\ 0 \in Int /\ \A x \in T : x >= 0
            BY <1>3, <1>5, <1>8
        <3>2. PICK x \in T : \A y \in T : x <= y
            <4> HIDE DEF T
            <4> QED  BY <3>1, LeastExists
        <3>3. PICK j \in ks : x = Len(plist) - j
            OBVIOUS
        <3>4. ASSUME NEW i \in ks  PROVE i <= j
            <4>1. Len(plist) - i \in T
                OBVIOUS
            <4>2. Len(plist) - j <= Len(plist) - i
                BY <3>2, <3>3, <4>1
            <4>3. i \in Int /\ j \in Int /\ Len(plist) \in Int
                BY <1>3, <1>5
            <4> QED  BY <4>2, <4>3
        <3> HIDE DEF T
        <3> QED  BY <3>4
    <2>2. Before(c, l) = plist[k].cop[c[2]].rco
        BY <1>4, <1>8
    <2> HIDE DEF k
    <2> DEFINE p == plist[k]
    <2>3. /\ p \in All(plist) /\ p \in PlaneSet
          /\ p.obj = c[1] /\ p.level >= l /\ c[2] \in DOMAIN p.cop
        BY <1>1, <1>5, <2>1, StackIs
    <2>4. p.level \in Levels /\ p.level \in Nat
        BY <2>3, PlaneFields, LevelIs
    <2>5. was[l][c] = was[p.level][c]
        <3>1. ASSUME NEW x \in 1 .. level, l <= x, x < p.level
              PROVE  ~Patched(All(plist), c, x)
            <4> SUFFICES ASSUME Patched(All(plist), c, x)  PROVE FALSE
                OBVIOUS
            <4>1. PICK j \in ks : plist[j].level = x
                BY <1>6, <3>1
            <4>2. j <= k /\ j \in 1 .. Len(plist) /\ k \in 1 .. Len(plist)
                BY <1>5, <2>1
            <4>3. j = k \/ j < k
                BY <4>2
            <4>4. plist[j].level >= p.level
                BY <1>1, <2>4, <4>2, <4>3 DEF Stack
            <4> QED  BY <2>4, <3>1, <4>1, <4>4
        <3> QED  BY <1>1, <2>3, <2>4, <3>1, Unpatched
    <2>6. p.cop[c[2]].rco = was[p.level][c]
        <3>1. Wraps(p, was, callouts)
            BY <1>1, <2>3 DEF Explains
        <3>2. c = << p.obj, c[2] >>
            BY <2>3, CalloutIs
        <3>3. Fits(p.cop[c[2]], was[p.level][<< p.obj, c[2] >>],
                                was[p.level + 1][<< p.obj, c[2] >>])
            BY <2>3, <3>1 DEF Wraps
        <3>4. p.cop[c[2]].rco = was[p.level][<< p.obj, c[2] >>]
            BY <3>3 DEF Fits
        <3> HIDE DEF p
        <3> QED  BY <3>2, <3>4
    <2> QED  BY <2>2, <2>5, <2>6
<1> QED  BY <1>7, <1>8

LEMMA TimeInIs ==
    ASSUME NEW was, Known(was), NEW c \in Callouts, InTable(c)
    PROVE  TimeIn(c) = was[1][c].t
<1>1. Shows(tab, was[1]) /\ was[1] \in Entries
    BY FirstIs DEF Known, Explained
<1>2. was[1][c] # Free
    BY InTableIs
<1> DEFINE t == was[1][c].t
<1>3. t \in Nat
    BY <1>1, EntryIs DEF Entries
<1>4. \A l \in Everywhere : In(tab, c, l) <=> l = PlaceOf(t)
    BY <1>1, <1>2 DEF Shows
<1>5. tab.queue \in Seq(QueueEntry) /\ DOMAIN tab.queue = 1 .. Len(tab.queue)
    BY <1>1, ShowsFields
<1>6. CASE Holds(tab.queue, c)
    <2>1. TimeIn(c) = tab.queue[Position(tab.queue, c)].t
        BY <1>6 DEF TimeIn
    <2> DEFINE p == Position(tab.queue, c)
    <2>2. p \in 1 .. Len(tab.queue) /\ tab.queue[p].co = c
        BY <1>5, <1>6 DEF Position, Holds
    <2> HIDE DEF p
    <2>3. tab.queue[p].t = was[1][tab.queue[p].co].t
        BY <1>1, <2>2 DEF Shows
    <2> QED  BY <2>1, <2>2, <2>3 DEF p
<1>7. CASE ~Holds(tab.queue, c)
    <2> DEFINE l == CHOOSE x \in Lists : Holds(tab.list[x], c)
    <2>1. TimeIn(c) = l % Immediate
        BY <1>7 DEF TimeIn
    <2>2. \E x \in Lists : Holds(tab.list[x], c)
        BY <1>7 DEF InTable
    <2>3. l \in Lists /\ Holds(tab.list[l], c)
        BY <2>2
    <2> HIDE DEF l
    <2>4. l \in Everywhere /\ In(tab, c, l)
        BY <2>3, ListNames DEF Everywhere, In
    <2>5. l = PlaceOf(t) /\ l # Queue
        BY <1>4, <2>3, <2>4, ListNames
    <2>6. l % Immediate = t
        <3>1. CYCBUF_SIZE \in Nat /\ CYCBUF_SIZE > 0
            BY Constants
        <3>2. CASE t = 0
            <4>1. l = CYCBUF_SIZE
                BY <2>5, <3>2 DEF PlaceOf, Immediate
            <4> QED  BY <3>1, <3>2, <4>1 DEF Immediate
        <3>3. CASE t # 0 /\ t < CYCBUF_SIZE
            <4>1. l = t
                BY <2>5, <3>3 DEF PlaceOf
            <4> HIDE DEF t
            <4> QED  BY <1>3, <3>1, <3>3, <4>1 DEF Immediate
        <3>4. CASE t >= CYCBUF_SIZE
            BY <1>3, <2>5, <3>1, <3>4, PlaceIs
        <3> QED  BY <1>3, <3>1, <3>2, <3>3, <3>4
    <2> QED  BY <2>1, <2>6
<1> QED  BY <1>6, <1>7

---------------------------------------------------------------------------
(* The contract of atomic code.                                            *)

Present == [c \in Callouts |-> Before(c, MaxLevel + 1)]
Saved == [l \in 1 .. level |-> [c \in Callouts |-> Before(c, l)]]
InTime == [c \in {x \in Callouts : InTable(x)} |-> TimeIn(c)]

(* What the contract has for a history.                                    *)
SavedOf(was, n) == [l \in 1 .. n |-> was[l]]
TimesOf(d) == [c \in {x \in Callouts : d[x] # Free} |-> d[c].t]

(* The contract's variables are the history.                               *)
Mapped ==
    \A was : Known(was) => /\ Present = Held(callouts)
                           /\ Saved = SavedOf(was, level)
                           /\ InTime = TimesOf(was[1])

LEMMA AlwaysMapped == Mapped
<1> SUFFICES ASSUME NEW was, Known(was)
             PROVE  /\ Present = Held(callouts)
                    /\ Saved = SavedOf(was, level)
                    /\ InTime = TimesOf(was[1])
    BY DEF Mapped
<1>1. /\ level \in 0 .. MaxLevel /\ was \in [Levels -> Entries]
      /\ \A l \in Levels : l > level => was[l] = Held(callouts)
    BY DEF Known, Explained, Explains
<1>2. MaxLevel \in Nat
    BY Constants
<1>3. Present = Held(callouts)
    <2>1. MaxLevel + 1 \in Levels /\ MaxLevel + 1 > level
        BY <1>1, <1>2 DEF Levels
    <2>2. was[MaxLevel + 1] = Held(callouts)
        BY <1>1, <2>1
    <2>3. \A c \in Callouts : Before(c, MaxLevel + 1) = Held(callouts)[c]
        BY <2>1, <2>2, BeforeIs
    <2>4. Held(callouts) = [c \in Callouts |-> Held(callouts)[c]]
        BY DEF Held
    <2> HIDE DEF Known
    <2> QED  BY <2>3, <2>4 DEF Present
<1>4. Saved = SavedOf(was, level)
    <2> SUFFICES ASSUME NEW l \in 1 .. level
                 PROVE  [c \in Callouts |-> Before(c, l)] = was[l]
        BY DEF Saved, SavedOf
    <2>1. l \in Levels
        BY <1>1, <1>2 DEF Levels
    <2>2. \A c \in Callouts : Before(c, l) = was[l][c]
        BY <2>1, BeforeIs
    <2>3. was[l] = [c \in Callouts |-> was[l][c]]
        <3>1. was[l] \in Entries
            BY <1>1, <2>1
        <3> HIDE DEF Entry
        <3> QED  BY <3>1 DEF Entries
    <2> QED  BY <2>2, <2>3
<1>5. InTime = TimesOf(was[1])
    <2>1. \A c \in Callouts : InTable(c) <=> was[1][c] # Free
        BY InTableIs
    <2>2. \A c \in Callouts : InTable(c) => TimeIn(c) = was[1][c].t
        BY TimeInIs
    <2> HIDE DEF Free
    <2>3. {c \in Callouts : InTable(c)} = {c \in Callouts : was[1][c] # Free}
        BY <2>1
    <2> QED  BY <2>2, <2>3 DEF InTime, TimesOf
<1> QED  BY <1>3, <1>4, <1>5

LEMMA TimesAgree ==
    ASSUME NEW d
    PROVE  Contract!Agrees(TimesOf(d), d)
<1> HIDE DEF Free
<1> QED  BY DEF Contract!Agrees, TimesOf

LEMMA SavedIs ==
    ASSUME NEW was \in [Levels -> Entries], NEW n \in 0 .. MaxLevel
    PROVE  /\ SavedOf(was, n) \in Seq(Entries) /\ Len(SavedOf(was, n)) = n
           /\ \A l \in 1 .. n : SavedOf(was, n)[l] = was[l]
           /\ SavedOf(was, n) = << >> <=> n = 0
<1>1. \A l \in 1 .. n : was[l] \in Entries
    BY Constants DEF Levels
<1>2. n \in Nat
    BY Constants
<1> HIDE DEF Entries, Levels
<1>3. /\ SavedOf(was, n) \in Seq(Entries) /\ Len(SavedOf(was, n)) = n
      /\ \A l \in 1 .. n : SavedOf(was, n)[l] = was[l]
    BY <1>1, <1>2 DEF SavedOf
<1> HIDE DEF SavedOf
<1>4. SavedOf(was, n) = << >> <=> Len(SavedOf(was, n)) = 0
    BY <1>3
<1> QED  BY <1>3, <1>4

LEMMA SavedMore ==
    ASSUME NEW was \in [Levels -> Entries], NEW n \in 0 .. MaxLevel, n + 1 <= MaxLevel
    PROVE  SavedOf(was, n + 1) = Append(SavedOf(was, n), was[n + 1])
<1>1. n \in Nat /\ n + 1 \in 0 .. MaxLevel /\ n + 1 \in Levels
    BY Constants DEF Levels
<1>2. was[n + 1] \in Entries
    BY <1>1
<1> DEFINE s == SavedOf(was, n)
           x == SavedOf(was, n + 1)
<1>3. s \in Seq(Entries) /\ Len(s) = n /\ \A l \in 1 .. n : s[l] = was[l]
    BY SavedIs
<1>4. x \in Seq(Entries) /\ Len(x) = n + 1 /\ \A l \in 1 .. n + 1 : x[l] = was[l]
    BY <1>1, SavedIs
<1> HIDE DEF s, x, Entries, Levels
<1>5. x = Append(s, was[n + 1])
    BY <1>1, <1>2, <1>3, <1>4
<1> QED  BY <1>5 DEF s, x

LEMMA SavedLess ==
    ASSUME NEW was \in [Levels -> Entries], NEW n \in 1 .. MaxLevel, NEW d \in Entries
    PROVE  /\ SavedOf(Since(was, n - 1, d), n - 1) = Contract!Front(SavedOf(was, n))
           /\ Contract!Last(SavedOf(was, n)) = was[n]
<1>1. n \in Nat /\ n > 0 /\ n \in 0 .. MaxLevel /\ n - 1 \in 0 .. MaxLevel /\ n - 1 \in Int
    BY Constants
<1> DEFINE now == Since(was, n - 1, d)
           s == SavedOf(was, n)
           x == SavedOf(now, n - 1)
<1>2. now \in [Levels -> Entries] /\ \A l \in Levels : l <= n - 1 => now[l] = was[l]
    BY <1>1, SinceIs
<1>3. s \in Seq(Entries) /\ Len(s) = n /\ \A l \in 1 .. n : s[l] = was[l]
    BY <1>1, SavedIs
<1>4. x \in Seq(Entries) /\ Len(x) = n - 1 /\ \A l \in 1 .. n - 1 : x[l] = now[l]
    BY <1>1, <1>2, SavedIs
<1>5. \A l \in 1 .. n - 1 : l \in Levels /\ l <= n - 1
    BY Constants DEF Levels
<1> HIDE DEF s, x, now, Entries, Levels
<1>6. \A l \in 1 .. n - 1 : x[l] = s[l]
    BY <1>1, <1>2, <1>3, <1>4, <1>5
<1>7. x = SubSeq(s, 1, Len(s) - 1)
    BY <1>1, <1>3, <1>4, <1>6
<1>8. s[Len(s)] = was[n]
    BY <1>1, <1>3
<1> QED  BY <1>7, <1>8 DEF s, x, now, Contract!Front, Contract!Last

LEMMA SavedSame ==
    ASSUME NEW was \in [Levels -> Entries], NEW n \in 0 .. MaxLevel, NEW d \in Entries
    PROVE  /\ SavedOf(Since(was, n, d), n) = SavedOf(was, n)
           /\ Since(was, n, d)[1] = IF n = 0 THEN d ELSE was[1]
<1>1. n \in Nat /\ 1 \in Levels /\ \A l \in 1 .. n : l \in Levels /\ l <= n
    BY Constants DEF Levels
<1>2. \A l \in Levels : Since(was, n, d)[l] = IF l <= n THEN was[l] ELSE d
    BY DEF Since
<1> HIDE DEF Since, Levels
<1>3. \A l \in 1 .. n : Since(was, n, d)[l] = was[l]
    BY <1>1, <1>2
<1> QED  BY <1>1, <1>2, <1>3 DEF SavedOf

LEMMA InitContract ==
    ASSUME AInit, IInv, Mapped
    PROVE  Contract!CInit
<1>1. PICK was : Known(was)
    BY DEF IInv
<1>2. level = 0 /\ was[1] = Held(callouts)
    BY <1>1, FirstIs DEF AInit, Known, Explained
<1>3. Present = Held(callouts) /\ Saved = SavedOf(was, 0) /\ InTime = TimesOf(Held(callouts))
    BY <1>1, <1>2 DEF Mapped
<1>4. Held(callouts) = [c \in Callouts |-> Free]
    <2>1. \A c \in Callouts : c[1] \in Objects
        BY Constants
    <2>2. \A c \in Callouts : Len(callouts[c[1]]) = 0
        <3>1. PICK e : e = << >>
            OBVIOUS
        <3>2. callouts = [o \in Objects |-> e] /\ Len(e) = 0
            BY <3>1 DEF AInit
        <3> QED  BY <2>1, <3>2
    <2> HIDE DEF Free
    <2> QED  BY <2>2 DEF Held
<1>5. Saved = << >>
    BY <1>3 DEF SavedOf
<1>6. InTime = << >>
    <2> HIDE DEF Free
    <2>1. {c \in Callouts : Held(callouts)[c] # Free} = {}
        BY <1>4
    <2> QED  BY <1>3, <2>1 DEF TimesOf
<1> HIDE DEF Free
<1> QED  BY <1>3, <1>4, <1>5, <1>6 DEF Contract!CInit, Present, Saved, InTime

(* A step of the contract, from one history to the next.                   *)
LEMMA StepContract ==
    ASSUME IInv, Mapped, Mapped', [ANext]_avars
    PROVE  [Contract!CNext]_(Contract!cvars)
<1>1. PICK was : Known(was)
    BY DEF IInv
<1>2. /\ level \in 0 .. MaxLevel /\ level \in Nat /\ was \in [Levels -> Entries]
      /\ Held(callouts) \in Entries /\ \A l \in Levels : l > level => was[l] = Held(callouts)
    BY <1>1, Constants, FirstIs DEF Known, Explained, Explains
<1> DEFINE now0 == Present
           old == Saved
           tb == InTime
<1>3. now0 = Held(callouts) /\ old = SavedOf(was, level) /\ tb = TimesOf(was[1])
    BY <1>1 DEF Mapped
<1>4. ASSUME NEW now, KnownNext(now)
      PROVE  /\ Present' = Held(callouts') /\ Saved' = SavedOf(now, level')
             /\ InTime' = TimesOf(now[1]) /\ Held(callouts') \in Entries /\ level' \in 0 .. MaxLevel
    <2>1. Known(now)'
        BY <1>4 DEF Known, KnownNext
    <2>2. /\ Present' = Held(callouts)' /\ Saved' = SavedOf(now, level')
          /\ InTime' = TimesOf(now[1])
        BY <2>1 DEF Mapped
    <2>3. Held(callouts)' = Held(callouts')
        BY DEF Held
    <2>4. Held(callouts') \in Entries /\ level' \in 0 .. MaxLevel
        BY <1>4, FirstIs DEF KnownNext, Explained
    <2> QED  BY <2>2, <2>3, <2>4
<1>5. ASSUME tab' = tab
      PROVE  InTime' = InTime
    BY <1>5 DEF InTime, InTable, TimeIn
<1>6. Saved = << >> <=> level = 0
    BY <1>2, <1>3, SavedIs
<1> HIDE DEF Known, KnownNext, Mapped
<1>7. ASSUME KnownNext(Since(was, level, Held(callouts'))), Changes
      PROVE  Contract!Change
    <2>1. PICK c \in Callouts, e \in Entry : Held(callouts') = Put(Held(callouts), c, e)
        BY <1>7 DEF Changes
    <2>2. level' = level /\ (level > 0 => tab' = tab)
        BY <1>7 DEF Changes
    <2>3. /\ Present' = Held(callouts') /\ Held(callouts') \in Entries
          /\ Saved' = SavedOf(Since(was, level, Held(callouts')), level)
          /\ InTime' = TimesOf(Since(was, level, Held(callouts'))[1])
        BY <1>4, <1>7, <2>2
    <2>4. \A d \in Callouts \ {c} : Present'[d] = Present[d]
        BY <1>2, <1>3, <2>1, <2>3 DEF Put, Entries
    <2>5. Saved' = Saved
        BY <1>2, <1>3, <2>3, SavedSame
    <2>6. IF Saved = << >> THEN Contract!Agrees(InTime', Present') ELSE InTime' = InTime
        <3>1. CASE level = 0
            <4>1. InTime' = TimesOf(Held(callouts'))
                BY <1>2, <2>3, <3>1, SavedSame
            <4> QED  BY <1>6, <2>3, <3>1, <4>1, TimesAgree
        <3>2. CASE level # 0
            BY <1>2, <1>5, <1>6, <2>2, <3>2
        <3> QED  BY <3>1, <3>2
    <2> QED  BY <2>4, <2>5, <2>6 DEF Contract!Change, Present, Saved, InTime
<1>8. ASSUME NEW o \in Objects, EnterAtomic(o)
      PROVE  Contract!Enter
    <2>1. KnownNext(was)
        BY <1>1, <1>8, EnterStep
    <2>2. level' = level + 1 /\ tab' = tab /\ callouts' = callouts
        BY <1>8 DEF EnterAtomic
    <2>3. Present' = Present /\ Saved' = SavedOf(was, level + 1) /\ level + 1 <= MaxLevel
        BY <1>2, <1>3, <1>4, <2>1, <2>2, Constants
    <2>4. was[level + 1] = Present
        BY <1>2, <1>3, <2>3, Constants DEF Levels
    <2>5. Saved' = Append(Saved, Present)
        BY <1>2, <1>3, <2>3, <2>4, SavedMore
    <2>6. InTime' = InTime
        BY <1>5, <2>2
    <2> QED  BY <2>3, <2>5, <2>6 DEF Contract!Enter, Present, Saved, InTime
<1>9. ASSUME Commit
      PROVE  Contract!Succeed
    <2> DEFINE now == Since(was, level - 1, Held(callouts))
    <2>1. /\ KnownNext(now) /\ level > 0 /\ level' = level - 1 /\ callouts' = callouts
          /\ (level' > 0 => tab' = tab)
        BY <1>1, <1>9, CommitStep
    <2>2. /\ Present' = Present /\ Saved' = SavedOf(now, level - 1) /\ InTime' = TimesOf(now[1])
        BY <1>3, <1>4, <2>1
    <2>3. level \in 1 .. MaxLevel /\ level - 1 \in 0 .. MaxLevel
        BY <1>2, <2>1, Constants
    <2>4. Saved' = Contract!Front(Saved)
        BY <1>2, <1>3, <2>2, <2>3, SavedLess
    <2>5. Saved # << >>
        BY <1>2, <1>6, <2>1
    <2>6. now[1] = IF level - 1 = 0 THEN Held(callouts) ELSE was[1]
        BY <1>2, <2>3, SavedSame
    <2>7. now \in [Levels -> Entries]
        BY <1>2, <2>3, SinceIs
    <2> HIDE DEF now
    <2>8. Saved' = << >> <=> level - 1 = 0
        BY <2>2, <2>3, <2>7, SavedIs
    <2>9. IF Saved' = << >> THEN Contract!Agrees(InTime', Present) ELSE InTime' = InTime
        <3>1. CASE level - 1 = 0
            BY <1>3, <2>2, <2>6, <2>8, <3>1, TimesAgree
        <3>2. CASE level - 1 # 0
            BY <1>2, <1>5, <2>1, <2>8, <3>2
        <3> QED  BY <3>1, <3>2
    <2> QED  BY <2>2, <2>4, <2>5, <2>9 DEF Contract!Succeed, Present, Saved, InTime
<1>10. ASSUME Discard
       PROVE  Contract!Fail
    <2> DEFINE now == Since(was, level - 1, Held(callouts'))
    <2>1. /\ KnownNext(now) /\ level > 0 /\ level' = level - 1 /\ tab' = tab
          /\ Held(callouts') = was[level]
        BY <1>1, <1>10, DiscardStep
    <2>2. /\ Present' = was[level] /\ Saved' = SavedOf(now, level - 1)
          /\ Held(callouts') \in Entries
        BY <1>4, <2>1
    <2>3. level \in 1 .. MaxLevel
        BY <1>2, <2>1, Constants
    <2>4. Saved' = Contract!Front(Saved) /\ Contract!Last(Saved) = was[level]
        BY <1>2, <1>3, <2>2, <2>3, SavedLess
    <2>5. Saved # << >>
        BY <1>2, <1>6, <2>1
    <2>6. InTime' = InTime
        BY <1>5, <2>1
    <2> QED  BY <2>2, <2>4, <2>5, <2>6 DEF Contract!Fail, Present, Saved, InTime
<1>11. ASSUME UNCHANGED avars
       PROVE  UNCHANGED Contract!cvars
    <2>1. Present' = Present /\ Saved' = Saved /\ InTime' = InTime
        <3>1. tab' = tab /\ level' = level /\ plist' = plist /\ callouts' = callouts
            BY <1>11 DEF avars
        <3> QED  BY <3>1 DEF Present, Saved, InTime, Before, Live, InTable, TimeIn
    <2> QED  BY <2>1 DEF Contract!cvars, Present, Saved, InTime
<1>12. ASSUME NEW o \in Objects, NEW v \in Vals, NEW d \in Delays, NewCallOut(o, v, d, NoMsec)
       PROVE  Contract!Change
    BY <1>1, <1>7, <1>12, NewStep
<1>13. ASSUME NEW o \in Objects, NEW h \in Handles, DelCallOut(o, h)
       PROVE  Contract!Change
    BY <1>1, <1>7, <1>13, DelStep
<1> QED  BY <1>8, <1>9, <1>10, <1>11, <1>12, <1>13 DEF ANext, Contract!CNext

(* Atomic code implements the contract: a callout that is started or       *)
(* removed is so in the dataspaces at once and in the table when the       *)
(* outermost function has succeeded, and an error at any depth restores    *)
(* every callout of the level that it ends, and leaves the table alone.    *)
THEOREM AtomicImplements == ASpec => ImplementsAtomic
<1>1. AInit => IInv
    BY AInitKnown
<1>2. IInv /\ [ANext]_avars => IInv'
    BY StepKnown
<1>3. AInit /\ IInv /\ Mapped => Contract!CInit
    BY InitContract
<1>4. IInv /\ Mapped /\ Mapped' /\ [ANext]_avars => [Contract!CNext]_(Contract!cvars)
    BY StepContract
<1> QED  BY <1>1, <1>2, <1>3, <1>4, AlwaysMapped, PTL DEF ASpec, ImplementsAtomic, Contract!Spec

===========================================================================
