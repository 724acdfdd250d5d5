---------------------------- MODULE SwapProofs ----------------------------
(***************************************************************************)
(* Blocks on the swap device, through snapshots, copying and restarts, for *)
(* every number of blocks, of sectors and of slots and every size of a     *)
(* block: the inductive invariant, that every step keeps it, and that with *)
(* it the tables of the device are sound, data are those that were last    *)
(* given, and the last snapshot can be restored.                           *)
(***************************************************************************)
EXTENDS SwapDeviceProofs

---------------------------------------------------------------------------
(* Blocks.                                                                 *)

(* A block that has still to be copied has its value in the snapshot.      *)
PendingOk(d, b, x, conv) ==
    /\ x.n > 0
    /\ d.mem[b] = << >> /\ d.mod[b] = "no"
    /\ Len(d.vec[b]) = x.n
    /\ \A k \in 1 .. x.n : /\ HasIn(d, d.dev.dump, d.vec[b][k], Content(b, k, x))
                           /\ ~conv => ~InSlot(d.dev, d.vec[b][k])

(* Any other has its value in memory, or on the device, or both, except    *)
(* for what mod says must be saved.                                        *)
BlockOk(d, b, x) ==
    /\ d.mem[b] \in {<< >>, Contents(b, x)}
    /\ Len(d.vec[b]) <= MaxVec
    /\ d.mod[b] # "no" => x.n > 0 /\ d.mem[b] # << >>
    /\ d.mod[b] # "all" => Len(d.vec[b]) = x.n
    /\ d.mod[b] = "var" =>
          /\ \E v \in {0, 1} : Has(d, d.vec[b][1], WithV(Content(b, 1, x), v))
          /\ \A k \in 2 .. x.n : Has(d, d.vec[b][k], Content(b, k, x))
    /\ d.mod[b] = "no" => \A k \in 1 .. x.n : Has(d, d.vec[b][k], Content(b, k, x))

(* The device and all blocks; those in pend have still to be copied.       *)
Sound(d, pend, x, conv) ==
    /\ d \in State /\ Apart(d.vec)
    /\ Numbers(d.dev.nsectors, d.dev.mfree, Held(d.vec, Blocks))
    /\ Cache(d.dev, Held(d.vec, Blocks))
    /\ Places(d.dev, Held(d.vec, Blocks), Held(d.vec, pend))
    /\ \A b \in pend : PendingOk(d, b, x[b], conv)
    /\ \A b \in Blocks \ pend : BlockOk(d, b, x[b])

---------------------------------------------------------------------------
(* The invariant.                                                          *)

(* A full snapshot is finished when all is copied from the one before.     *)
Pending == IF dumping # << >> THEN Head(dumping).omap ELSE omap

(* Which file is which: the swap file is not a snapshot while the device   *)
(* swaps, and is the last one while it is written or written to further.   *)
NamesOk ==
    LET new == names.snapshot
        old == names.old
    IN /\ names = [snapshot |-> new, old |-> old]
       /\ new \in Descriptor /\ old \in Descriptor
       /\ new = NoFile => old = NoFile
       /\ new # NoFile => old # new
       /\ dev.dump \in {NoFile, new, old}
       /\ IF Running /\ dev.swapping THEN dev.swap = NoFile \/ dev.swap \notin {new, old}
          ELSE dev.swap = new /\ dev.swap # NoFile /\ dev.dump \in {NoFile, old}
       /\ Pending # {} => /\ dev.dump = (IF Running /\ dev.swapping THEN new ELSE old)
                          /\ dev.dump # NoFile

(* While a snapshot is being written nothing is in memory only.            *)
Flushed ==
    LET pend == Head(dumping).omap
    IN /\ dumping = << [incr |-> Head(dumping).incr, omap |-> pend] >>
       /\ Head(dumping).incr \in BOOLEAN
       /\ mem = [b \in Blocks |-> << >>] /\ mod = [b \in Blocks |-> "no"]
       /\ \A i \in ToSet(dev.order) : ~dev.slot[i].dirty
       /\ ReadAt(disk, dev.swap, dev.ssectors) = MapSector
       /\ dev.ssectors + Extent(dev) <= MaxIndex
       /\ IF Head(dumping).incr THEN omap = pend
          ELSE pend = {} /\ omap = {b \in Blocks : vec[b] # << >>} /\ converted

(* The last snapshot: its sectors are sound, nothing above the barrier is  *)
(* of it, and while its files are there it has the values of that time.    *)
ImageOk(s) ==
    /\ s = [file |-> s.file, secondary |-> s.secondary, map |-> s.map, at |-> s.at,
            nsectors |-> s.nsectors, mfree |-> s.mfree, vec |-> s.vec, omap |-> s.omap,
            value |-> s.value]
    /\ s.file \in Files /\ s.secondary \in Descriptor /\ s.omap \subseteq Blocks
    /\ s.omap # {} => s.secondary # NoFile
    /\ s.map \in [Sectors -> Place] /\ s.nsectors \in Nat /\ s.mfree \in Seq(Sectors)
    /\ s.vec \in [Blocks -> Seq(Sectors)] /\ s.value \in [Blocks -> Value \cup {NoValue}]
    /\ s.at \in Nat
    /\ Apart(s.vec) /\ Numbers(s.nsectors, s.mfree, Held(s.vec, Blocks))
    /\ \A t \in Sectors : IF t \in Held(s.vec, Blocks) THEN s.map[t] # UNUSED /\ s.map[t] < MaxIndex
                          ELSE s.map[t] = UNUSED
    /\ \A b \in Blocks : Len(s.vec[b]) = s.value[b].n
    /\ \A b \in s.omap : s.value[b].n > 0
    /\ dev.swap = s.file =>
          s.at < dev.sbarrier /\ \A t \in Held(s.vec, Blocks \ s.omap) : s.map[t] < dev.sbarrier
    /\ IF Running \/ ~dev.swapping
       THEN s.file = names.snapshot /\ s.secondary \in {NoFile, names.old}
       ELSE s.file = names.old
    /\ Kept(s) =>
          /\ ReadAt(disk, s.file, s.at) = MapSector
          /\ \A b \in Blocks : \A k \in DOMAIN s.vec[b] :
                ReadAt(disk, IF b \in s.omap THEN s.secondary ELSE s.file, s.map[s.vec[b][k]])
                    = Content(b, k, s.value[b])

(* The inductive invariant.                                                *)
IInv ==
    /\ value \in [Blocks -> Value \cup {NoValue}]
    /\ omap \subseteq Blocks /\ Pending \subseteq Blocks
    /\ Sound(Now, Pending, value, converted)
    /\ dev.ssectors <= MaxIndex
    /\ NamesOk
    /\ dumping # << >> => Flushed
    /\ image # << >> => image = << image[1] >> /\ ImageOk(image[1])

(* All blocks and the device, with those in pend still in the snapshot.    *)
AllOk(d, pend) ==
    /\ d \in State /\ Apart(d.vec) /\ pend \subseteq Blocks
    /\ Numbers(d.dev.nsectors, d.dev.mfree, Held(d.vec, Blocks))
    /\ DeviceOk(d, Held(d.vec, Blocks), Held(d.vec, pend))
    /\ \A a \in Blocks : Len(d.vec[a]) <= MaxVec

(* A step of block b: of the others nothing is lost.                       *)
BlockStep(e, d, b, pend, pend2) ==
    /\ AllOk(e, pend2) /\ Writes(e, d) /\ Keeps(e, d, Rest(d.vec, b), Held(d.vec, pend))
    /\ \A a \in Blocks : a # b => /\ e.vec[a] = d.vec[a] /\ e.mem[a] = d.mem[a]
                                  /\ e.mod[a] = d.mod[a]

(* One list of sectors after another.                                      *)
Joined(s, t, new, R) ==
    /\ s \in Seq(Sectors) /\ Len(s) = Len(t) + Len(new) /\ ToSet(s) = ToSet(t) \cup ToSet(new)
    /\ \A j, k \in 1 .. Len(s) : s[j] = s[k] => j = k
    /\ \A k \in 1 .. Len(s) : s[k] \notin R

LEMMA JoinIs ==
    ASSUME NEW t \in Seq(Sectors), NEW new \in Seq(Sectors), NEW R, NEW G, R \subseteq G,
           ToSet(t) \subseteq G, \A j, k \in 1 .. Len(t) : t[j] = t[k] => j = k,
           \A j, k \in 1 .. Len(new) : new[j] = new[k] => j = k,
           \A k \in 1 .. Len(t) : t[k] \notin R, \A k \in 1 .. Len(new) : new[k] \notin G
    PROVE  Joined(t \o new, t, new, R)
<1> DEFINE s == t \o new
           m == Len(t)
           n == Len(t) + Len(new)
<1>1. /\ s \in Seq(Sectors) /\ Len(s) = n
      /\ \A k \in 1 .. m : s[k] = t[k]
      /\ \A k \in 1 .. Len(new) : s[m + k] = new[k]
    BY ConcatElem
<1>2. /\ m \in Nat /\ Len(new) \in Nat /\ n = m + Len(new) /\ n \in Nat
    OBVIOUS
<1> HIDE DEF s, m, n
<1>3. \A k \in 1 .. n : \/ k \in 1 .. m /\ s[k] = t[k] /\ s[k] \in ToSet(t)
                        \/ /\ k - m \in 1 .. Len(new)
                           /\ s[k] = new[k - m] /\ s[k] \notin G /\ s[k] \in ToSet(new)
    <2> TAKE k \in 1 .. n
    <2>1. CASE k <= m
        <3>1. k \in 1 .. m
            BY <1>2, <2>1
        <3> QED  BY <1>1, <3>1, ToSetIs DEF m
    <2>2. CASE k > m
        <3>1. k - m \in 1 .. Len(new) /\ m + (k - m) = k
            BY <1>2, <2>2
        <3>2. s[k] = new[k - m]
            BY <1>1, <3>1
        <3> QED  BY <3>1, <3>2, ToSetIs
    <2> QED  BY <1>2, <2>1, <2>2
<1>4. ToSet(s) = ToSet(t) \cup ToSet(new)
    <2>1. \A x : x \in ToSet(s) <=> \E k \in 1 .. n : s[k] = x
        <3>1. \A x : x \in ToSet(s) <=> \E k \in 1 .. Len(s) : s[k] = x
            BY <1>1, ToSetIs
        <3> QED  BY <1>1, <3>1
    <2>2. \A x \in ToSet(s) : x \in ToSet(t) \cup ToSet(new)
        BY <1>3, <2>1
    <2>3. \A x \in ToSet(t) : x \in ToSet(s)
        <3> TAKE x \in ToSet(t)
        <3>1. PICK k \in 1 .. m : t[k] = x
            BY ToSetIs DEF m
        <3>2. k \in 1 .. n
            BY <1>2
        <3> QED  BY <1>1, <2>1, <3>1, <3>2
    <2>4. \A x \in ToSet(new) : x \in ToSet(s)
        <3> TAKE x \in ToSet(new)
        <3>1. PICK k \in 1 .. Len(new) : new[k] = x
            BY ToSetIs
        <3>2. m + k \in 1 .. n
            BY <1>2
        <3> QED  BY <1>1, <2>1, <3>1, <3>2
    <2> QED  BY <2>2, <2>3, <2>4
<1>5. \A k \in 1 .. n : s[k] \notin R
    BY <1>3 DEF m
<1>6. \A j, k \in 1 .. n : s[j] = s[k] => j = k
    <2> SUFFICES ASSUME NEW j \in 1 .. n, NEW k \in 1 .. n, s[j] = s[k]  PROVE j = k
        OBVIOUS
    <2>1. CASE j \in 1 .. m /\ k \in 1 .. m /\ s[j] = t[j] /\ s[k] = t[k]
        BY <2>1 DEF m
    <2>2. CASE /\ j - m \in 1 .. Len(new) /\ s[j] = new[j - m]
               /\ k - m \in 1 .. Len(new) /\ s[k] = new[k - m]
        <3>1. j - m = k - m
            BY <2>2
        <3> QED  BY <1>2, <3>1
    <2> QED  BY <1>3, <2>1, <2>2
<1> QED  BY <1>1, <1>4, <1>5, <1>6 DEF Joined, s, m, n

Alloced(e, d, b, n, pend) ==
    /\ BlockStep(e, d, b, pend, pend) /\ e.mem = d.mem /\ e.mod = d.mod /\ Len(e.vec[b]) = n

LEMMA SwapAllocIs ==
    ASSUME NEW d, NEW pend, AllOk(d, pend), NEW b \in Blocks, b \notin pend, NEW n \in 1 .. MaxVec,
           NEW e, e = SwapAlloc(d, b, n)
    PROVE  Alloced(e, d, b, n, pend)
<1> DEFINE H == Held(d.vec, Blocks)
           P == Held(d.vec, pend)
           R == Rest(d.vec, b)
           had == d.vec[b]
           t == Cut(had, n)
           G == R \cup ToSet(t)
           c == [d EXCEPT !.dev = CutDev(d.dev, had, n)]
           size == n - Len(t)
           new == NewOnes(c.dev, size)
           g == [c EXCEPT !.dev = NewV(c.dev, size).dev]
           K == G \cup ToSet(new)
           vecs == Revec(d.vec, b, t \o new)
<1>1. /\ d \in State /\ d.dev \in Device /\ d.vec \in [Blocks -> Seq(Sectors)] /\ Apart(d.vec)
      /\ pend \subseteq Blocks \ {b}
      /\ DeviceOk(d, H, P) /\ Numbers(d.dev.nsectors, d.dev.mfree, H)
      /\ had \in Seq(Sectors) /\ Len(had) \in Nat /\ n \in Nat /\ n > 0 /\ n <= MaxVec
      /\ Len(had) <= MaxVec /\ d.dev.swap \in Descriptor
    <2>1. /\ d \in State /\ d.dev \in Device /\ d.vec \in [Blocks -> Seq(Sectors)] /\ Apart(d.vec)
          /\ pend \subseteq Blocks \ {b}
          /\ DeviceOk(d, H, P) /\ Numbers(d.dev.nsectors, d.dev.mfree, H)
          /\ Len(had) <= MaxVec
        BY DEF AllOk, State
    <2>2. had \in Seq(Sectors) /\ Len(had) \in Nat
        BY <2>1
    <2>3. n \in Nat /\ n > 0 /\ n <= MaxVec
        BY ConstantsAre
    <2> QED  BY <2>1, <2>2, <2>3, DeviceFields
<1>2. /\ OneBlock(had, Len(had), H, R) /\ H = R \cup ToSet(had) /\ P \subseteq R
      /\ \A k \in 1 .. Len(had) : had[k] \notin P
    <2>1. /\ d.vec \in [Blocks -> Seq(Sectors)] /\ Apart(d.vec) /\ b \in Blocks
          /\ pend \subseteq Blocks \ {b}
        BY <1>1
    <2> QED  BY ONLY <2>1, RestIs
<1> HIDE DEF H, P, R, had, t, c
<1>3. /\ CutOne(c, d, G, P, R, had, n, t) /\ Deleted(c, d, G, P, R)
      /\ t \in Seq(Sectors) /\ Len(t) = (IF Len(had) < n THEN Len(had) ELSE n)
      /\ \A k \in 1 .. Len(t) : t[k] = had[k]
    <2>1. /\ DeviceOk(d, H, P) /\ Numbers(d.dev.nsectors, d.dev.mfree, H)
          /\ had \in Seq(Sectors) /\ OneBlock(had, Len(had), H, R) /\ H = R \cup ToSet(had)
          /\ (\A k \in 1 .. Len(had) : had[k] \notin P) /\ n \in Nat /\ t = Cut(had, n)
          /\ c = [d EXCEPT !.dev = CutDev(d.dev, had, n)] /\ G = R \cup ToSet(t)
        BY <1>1, <1>2 DEF t, c
    <2>2. CutOne(c, d, G, P, R, had, n, t)
        <3> HIDE DEF G
        <3> QED  BY ONLY <2>1, CutIs
    <2> QED  BY <2>2 DEF CutOne
<1>4. /\ Len(t) \in Nat /\ Len(t) <= n /\ size \in Nat
      /\ size = (IF Len(had) < n THEN n - Len(had) ELSE 0)
      /\ \A k \in 1 .. Len(t) : t[k] \notin R
      /\ \A j, k \in 1 .. Len(t) : t[j] = t[k] => j = k
    <2>1. /\ Len(t) \in Nat /\ Len(t) <= n /\ size \in Nat
          /\ size = (IF Len(had) < n THEN n - Len(had) ELSE 0)
          /\ \A k \in 1 .. Len(t) : k \in 1 .. Len(had)
        BY <1>1, <1>3
    <2> QED  BY <1>2, <1>3, <2>1 DEF OneBlock
<1>5. /\ DeviceOk(c, G, P) /\ SameBlocks(c, d) /\ Writes(c, d) /\ c.dev \in Device
      /\ Keeps(c, d, R, P) /\ c.disk = d.disk /\ Numbers(c.dev.nsectors, c.dev.mfree, G)
      /\ c \in State
    BY <1>3 DEF Deleted, DeviceOk, State
<1>6. NewCount(c.dev, size) <= SWAPSIZE
    <2> DEFINE w == Revec(d.vec, b, t)
    <2>1. NewVec(d.vec, b, t, w)
        BY <1>1, <1>3, RevecIs
    <2> HIDE DEF w
    <2>2. /\ w \in [Blocks -> Seq(Sectors)] /\ w[b] = t /\ Held(w, Blocks) = G
          /\ \A a \in Blocks : a # b => w[a] = d.vec[a]
        BY <2>1 DEF NewVec, R
    <2>3. \A a \in Blocks : Len(w[a]) <= MaxVec
        <3> TAKE a \in Blocks
        <3>1. CASE a = b
            BY <1>1, <1>4, <2>2, <3>1, ConstantsAre
        <3>2. CASE a # b
            BY <2>2, <3>2 DEF AllOk
        <3> QED  BY <3>1, <3>2
    <2>4. Numbers(c.dev.nsectors, c.dev.mfree, Held(w, Blocks))
        BY <1>5, <2>2
    <2>5. NewCount(c.dev, n - Len(w[b])) <= SWAPSIZE
        BY <1>4, <1>5, <2>2, <2>3, <2>4, RoomIs
    <2> QED  BY <2>2, <2>5
<1>7. /\ new \in Seq(Sectors) /\ Len(new) = size
      /\ \A j, k \in 1 .. size : new[j] = new[k] => j = k
      /\ \A k \in 1 .. size : new[k] \notin G
    <2>1. NewNumbers(c.dev, G, size, new, K)
        <3>1. /\ c.dev \in Device /\ Numbers(c.dev.nsectors, c.dev.mfree, G) /\ size \in Nat
              /\ NewCount(c.dev, size) <= SWAPSIZE /\ new = NewOnes(c.dev, size)
              /\ K = G \cup ToSet(new)
            BY <1>4, <1>5, <1>6
        <3> HIDE DEF new, K, G, size
        <3> QED  BY ONLY <3>1, NumbersNew
    <2> QED  BY <2>1 DEF NewNumbers
<1>8. Grown(g, c, G, K, P) /\ NewV(c.dev, size).vec = new
    <2>1. /\ DeviceOk(c, G, P) /\ Numbers(c.dev.nsectors, c.dev.mfree, G) /\ size \in Nat
          /\ NewCount(c.dev, size) <= SWAPSIZE
          /\ g = [c EXCEPT !.dev = NewV(c.dev, size).dev] /\ K = G \cup ToSet(NewOnes(c.dev, size))
        BY <1>4, <1>5, <1>6
    <2> HIDE DEF G, K, size, g
    <2> QED  BY ONLY <2>1, NewVIs DEF new
<1> HIDE DEF size, new, g
<1>9. /\ DeviceOk(g, K, P) /\ Numbers(g.dev.nsectors, g.dev.mfree, K) /\ SameBlocks(g, c)
      /\ Writes(g, c) /\ g.disk = c.disk /\ Keeps(g, c, G, P) /\ g \in State
    BY <1>8 DEF Grown, DeviceOk
<1>10. e = [g EXCEPT !.vec = vecs]
    <2>1. e = [d EXCEPT !.dev = NewV(c.dev, size).dev, !.vec[b] = t \o new]
        <3>1. c.dev = CutDev(d.dev, had, n)
            BY <1>1 DEF c, State
        <3>2. SwapAlloc(d, b, n) = [d EXCEPT !.dev = NewV(CutDev(d.dev, had, n), size).dev,
                                           !.vec[b] = t \o NewV(CutDev(d.dev, had, n), size).vec]
            BY <1>4 DEF SwapAlloc, CutDev, Cut, had, t
        <3> QED  BY <1>8, <3>1, <3>2
    <2>2. g = [d EXCEPT !.dev = NewV(c.dev, size).dev]
        BY <1>1 DEF g, c, State
    <2> QED  BY <1>1, <2>1, <2>2 DEF Revec, State
<1>11. /\ t \o new \in Seq(Sectors) /\ Len(t \o new) = n
       /\ ToSet(t \o new) = ToSet(t) \cup ToSet(new)
       /\ \A j, k \in 1 .. n : (t \o new)[j] = (t \o new)[k] => j = k
       /\ \A k \in 1 .. n : (t \o new)[k] \notin R
    <2>1. Joined(t \o new, t, new, R)
        <3>1. /\ t \in Seq(Sectors) /\ new \in Seq(Sectors) /\ R \subseteq G /\ ToSet(t) \subseteq G
              /\ \A j, k \in 1 .. Len(t) : t[j] = t[k] => j = k
              /\ \A j, k \in 1 .. Len(new) : new[j] = new[k] => j = k
              /\ (\A k \in 1 .. Len(t) : t[k] \notin R)
              /\ (\A k \in 1 .. Len(new) : new[k] \notin G)
            BY <1>3, <1>4, <1>7
        <3> HIDE DEF G
        <3> QED  BY ONLY <3>1, JoinIs
    <2>2. Len(t) + Len(new) = n
        BY <1>1, <1>4, <1>7 DEF size
    <2> QED  BY <2>1, <2>2 DEF Joined
<1> HIDE DEF vecs
<1>12. /\ NewVec(d.vec, b, t \o new, vecs) /\ Apart(vecs)
    <2> DEFINE s == t \o new
    <2>1. /\ d.vec \in [Blocks -> Seq(Sectors)] /\ Apart(d.vec) /\ b \in Blocks
          /\ s \in Seq(Sectors) /\ vecs = Revec(d.vec, b, s)
          /\ \A j, k \in 1 .. Len(s) : s[j] = s[k] => j = k
          /\ \A k \in 1 .. Len(s) : s[k] \notin Rest(d.vec, b)
        BY <1>1, <1>11 DEF vecs, R
    <2> HIDE DEF s
    <2>2. NewVec(d.vec, b, s, vecs) /\ Apart(vecs)
        BY ONLY <2>1, RevecIs
    <2> QED  BY <2>2 DEF s
<1>13. /\ vecs \in [Blocks -> Seq(Sectors)] /\ Len(vecs[b]) = n
       /\ \A a \in Blocks : a # b => vecs[a] = d.vec[a]
       /\ Held(vecs, Blocks) = K /\ Held(vecs, pend) = P
    <2>1. /\ vecs \in [Blocks -> Seq(Sectors)] /\ vecs[b] = t \o new
          /\ \A a \in Blocks : a # b => vecs[a] = d.vec[a]
          /\ Held(vecs, Blocks) = R \cup ToSet(t \o new)
        BY <1>12 DEF NewVec, R
    <2>2. Held(vecs, pend) = P
        BY <1>1, <1>12 DEF NewVec, P
    <2>3. R \cup ToSet(t \o new) = K
        BY <1>11
    <2> QED  BY <1>11, <2>1, <2>2, <2>3
<1>14. /\ e \in State /\ e.dev = g.dev /\ e.disk = g.disk /\ e.mem = d.mem /\ e.mod = d.mod
       /\ e.vec = vecs
    BY <1>5, <1>9, <1>10, <1>13 DEF State, SameBlocks
<1>15. /\ DeviceOk(e, K, P) /\ SameNumbers(e, g) /\ Writes(e, g) /\ Keeps(e, g, R, P)
    BY <1>9, <1>14, SameDevice
<1>16. Writes(e, d) /\ Keeps(e, d, R, P)
    <2>1. Keeps(g, c, R, P)
        <3>1. R \subseteq G
            OBVIOUS
        <3> QED  BY <1>9, <3>1, KeepsSome
    <2>2. Writes(g, d) /\ Keeps(g, d, R, P)
        BY <1>1, <1>5, <1>9, <2>1, WritesOn, KeepsOn
    <2> QED  BY <1>1, <1>15, <2>2, WritesOn, KeepsOn
<1>17. AllOk(e, pend)
    <2>1. Numbers(e.dev.nsectors, e.dev.mfree, K)
        BY <1>9, <1>14
    <2>2. \A a \in Blocks : Len(e.vec[a]) <= MaxVec
        <3> TAKE a \in Blocks
        <3>1. CASE a = b
            BY <1>1, <1>13, <1>14, <3>1
        <3>2. CASE a # b
            BY <1>13, <1>14, <3>2 DEF AllOk
        <3> QED  BY <3>1, <3>2
    <2> HIDE DEF K
    <2> QED  BY <1>1, <1>12, <1>13, <1>14, <1>15, <2>1, <2>2 DEF AllOk
<1> QED  BY <1>13, <1>14, <1>16, <1>17 DEF Alloced, BlockStep, P, R

---------------------------------------------------------------------------
(* What is done to a block.                                                *)

AnyValue == Value \cup {NoValue}

LEMMA ValueIs ==
    ASSUME NEW x \in AnyValue, NEW b \in Blocks
    PROVE  /\ x.n \in Nat /\ x.n <= MaxVec /\ x.v \in {0, 1}
           /\ Contents(b, x) \in Seq(Data) /\ Len(Contents(b, x)) = x.n
           /\ \A k \in 1 .. x.n : /\ Contents(b, x)[k] = Content(b, k, x)
                                  /\ Content(b, k, x) \in Data
           /\ Contents(b, x) = << >> <=> x.n = 0
           /\ Contents(b, x) = First(b, x, x.n)
<1>1. x.n \in Nat /\ x.n <= MaxVec /\ x.v \in {0, 1}
    BY ConstantsAre DEF AnyValue, Value, NoValue
<1>2. \A k \in 1 .. x.n : Content(b, k, x) \in Data
    <2> TAKE k \in 1 .. x.n
    <2>1. x.n \in 1 .. MaxVec /\ k \in 1 .. MaxVec
        BY <1>1, ConstantsAre
    <2> QED  BY <1>1, <2>1 DEF Content, Data
<1>3. /\ Contents(b, x) \in Seq(Data) /\ Len(Contents(b, x)) = x.n
      /\ \A k \in 1 .. x.n : Contents(b, x)[k] = Content(b, k, x)
    BY <1>1, <1>2 DEF Contents
<1>4. Contents(b, x) = << >> <=> x.n = 0
    <2>1. Contents(b, x) = << >> <=> Len(Contents(b, x)) = 0
        BY <1>3
    <2> QED  BY <1>3, <2>1
<1> QED  BY <1>1, <1>2, <1>3, <1>4 DEF Contents, First

(* The block is as it should be, and the others are as they were.          *)
BlockGoes(e, d, b, pend, x) == BlockStep(e, d, b, pend, pend \ {b}) /\ BlockOk(e, b, x)

(* The sectors of the snapshot without those of a block.                   *)
LEMMA LeftIs ==
    ASSUME NEW vecs \in [Blocks -> Seq(Sectors)], Apart(vecs), NEW pend \in SUBSET Blocks,
           NEW b \in pend
    PROVE  /\ Left(Held(vecs, pend), vecs[b], Len(vecs[b])) = Held(vecs, pend \ {b})
           /\ \A k \in 1 .. Len(vecs[b]) : vecs[b][k] \in Held(vecs, pend)
<1>1. \A t : t \in ToSet(vecs[b]) <=> \E j \in 1 .. Len(vecs[b]) : vecs[b][j] = t
    BY ToSetIs
<1>2. \A t : t \in Held(vecs, pend) <=> \E a \in pend : t \in ToSet(vecs[a])
    BY DEF Held
<1>3. \A t : t \in Held(vecs, pend \ {b}) <=> \E a \in pend : a # b /\ t \in ToSet(vecs[a])
    BY DEF Held
<1>4. \A t : \A a \in pend : a # b /\ t \in ToSet(vecs[a]) => t \notin ToSet(vecs[b])
    BY DEF Apart
<1>5. \A t : t \in Left(Held(vecs, pend), vecs[b], Len(vecs[b])) <=> t \in Held(vecs, pend \ {b})
    <2>1. \A t : t \in Left(Held(vecs, pend), vecs[b], Len(vecs[b]))
                    <=> t \in Held(vecs, pend) /\ t \notin ToSet(vecs[b])
        BY <1>1 DEF Left
    <2> QED  BY <1>2, <1>3, <1>4, <2>1
<1> QED  BY <1>1, <1>2, <1>5

(* The block has been read, with the mark u set.                           *)
HasRead(e, d, b, pend, x, y, u) ==
    /\ BlockStep(e, d, b, pend, pend \ {b}) /\ e.mem[b] = Contents(b, x) /\ e.mod[b] = u
    /\ e.vec = d.vec /\ e.dev = y.dev /\ e.disk = y.disk

LEMMA ReadStep ==
    ASSUME NEW d, NEW pend, AllOk(d, pend), NEW b \in Blocks, NEW x \in AnyValue, NEW y,
           ReadTo(y, d, Held(d.vec, Blocks), Held(d.vec, pend), Held(d.vec, pend \ {b}), b,
                  Rest(d.vec, b), x.n, x),
           NEW u \in {"no", "var", "all"}, NEW e, e = [y EXCEPT !.mod[b] = u]
    PROVE  HasRead(e, d, b, pend, x, y, u)
<1> DEFINE H == Held(d.vec, Blocks)
           P == Held(d.vec, pend)
           Q == Held(d.vec, pend \ {b})
           R == Rest(d.vec, b)
<1>1. /\ DeviceOk(y, H, Q) /\ SameNumbers(y, d) /\ Writes(y, d) /\ Keeps(y, d, R, P)
      /\ y.vec = d.vec /\ y.mod = d.mod /\ y.mem = [d.mem EXCEPT ![b] = Contents(b, x)]
    BY ValueIs DEF ReadTo
<1> HIDE DEF H, P, Q, R
<1>2. /\ y \in State /\ d \in State /\ d.dev.swap \in Descriptor
    BY <1>1, DeviceFields DEF AllOk, DeviceOk, State
<1>3. /\ e \in State /\ e.dev = y.dev /\ e.disk = y.disk /\ e.vec = y.vec /\ e.mem = y.mem
      /\ e.mod = [y.mod EXCEPT ![b] = u]
    BY <1>2 DEF State
<1>4. /\ DeviceOk(e, H, Q) /\ SameNumbers(e, y) /\ Writes(e, y) /\ Keeps(e, y, R, P)
    BY <1>1, <1>3, SameDevice
<1>5. Writes(e, d) /\ Keeps(e, d, R, P)
    BY <1>1, <1>2, <1>4, WritesOn, KeepsOn
<1>6. /\ e.mem[b] = Contents(b, x) /\ e.mod[b] = u
      /\ \A a \in Blocks : a # b => e.mem[a] = d.mem[a] /\ e.mod[a] = d.mod[a]
    <2>1. d.mem \in [Blocks -> Seq(Data)] /\ d.mod \in [Blocks -> {"no", "var", "all"}]
        BY <1>2 DEF State
    <2> QED  BY <1>1, <1>3, <2>1
<1>7. AllOk(e, pend \ {b})
    <2>1. e.dev.nsectors = d.dev.nsectors /\ e.dev.mfree = d.dev.mfree
        BY <1>1, <1>4 DEF SameNumbers
    <2> QED  BY <1>1, <1>3, <1>4, <2>1 DEF AllOk, H, Q
<1> QED  BY <1>1, <1>3, <1>5, <1>6, <1>7 DEF HasRead, BlockStep, R, P

(* o_dataspace() of a block with sectors of its own.                       *)
LEMMA ReadBlock ==
    ASSUME NEW d, NEW pend, AllOk(d, pend), NEW b \in Blocks, b \notin pend, NEW x \in AnyValue,
           BlockOk(d, b, x), d.mem[b] = << >>, NEW e, e = ReadV(d, b)
    PROVE  BlockGoes(e, d, b, pend, x)
<1> DEFINE H == Held(d.vec, Blocks)
           P == Held(d.vec, pend)
           R == Rest(d.vec, b)
<1>1. /\ d \in State /\ d.vec \in [Blocks -> Seq(Sectors)] /\ Apart(d.vec)
      /\ pend \subseteq Blocks \ {b} /\ pend \ {b} = pend
      /\ DeviceOk(d, H, P)
    BY DEF AllOk, State
<1>2. /\ d.mod[b] = "no" /\ Len(d.vec[b]) = x.n /\ x.n <= MaxVec /\ x.n \in Nat
      /\ \A k \in 1 .. x.n : Has(d, d.vec[b][k], Content(b, k, x))
    <2>1. d.mod[b] = "no"
        BY DEF BlockOk
    <2> QED  BY <2>1, ValueIs DEF BlockOk
<1>3. /\ OneBlock(d.vec[b], x.n, H, R) /\ \A k \in 1 .. x.n : d.vec[b][k] \notin P
    BY <1>1, <1>2, RestIs
<1>4. /\ ReadTo(e, d, H, P, P, b, R, x.n, x)
      /\ \A k \in 1 .. x.n : Has(e, d.vec[b][k], Content(b, k, x))
    <2>1. /\ DeviceOk(d, H, P) /\ b \in Blocks /\ d.mem[b] = << >> /\ OneBlock(d.vec[b], x.n, H, R)
          /\ (\A k \in 1 .. x.n : d.vec[b][k] \notin P)
          /\ \A k \in 1 .. x.n : Has(d, d.vec[b][k], Content(b, k, x))
        BY <1>1, <1>2, <1>3
    <2>2. /\ ReadTo(ReadV(d, b), d, H, P, P, b, R, x.n, x)
          /\ \A k \in 1 .. x.n : Has(ReadV(d, b), d.vec[b][k], Content(b, k, x))
        <3> HIDE DEF H, P, R
        <3> QED  BY ONLY <2>1, ReadVIs
    <2> QED  BY <2>2
<1>5. e.mod[b] = "no" /\ e \in State /\ e = [e EXCEPT !.mod[b] = "no"]
    <2>1. e \in State /\ e.mod = d.mod
        BY <1>4 DEF ReadTo, DeviceOk
    <2> QED  BY <1>2, <2>1 DEF State
<1>6. HasRead(e, d, b, pend, x, e, "no")
    <2>1. ReadTo(e, d, Held(d.vec, Blocks), Held(d.vec, pend), Held(d.vec, pend \ {b}), b,
                  Rest(d.vec, b), x.n, x)
        BY <1>1, <1>4
    <2> QED  BY <1>5, <2>1, ReadStep
<1>7. BlockOk(e, b, x)
    BY <1>2, <1>4, <1>5, <1>6 DEF HasRead, BlockOk
<1> QED  BY <1>6, <1>7 DEF BlockGoes, HasRead

(* What is in the snapshot f of a block.                                   *)
PendingIn(d, b, f, x, conv) ==
    /\ x.n > 0 /\ d.mem[b] = << >> /\ d.mod[b] = "no" /\ Len(d.vec[b]) = x.n
    /\ \A k \in 1 .. x.n : HasIn(d, f, d.vec[b][k], Content(b, k, x))
    /\ ~conv => \A k \in 1 .. x.n : ~InSlot(d.dev, d.vec[b][k])
    /\ f \in Files /\ f \in {names.snapshot, names.old} /\ d.dev.swap # f

(* d_restore_obj(), through the cache or not.                              *)
LEMMA RestoreRead ==
    ASSUME NEW d, NEW pend, AllOk(d, pend), NEW b \in pend, NEW x \in AnyValue, NEW y,
           ReadTo(y, d, Held(d.vec, Blocks), Held(d.vec, pend),
                  Left(Held(d.vec, pend), d.vec[b], x.n), b, Rest(d.vec, b), x.n, x),
           x.n > 0, Len(d.vec[b]) = x.n,
           NEW e, e = [y EXCEPT !.mod[b] = "all"]
    PROVE  BlockGoes(e, d, b, pend, x)
<1>1. /\ d.vec \in [Blocks -> Seq(Sectors)] /\ Apart(d.vec) /\ pend \in SUBSET Blocks
      /\ b \in Blocks /\ Len(d.vec[b]) <= MaxVec
    BY DEF AllOk, State
<1>2. Left(Held(d.vec, pend), d.vec[b], x.n) = Held(d.vec, pend \ {b})
    BY <1>1, LeftIs
<1>3. HasRead(e, d, b, pend, x, y, "all")
    <2>1. ReadTo(y, d, Held(d.vec, Blocks), Held(d.vec, pend), Held(d.vec, pend \ {b}), b,
                  Rest(d.vec, b), x.n, x)
        BY <1>2
    <2> QED  BY <1>1, <2>1, ReadStep
<1>4. BlockOk(e, b, x)
    <2>1. Contents(b, x) # << >>
        BY <1>1, ValueIs
    <2> QED  BY <1>1, <1>3, <2>1 DEF HasRead, BlockOk
<1> QED  BY <1>3, <1>4 DEF BlockGoes, HasRead

LEMMA CopyBlock ==
    ASSUME NEW d, NEW pend, AllOk(d, pend), NEW b \in pend, NEW x \in AnyValue, NEW conv,
           PendingIn(d, b, d.dev.dump, x, conv),
           NEW e, e = [DReadV(d, b) EXCEPT !.mod[b] = "all"]
    PROVE  BlockGoes(e, d, b, pend, x)
<1> DEFINE H == Held(d.vec, Blocks)
           P == Held(d.vec, pend)
           R == Rest(d.vec, b)
<1>1. /\ d.vec \in [Blocks -> Seq(Sectors)] /\ Apart(d.vec) /\ pend \in SUBSET Blocks
      /\ b \in Blocks /\ DeviceOk(d, H, P)
    BY DEF AllOk, State
<1>2. /\ x.n > 0 /\ d.mem[b] = << >> /\ Len(d.vec[b]) = x.n /\ d.dev.dump # NoFile
      /\ \A k \in 1 .. x.n : HasIn(d, d.dev.dump, d.vec[b][k], Content(b, k, x))
    BY ConstantsAre DEF PendingIn
<1>3. OneBlock(d.vec[b], x.n, H, R)
    <2>1. /\ d.vec \in [Blocks -> Seq(Sectors)] /\ Apart(d.vec) /\ b \in Blocks
          /\ {} \subseteq Blocks \ {b}
        BY <1>1
    <2>2. OneBlock(d.vec[b], Len(d.vec[b]), Held(d.vec, Blocks), Rest(d.vec, b))
        BY ONLY <2>1, RestIs
    <2> QED  BY <1>2, <2>2
<1>4. \A k \in 1 .. x.n : d.vec[b][k] \in P
    BY <1>1, <1>2, LeftIs
<1>5. ReadTo(DReadV(d, b), d, H, P, Left(P, d.vec[b], x.n), b, R, x.n, x)
    <2>1. /\ DeviceOk(d, H, P) /\ b \in Blocks /\ d.mem[b] = << >> /\ OneBlock(d.vec[b], x.n, H, R)
          /\ (\A k \in 1 .. x.n : d.vec[b][k] \in P) /\ d.dev.dump # NoFile
          /\ \A k \in 1 .. x.n : HasIn(d, d.dev.dump, d.vec[b][k], Content(b, k, x))
        BY <1>1, <1>2, <1>3, <1>4
    <2> HIDE DEF H, P, R
    <2> QED  BY ONLY <2>1, DReadVIs
<1>6. /\ AllOk(d, pend) /\ b \in pend /\ x \in AnyValue
      /\ ReadTo(DReadV(d, b), d, H, P, Left(P, d.vec[b], x.n), b, R, x.n, x)
      /\ x.n > 0 /\ Len(d.vec[b]) = x.n /\ e = [DReadV(d, b) EXCEPT !.mod[b] = "all"]
    BY <1>2, <1>5
<1> QED  BY ONLY <1>6, RestoreRead

LEMMA ConvBlock ==
    ASSUME NEW d, NEW pend, AllOk(d, pend), NEW b \in pend, NEW x \in AnyValue, NEW f,
           PendingIn(d, b, f, x, FALSE),
           NEW e, e = [Conv(d, b, f) EXCEPT !.mod[b] = "all"]
    PROVE  BlockGoes(e, d, b, pend, x)
<1> DEFINE H == Held(d.vec, Blocks)
           P == Held(d.vec, pend)
           R == Rest(d.vec, b)
<1>1. /\ d.vec \in [Blocks -> Seq(Sectors)] /\ Apart(d.vec) /\ pend \in SUBSET Blocks
      /\ b \in Blocks /\ DeviceOk(d, H, P)
    BY DEF AllOk, State
<1>2. /\ x.n > 0 /\ d.mem[b] = << >> /\ Len(d.vec[b]) = x.n
      /\ f \in Files /\ f \in {names.snapshot, names.old, d.dev.dump} /\ d.dev.swap # f
      /\ \A k \in 1 .. x.n : /\ HasIn(d, f, d.vec[b][k], Content(b, k, x))
                             /\ ~InSlot(d.dev, d.vec[b][k])
    BY DEF PendingIn
<1>3. OneBlock(d.vec[b], x.n, H, R)
    <2>1. /\ d.vec \in [Blocks -> Seq(Sectors)] /\ Apart(d.vec) /\ b \in Blocks
          /\ {} \subseteq Blocks \ {b}
        BY <1>1
    <2>2. OneBlock(d.vec[b], Len(d.vec[b]), Held(d.vec, Blocks), Rest(d.vec, b))
        BY ONLY <2>1, RestIs
    <2> QED  BY <1>2, <2>2
<1>4. \A k \in 1 .. x.n : d.vec[b][k] \in P
    BY <1>1, <1>2, LeftIs
<1>5. ReadTo(Conv(d, b, f), d, H, P, Left(P, d.vec[b], x.n), b, R, x.n, x)
    <2>1. /\ DeviceOk(d, H, P) /\ b \in Blocks /\ d.mem[b] = << >> /\ OneBlock(d.vec[b], x.n, H, R)
          /\ (\A k \in 1 .. x.n : d.vec[b][k] \in P) /\ d.dev.swap # f
          /\ f \in Files /\ f \in {names.snapshot, names.old, d.dev.dump}
          /\ \A k \in 1 .. x.n : /\ HasIn(d, f, d.vec[b][k], Content(b, k, x))
                                 /\ ~InSlot(d.dev, d.vec[b][k])
        BY <1>1, <1>2, <1>3, <1>4
    <2> HIDE DEF H, P, R
    <2> QED  BY ONLY <2>1, ConvIs
<1>6. /\ AllOk(d, pend) /\ b \in pend /\ x \in AnyValue
      /\ ReadTo(Conv(d, b, f), d, H, P, Left(P, d.vec[b], x.n), b, R, x.n, x)
      /\ x.n > 0 /\ Len(d.vec[b]) = x.n /\ e = [Conv(d, b, f) EXCEPT !.mod[b] = "all"]
    BY <1>2, <1>5
<1> QED  BY ONLY <1>6, RestoreRead

LEMMA RestoreBlock ==
    ASSUME NEW d, NEW pend, AllOk(d, pend), NEW b \in pend, NEW x \in AnyValue,
           PendingIn(d, b, d.dev.dump, x, converted),
           NEW e, e = RestoreObj(d, b)
    PROVE  BlockGoes(e, d, b, pend, x)
<1>1. CASE converted
    <2>1. e = [DReadV(d, b) EXCEPT !.mod[b] = "all"]
        BY <1>1 DEF RestoreObj
    <2> QED  BY <2>1, CopyBlock
<1>2. CASE ~converted
    <2>1. e = [Conv(d, b, d.dev.dump) EXCEPT !.mod[b] = "all"]
        BY <1>2 DEF RestoreObj
    <2>2. PendingIn(d, b, d.dev.dump, x, FALSE)
        BY <1>2 DEF PendingIn
    <2>3. /\ AllOk(d, pend) /\ b \in pend /\ x \in AnyValue
          /\ e = [Conv(d, b, d.dev.dump) EXCEPT !.mod[b] = "all"]
        BY <2>1
    <2> QED  BY ONLY <2>2, <2>3, ConvBlock
<1> QED  BY <1>1, <1>2

LEMMA SameRest ==
    ASSUME NEW u, NEW w, NEW b, \A a \in Blocks : a # b => w[a] = u[a],
           NEW pend, NEW pend2, pend \subseteq Blocks, pend2 \ {b} = pend \ {b},
           Apart(u), Apart(w), b \in Blocks
    PROVE  /\ Rest(w, b) = Rest(u, b)
           /\ \A t \in Rest(u, b) : t \in Held(w, pend2) <=> t \in Held(u, pend)
<1>1. \A t : t \in Rest(w, b) <=> \E a \in Blocks : a # b /\ t \in ToSet(w[a])
    BY DEF Rest, Held
<1>2. \A t : t \in Rest(u, b) <=> \E a \in Blocks : a # b /\ t \in ToSet(u[a])
    BY DEF Rest, Held
<1>3. \A t : t \in Rest(w, b) <=> t \in Rest(u, b)
    BY <1>1, <1>2
<1>4. \A t \in Rest(u, b) : t \notin ToSet(u[b]) /\ t \notin ToSet(w[b])
    <2>1. \A t : \A a \in Blocks : a # b /\ t \in ToSet(u[a]) => t \notin ToSet(u[b])
        BY DEF Apart
    <2>2. \A t : \A a \in Blocks : a # b /\ t \in ToSet(w[a]) => t \notin ToSet(w[b])
        BY DEF Apart
    <2> QED  BY <1>1, <1>2, <1>3, <2>1, <2>2
<1>5. \A t \in Rest(u, b) : t \in Held(u, pend)
                                <=> \E a \in pend : a # b /\ t \in ToSet(u[a])
    BY <1>4 DEF Held
<1>6. \A t \in Rest(u, b) : t \in Held(w, pend2)
                                <=> \E a \in pend2 : a # b /\ t \in ToSet(w[a])
    BY <1>4 DEF Held
<1>7. \A a : a # b => (a \in pend2 <=> a \in pend)
    OBVIOUS
<1>8. \A t \in Rest(u, b) : t \in Held(w, pend2) <=> t \in Held(u, pend)
    BY <1>5, <1>6, <1>7
<1> QED  BY <1>3, <1>8

(* One step of a block after another.                                      *)
LEMMA BlockStepOn ==
    ASSUME NEW d, NEW e, NEW g, NEW b \in Blocks, NEW pend, NEW pend2, NEW pend3,
           AllOk(d, pend), BlockStep(e, d, b, pend, pend2), BlockStep(g, e, b, pend2, pend3),
           pend2 \ {b} = pend \ {b}
    PROVE  BlockStep(g, d, b, pend, pend3)
<1>1. /\ Rest(e.vec, b) = Rest(d.vec, b)
      /\ \A t \in Rest(d.vec, b) : t \in Held(e.vec, pend2) <=> t \in Held(d.vec, pend)
    BY SameRest DEF BlockStep, AllOk
<1>2. Keeps(g, e, Rest(d.vec, b), Held(d.vec, pend))
    <2> DEFINE R == Rest(d.vec, b)
               P == Held(d.vec, pend)
               Q == Held(e.vec, pend2)
    <2>1. Keeps(g, e, R, Q) /\ R \subseteq R /\ \A t \in R : t \in P <=> t \in Q
        BY <1>1 DEF BlockStep
    <2> HIDE DEF R, P, Q
    <2>2. Keeps(g, e, R, P)
        BY ONLY <2>1, KeepsSome
    <2> QED  BY <2>2 DEF R, P
<1>3. Keeps(e, d, Rest(d.vec, b), Held(d.vec, pend)) /\ Writes(e, d) /\ Writes(g, e)
    BY DEF BlockStep
<1>4. d.dev.swap \in Descriptor
    BY DeviceFields DEF AllOk, State
<1>5. Writes(g, d) /\ Keeps(g, d, Rest(d.vec, b), Held(d.vec, pend))
    BY <1>2, <1>3, <1>4, WritesOn, KeepsOn
<1> QED  BY <1>5 DEF BlockStep

(* A step that leaves the vectors alone.                                   *)
LEMMA PlainStep ==
    ASSUME NEW d, NEW pend, AllOk(d, pend), NEW b \in Blocks, NEW e,
           DeviceOk(e, Held(d.vec, Blocks), Held(d.vec, pend)), SameNumbers(e, d),
           Writes(e, d), Keeps(e, d, Rest(d.vec, b), Held(d.vec, pend)), e.vec = d.vec,
           \A a \in Blocks : a # b => e.mem[a] = d.mem[a] /\ e.mod[a] = d.mod[a]
    PROVE  BlockStep(e, d, b, pend, pend)
<1>1. e.dev.nsectors = d.dev.nsectors /\ e.dev.mfree = d.dev.mfree /\ e \in State
    BY DEF SameNumbers, DeviceOk
<1>2. AllOk(e, pend)
    BY <1>1 DEF AllOk
<1> QED  BY <1>2 DEF BlockStep

(* What is in memory of a block is changed, or given up.                   *)
MemorySet(e, d, b, pend, m, u) ==
    /\ BlockStep(e, d, b, pend, pend) /\ e.vec = d.vec /\ e.mem[b] = m /\ e.mod[b] = u
    /\ \A t, c : Has(e, t, c) <=> Has(d, t, c)

LEMMA SetMemory ==
    ASSUME NEW d, NEW pend, AllOk(d, pend), NEW b \in Blocks, NEW e, NEW m \in Seq(Data),
           NEW u \in {"no", "var", "all"}, e = [d EXCEPT !.mem[b] = m, !.mod[b] = u]
    PROVE  MemorySet(e, d, b, pend, m, u)
<1>1. d \in State
    BY DEF AllOk
<1>2. /\ e \in State /\ e.dev = d.dev /\ e.disk = d.disk /\ e.vec = d.vec
      /\ e.mem = [d.mem EXCEPT ![b] = m] /\ e.mod = [d.mod EXCEPT ![b] = u]
    BY <1>1 DEF State
<1>3. DeviceOk(d, Held(d.vec, Blocks), Held(d.vec, pend))
    BY DEF AllOk
<1>4. /\ DeviceOk(e, Held(d.vec, Blocks), Held(d.vec, pend)) /\ SameNumbers(e, d) /\ Writes(e, d)
      /\ Keeps(e, d, Rest(d.vec, b), Held(d.vec, pend))
      /\ \A t, c : Has(e, t, c) <=> Has(d, t, c)
    <2> DEFINE H == Held(d.vec, Blocks)
               P == Held(d.vec, pend)
    <2> HIDE DEF H, P
    <2>1. e \in State /\ DeviceOk(d, H, P) /\ e.dev = d.dev /\ e.disk = d.disk
        BY <1>2, <1>3 DEF H, P
    <2>2. /\ DeviceOk(e, H, P) /\ SameNumbers(e, d) /\ Writes(e, d)
          /\ \A S, Q : Keeps(e, d, S, Q)
          /\ \A t, c : Has(e, t, c) <=> Has(d, t, c)
        BY ONLY <2>1, SameDevice
    <2> QED  BY <2>2 DEF H, P
<1>5. /\ e.mem[b] = m /\ e.mod[b] = u
      /\ \A a \in Blocks : a # b => e.mem[a] = d.mem[a] /\ e.mod[a] = d.mod[a]
    <2>1. d.mem \in [Blocks -> Seq(Data)] /\ d.mod \in [Blocks -> {"no", "var", "all"}]
        BY <1>1 DEF State
    <2> QED  BY <1>2, <2>1
<1>6. BlockStep(e, d, b, pend, pend)
    BY <1>2, <1>4, <1>5, PlainStep
<1> QED  BY <1>2, <1>4, <1>5, <1>6 DEF MemorySet

---------------------------------------------------------------------------
(* d_save_dataspace(), d_save_control()                                    *)

Saves(e, d, b, pend, x) ==
    /\ BlockStep(e, d, b, pend, pend) /\ BlockOk(e, b, x)
    /\ e.mod[b] = "no" /\ e.mem[b] = d.mem[b]

(* A block in memory with as many sectors as it needs.                     *)
InPlace(d, b, pend, x) ==
    /\ AllOk(d, pend) /\ b \in Blocks /\ b \notin pend /\ x \in AnyValue
    /\ x.n > 0 /\ d.mem[b] = Contents(b, x) /\ Len(d.vec[b]) = x.n

LEMMA InPlaceIs ==
    ASSUME NEW d, NEW b, NEW pend, NEW x, InPlace(d, b, pend, x)
    PROVE  /\ OneBlock(d.vec[b], x.n, Held(d.vec, Blocks), Rest(d.vec, b))
           /\ \A k \in 1 .. x.n : d.vec[b][k] \notin Held(d.vec, pend)
           /\ DeviceOk(d, Held(d.vec, Blocks), Held(d.vec, pend))
           /\ Held(d.vec, pend) \subseteq Rest(d.vec, b)
<1>1. /\ d.vec \in [Blocks -> Seq(Sectors)] /\ Apart(d.vec) /\ b \in Blocks
      /\ pend \subseteq Blocks \ {b} /\ Len(d.vec[b]) = x.n
      /\ DeviceOk(d, Held(d.vec, Blocks), Held(d.vec, pend))
    BY DEF InPlace, AllOk, State
<1>2. /\ OneBlock(d.vec[b], Len(d.vec[b]), Held(d.vec, Blocks), Rest(d.vec, b))
      /\ \A k \in 1 .. Len(d.vec[b]) : d.vec[b][k] \notin Held(d.vec, pend)
      /\ Held(d.vec, pend) \subseteq Rest(d.vec, b)
    BY ONLY <1>1, RestIs
<1> QED  BY <1>1, <1>2

SaveWalk(d, b) == Walk(LAMBDA y, k : WriteSector(y, y.vec[b][k], y.mem[b][k]), d,
                       [k \in 1 .. Len(d.vec[b]) |-> k])

LEMMA SaveInPlace ==
    ASSUME NEW d, NEW b, NEW pend, NEW x, InPlace(d, b, pend, x), d.mod[b] = "no",
           NEW e, e = SaveWalk(d, b)
    PROVE  Saves(e, d, b, pend, x)
<1> DEFINE H == Held(d.vec, Blocks)
           P == Held(d.vec, pend)
           R == Rest(d.vec, b)
<1>1. /\ OneBlock(d.vec[b], x.n, H, R) /\ DeviceOk(d, H, P)
      /\ \A k \in 1 .. x.n : d.vec[b][k] \notin P
    BY InPlaceIs
<1>2. b \in Blocks /\ d.mem[b] = Contents(b, x) /\ AllOk(d, pend)
    BY DEF InPlace
<1> HIDE DEF H, P, R
<1>3. SavedTo(e, d, H, P, b, R, x.n, x)
    <2>1. SavedTo(SaveWalk(d, b), d, H, P, b, R, x.n, x)
        BY ONLY <1>1, <1>2, SaveWalkIs DEF SaveWalk
    <2> QED  BY <2>1
<1>4. /\ DeviceOk(e, H, P) /\ SameNumbers(e, d) /\ Writes(e, d) /\ Keeps(e, d, R, P)
      /\ e.vec = d.vec /\ e.mem = d.mem /\ e.mod = d.mod
      /\ \A k \in 1 .. x.n : Has(e, d.vec[b][k], Content(b, k, x))
    BY <1>3 DEF SavedTo, SameBlocks
<1>5. BlockStep(e, d, b, pend, pend)
    BY <1>2, <1>4, PlainStep DEF H, P, R
<1>6. BlockOk(e, b, x)
    <2>1. x \in AnyValue /\ Len(d.vec[b]) = x.n
        BY DEF InPlace
    <2>2. x.n <= MaxVec
        BY <1>2, <2>1, ValueIs
    <2> QED  BY <1>2, <1>4, <2>1, <2>2 DEF BlockOk
<1> QED  BY <1>4, <1>5, <1>6 DEF Saves

LEMMA SaveAllIs ==
    ASSUME NEW d, NEW pend, AllOk(d, pend), NEW b \in Blocks, b \notin pend, NEW x \in AnyValue,
           BlockOk(d, b, x), d.mod[b] = "all", NEW e, e = SaveAll(d, b)
    PROVE  Saves(e, d, b, pend, x)
<1> DEFINE a == SwapAlloc(d, b, x.n)
           c == [a EXCEPT !.mod[b] = "no"]
<1>1. /\ x.n > 0 /\ d.mem[b] = Contents(b, x) /\ x.n \in 1 .. MaxVec /\ x.n \in Nat
    BY ConstantsAre, ValueIs DEF BlockOk
<1>2. d.mem[b][1].n = x.n
    <2>1. 1 \in 1 .. x.n
        BY <1>1
    <2>2. d.mem[b][1] = Content(b, 1, x)
        BY <1>1, <2>1, ValueIs
    <2> QED  BY <2>2 DEF Content
<1>3. e = SaveWalk(c, b)
    <2>1. e = SaveSectors(a, b)
        BY <1>2 DEF SaveAll
    <2>2. c.vec = a.vec
        OBVIOUS
    <2> QED  BY <2>1, <2>2 DEF SaveSectors, SaveWalk
<1>4. Alloced(a, d, b, x.n, pend)
    BY <1>1, SwapAllocIs
<1> HIDE DEF a
<1>5. /\ BlockStep(a, d, b, pend, pend) /\ AllOk(a, pend) /\ a \in State
      /\ a.mem = d.mem /\ a.mod = d.mod /\ Len(a.vec[b]) = x.n
    BY <1>4 DEF Alloced, BlockStep, AllOk
<1>6. MemorySet(c, a, b, pend, a.mem[b], "no")
    <2>1. c = [a EXCEPT !.mem[b] = a.mem[b], !.mod[b] = "no"]
        BY <1>5 DEF State
    <2>2. a.mem[b] \in Seq(Data)
        BY <1>5 DEF State
    <2> HIDE DEF c
    <2> QED  BY <1>5, <2>1, <2>2, SetMemory
<1> HIDE DEF c
<1>7. /\ BlockStep(c, a, b, pend, pend) /\ AllOk(c, pend) /\ c.vec = a.vec
      /\ c.mem[b] = d.mem[b] /\ c.mod[b] = "no"
    BY <1>5, <1>6 DEF MemorySet, BlockStep
<1>8. InPlace(c, b, pend, x)
    BY <1>1, <1>5, <1>7 DEF InPlace
<1>9. Saves(e, c, b, pend, x)
    BY <1>3, <1>7, <1>8, SaveInPlace
<1>10. BlockStep(c, d, b, pend, pend)
    BY <1>5, <1>7, BlockStepOn
<1>11. BlockStep(e, d, b, pend, pend)
    <2>1. BlockStep(e, c, b, pend, pend)
        BY <1>9 DEF Saves
    <2> QED  BY <1>10, <2>1, BlockStepOn
<1> QED  BY <1>7, <1>9, <1>11 DEF Saves

LEMMA SaveVarIs ==
    ASSUME NEW d, NEW pend, AllOk(d, pend), NEW b \in Blocks, b \notin pend, NEW x \in AnyValue,
           BlockOk(d, b, x), d.mod[b] = "var", NEW e, e = SaveVar(d, b)
    PROVE  Saves(e, d, b, pend, x)
<1> DEFINE H == Held(d.vec, Blocks)
           P == Held(d.vec, pend)
           R == Rest(d.vec, b)
           sec == d.vec[b][1]
           g == WritePart(d, sec, x.v)
<1>1. /\ x.n > 0 /\ d.mem[b] = Contents(b, x) /\ Len(d.vec[b]) = x.n /\ x.n \in Nat
      /\ x.v \in {0, 1} /\ 1 \in 1 .. x.n /\ x.n <= MaxVec
    BY ValueIs DEF BlockOk
<1>2. d.mem[b][1].v = x.v
    <2>1. d.mem[b][1] = Content(b, 1, x)
        BY <1>1, ValueIs
    <2> QED  BY <2>1 DEF Content
<1>3. e = [g EXCEPT !.mod[b] = "no"]
    BY <1>2 DEF SaveVar
<1>4. PICK v \in {0, 1} : Has(d, sec, WithV(Content(b, 1, x), v))
    BY DEF BlockOk
<1>5. \A k \in 2 .. x.n : Has(d, d.vec[b][k], Content(b, k, x))
    BY DEF BlockOk
<1>6. InPlace(d, b, pend, x)
    BY <1>1 DEF InPlace
<1>7. /\ OneBlock(d.vec[b], x.n, H, R) /\ DeviceOk(d, H, P)
      /\ \A k \in 1 .. x.n : d.vec[b][k] \notin P
    BY <1>6, InPlaceIs
<1>8. sec \in H /\ sec \notin P /\ R \subseteq Others(H, sec)
      /\ \A k \in 2 .. x.n : d.vec[b][k] \in Others(H, sec) /\ d.vec[b][k] \notin P
    <2>1. \A k \in 2 .. x.n : k \in 1 .. x.n /\ k # 1
        BY <1>1
    <2> HIDE DEF H, P, R
    <2> QED  BY <1>1, <1>7, <2>1 DEF OneBlock, Others
<1>9. WithV(WithV(Content(b, 1, x), v), x.v) = Content(b, 1, x) /\ Content(b, 1, x) \in Data
    <2>1. WithV(WithV(Content(b, 1, x), v), x.v) = Content(b, 1, x)
        <3>1. Content(b, 1, x) = [block |-> b, part |-> 1, n |-> x.n, v |-> x.v]
            BY DEF Content
        <3>2. WithV(Content(b, 1, x), v) = [block |-> b, part |-> 1, n |-> x.n, v |-> v]
            BY <3>1 DEF WithV
        <3>3. WithV(WithV(Content(b, 1, x), v), x.v)
                = [block |-> b, part |-> 1, n |-> x.n, v |-> x.v]
            <4> DEFINE y == WithV(Content(b, 1, x), v)
                       m == x.n
            <4>1. y = [block |-> b, part |-> 1, n |-> m, v |-> v]
                BY <3>2
            <4> HIDE DEF y, m
            <4>2. \A u : WithV(y, u) = [block |-> b, part |-> 1, n |-> m, v |-> u]
                BY <4>1 DEF WithV
            <4> QED  BY <4>2 DEF y, m
        <3> QED  BY <3>1, <3>3
    <2> QED  BY <1>1, <2>1, ValueIs
<1> HIDE DEF H, P, R, sec
<1>10. Stored(g, d, H, P, sec, Content(b, 1, x))
    <2> DEFINE y == WithV(Content(b, 1, x), v)
               u == x.v
    <2> HIDE DEF y, u
    <2>1. /\ DeviceOk(d, H, P) /\ sec \in H /\ sec \notin P /\ Has(d, sec, y)
          /\ WithV(y, u) \in Data /\ g = WritePart(d, sec, u)
        BY <1>4, <1>7, <1>8, <1>9 DEF y, u
    <2>2. Stored(g, d, H, P, sec, WithV(y, u))
        <3> HIDE DEF g
        <3> QED  BY ONLY <2>1, WritePartIs
    <2> QED  BY <1>9, <2>2 DEF y, u
<1> HIDE DEF g
<1>11. /\ DeviceOk(g, H, P) /\ SameNumbers(g, d) /\ g.vec = d.vec /\ g.mem = d.mem
       /\ g.mod = d.mod /\ Writes(g, d) /\ Keeps(g, d, Others(H, sec), P)
       /\ Has(g, sec, Content(b, 1, x)) /\ g \in State
    BY <1>10 DEF Stored, SameBlocks, DeviceOk
<1>12. /\ Keeps(g, d, R, P)
       /\ \A k \in 1 .. x.n : Has(g, d.vec[b][k], Content(b, k, x))
    <2>1. Keeps(g, d, R, P)
        BY <1>8, <1>11, KeepsSome
    <2>2. \A k \in 2 .. x.n : Has(g, d.vec[b][k], Content(b, k, x))
        BY <1>5, <1>8, <1>11 DEF Keeps
    <2>3. \A k \in 1 .. x.n : k = 1 \/ k \in 2 .. x.n
        BY <1>1
    <2> QED  BY <1>11, <2>1, <2>2, <2>3 DEF sec
<1>13. BlockStep(g, d, b, pend, pend)
    BY <1>11, <1>12, PlainStep DEF H, P, R
<1>14. MemorySet(e, g, b, pend, g.mem[b], "no")
    <2>1. e = [g EXCEPT !.mem[b] = g.mem[b], !.mod[b] = "no"]
        BY <1>3, <1>11 DEF State
    <2>2. g.mem[b] \in Seq(Data) /\ AllOk(g, pend)
        BY <1>11, <1>13 DEF State, BlockStep
    <2> QED  BY <2>1, <2>2, SetMemory
<1>15. BlockStep(e, d, b, pend, pend)
    <2>1. BlockStep(e, g, b, pend, pend)
        BY <1>14 DEF MemorySet
    <2> QED  BY <1>13, <2>1, BlockStepOn
<1>16. BlockOk(e, b, x)
    BY <1>1, <1>11, <1>12, <1>14 DEF MemorySet, BlockOk
<1> QED  BY <1>11, <1>14, <1>15, <1>16 DEF Saves, MemorySet

LEMMA SaveIs ==
    ASSUME NEW d, NEW pend, AllOk(d, pend), NEW b \in Blocks, b \notin pend, NEW x \in AnyValue,
           BlockOk(d, b, x), NEW e, e = Save(d, b)
    PROVE  Saves(e, d, b, pend, x)
<1>1. CASE d.mod[b] = "all"
    <2>1. e = SaveAll(d, b)
        BY <1>1 DEF Save
    <2> QED  BY <1>1, <2>1, SaveAllIs
<1>2. CASE d.mod[b] = "var"
    <2>1. e = SaveVar(d, b)
        BY <1>2 DEF Save
    <2> QED  BY <1>2, <2>1, SaveVarIs
<1>3. CASE d.mod[b] = "no"
    <2>1. e = d
        BY <1>3 DEF Save
    <2>2. DeviceOk(d, Held(d.vec, Blocks), Held(d.vec, pend))
        BY DEF AllOk
    <2>3. BlockStep(d, d, b, pend, pend)
        BY <2>2, WritesSelf, KeepsSelf, PlainStep DEF SameNumbers
    <2> QED  BY <1>3, <2>1, <2>3 DEF Saves
<1>4. d.mod[b] \in {"no", "var", "all"}
    BY DEF AllOk, State
<1> QED  BY <1>1, <1>2, <1>3, <1>4

(* d_swapout()                                                             *)
Gone(e, d, b, pend, x) ==
    /\ BlockStep(e, d, b, pend, pend) /\ BlockOk(e, b, x)
    /\ e.mod[b] = "no" /\ e.mem[b] = << >>

LEMMA SwapOutIs ==
    ASSUME NEW d, NEW pend, AllOk(d, pend), NEW b \in Blocks, b \notin pend, NEW x \in AnyValue,
           BlockOk(d, b, x), NEW e, e = SwapOut(d, b)
    PROVE  Gone(e, d, b, pend, x)
<1> DEFINE g == Save(d, b)
<1>1. Saves(g, d, b, pend, x)
    BY SaveIs
<1>2. e = [g EXCEPT !.mem[b] = << >>]
    BY DEF SwapOut
<1> HIDE DEF g
<1>3. /\ BlockStep(g, d, b, pend, pend) /\ BlockOk(g, b, x) /\ g.mod[b] = "no"
      /\ AllOk(g, pend) /\ g \in State
    BY <1>1 DEF Saves, BlockStep, AllOk
<1>4. MemorySet(e, g, b, pend, << >>, "no")
    <2>1. e = [g EXCEPT !.mem[b] = << >>, !.mod[b] = "no"]
        <3>1. g.mod = [g.mod EXCEPT ![b] = "no"]
            BY <1>3 DEF State
        <3>2. g.mod = [g EXCEPT !.mem[b] = << >>].mod
            BY <1>3 DEF State
        <3> QED  BY <1>2, <1>3, <3>1, <3>2 DEF State
    <2>2. << >> \in Seq(Data)
        OBVIOUS
    <2> QED  BY <1>3, <2>1, <2>2, SetMemory
<1>5. BlockStep(e, d, b, pend, pend)
    <2>1. BlockStep(e, g, b, pend, pend)
        BY <1>4 DEF MemorySet
    <2> QED  BY <1>3, <2>1, BlockStepOn
<1>6. BlockOk(e, b, x)
    BY <1>3, <1>4 DEF MemorySet, BlockOk
<1> QED  BY <1>4, <1>5, <1>6 DEF Gone, MemorySet

---------------------------------------------------------------------------
(* All blocks.                                                             *)

(* All blocks are as they should be; those in pend are in the snapshot     *)
(* that from gives.                                                        *)
Stands(d, pend, x, conv, from) ==
    /\ AllOk(d, pend) /\ x \in [Blocks -> AnyValue]
    /\ \A b \in pend : PendingIn(d, b, from[b], x[b], conv)
    /\ \A b \in Blocks \ pend : BlockOk(d, b, x[b])

(* The same for block a, but for where its sectors are.                    *)
StaysOf(e, d, a, P) ==
    /\ e.vec[a] = d.vec[a] /\ e.mem[a] = d.mem[a] /\ e.mod[a] = d.mod[a]
    /\ Keeps(e, d, ToSet(d.vec[a]), P)

LEMMA PendingStays ==
    ASSUME NEW d, NEW e, NEW pend, AllOk(d, pend), NEW a \in pend,
           StaysOf(e, d, a, Held(d.vec, pend)),
           NEW f, NEW x, NEW conv, PendingIn(d, a, f, x, conv), e.dev.swap # f
    PROVE  PendingIn(e, a, f, x, conv)
<1>1. /\ x.n > 0 /\ d.mem[a] = << >> /\ d.mod[a] = "no" /\ Len(d.vec[a]) = x.n
      /\ \A k \in 1 .. x.n : HasIn(d, f, d.vec[a][k], Content(a, k, x))
      /\ ~conv => \A k \in 1 .. x.n : ~InSlot(d.dev, d.vec[a][k])
      /\ f \in Files /\ f \in {names.snapshot, names.old} /\ d.dev.swap # f
    BY DEF PendingIn
<1>2. /\ a \in Blocks /\ e.vec[a] = d.vec[a] /\ e.mem[a] = d.mem[a] /\ e.mod[a] = d.mod[a]
      /\ Keeps(e, d, ToSet(d.vec[a]), Held(d.vec, pend))
    BY DEF StaysOf, AllOk
<1>3. \A k \in 1 .. x.n : d.vec[a][k] \in ToSet(d.vec[a]) /\ d.vec[a][k] \in Held(d.vec, pend)
    <2>1. d.vec[a] \in Seq(Sectors)
        BY <1>2 DEF AllOk, State
    <2>2. \A k \in 1 .. x.n : d.vec[a][k] \in ToSet(d.vec[a])
        BY <1>1, <2>1, ToSetIs
    <2> QED  BY <1>2, <2>2 DEF Held
<1>4. \A k \in 1 .. x.n :
          /\ HasIn(e, f, d.vec[a][k], Content(a, k, x))
          /\ ~InSlot(d.dev, d.vec[a][k]) => ~InSlot(e.dev, d.vec[a][k])
    BY <1>1, <1>2, <1>3 DEF Keeps
<1> QED  BY <1>1, <1>2, <1>4 DEF PendingIn

LEMMA BlockStays ==
    ASSUME NEW d, NEW e, NEW pend, AllOk(d, pend), NEW a \in Blocks, a \notin pend,
           StaysOf(e, d, a, Held(d.vec, pend)), NEW x \in AnyValue, BlockOk(d, a, x)
    PROVE  BlockOk(e, a, x)
<1>1. /\ e.vec[a] = d.vec[a] /\ e.mem[a] = d.mem[a] /\ e.mod[a] = d.mod[a]
      /\ Keeps(e, d, ToSet(d.vec[a]), Held(d.vec, pend))
    BY DEF StaysOf
<1>2. x.n \in Nat
    BY ValueIs
<1>3. \A k \in 1 .. Len(d.vec[a]) :
          d.vec[a][k] \in ToSet(d.vec[a]) /\ d.vec[a][k] \notin Held(d.vec, pend)
    <2>1. d.vec[a] \in Seq(Sectors) /\ Apart(d.vec) /\ pend \subseteq Blocks
        BY DEF AllOk, State
    <2>2. \A k \in 1 .. Len(d.vec[a]) : d.vec[a][k] \in ToSet(d.vec[a])
        BY <2>1, ToSetIs
    <2>3. \A t \in ToSet(d.vec[a]) : t \notin Held(d.vec, pend)
        <3>1. \A c \in pend : c \in Blocks /\ c # a
            BY <2>1
        <3> QED  BY <2>1, <3>1 DEF Apart, Held
    <2> QED  BY <2>2, <2>3
<1>4. \A k \in 1 .. Len(d.vec[a]) : \A c : Has(d, d.vec[a][k], c) => Has(e, d.vec[a][k], c)
    BY <1>1, <1>3 DEF Keeps
<1>5. d.mod[a] # "all" => Len(d.vec[a]) = x.n
    BY DEF BlockOk
<1>6. CASE d.mod[a] = "all"
    BY <1>1, <1>6 DEF BlockOk
<1>7. CASE d.mod[a] = "no"
    <2>1. \A k \in 1 .. x.n : Has(d, d.vec[a][k], Content(a, k, x))
        BY <1>7 DEF BlockOk
    <2>2. \A k \in 1 .. x.n : Has(e, d.vec[a][k], Content(a, k, x))
        BY <1>4, <1>5, <1>7, <2>1
    <2> QED  BY <1>1, <1>7, <2>2 DEF BlockOk
<1>8. CASE d.mod[a] = "var"
    <2>1. /\ x.n > 0
          /\ \E u \in {0, 1} : Has(d, d.vec[a][1], WithV(Content(a, 1, x), u))
          /\ \A k \in 2 .. x.n : Has(d, d.vec[a][k], Content(a, k, x))
        BY <1>8 DEF BlockOk
    <2>2. \E u \in {0, 1} : Has(e, d.vec[a][1], WithV(Content(a, 1, x), u))
        <3>1. 1 \in 1 .. Len(d.vec[a])
            BY <1>2, <1>5, <1>8, <2>1
        <3> QED  BY <1>4, <2>1, <3>1
    <2>3. \A k \in 2 .. x.n : Has(e, d.vec[a][k], Content(a, k, x))
        <3>1. \A k \in 2 .. x.n : k \in 1 .. Len(d.vec[a])
            BY <1>2, <1>5, <1>8
        <3> QED  BY <1>4, <2>1, <3>1
    <2> QED  BY <1>1, <1>8, <2>2, <2>3 DEF BlockOk
<1>9. d.mod[a] \in {"no", "var", "all"}
    BY DEF AllOk, State
<1> QED  BY <1>6, <1>7, <1>8, <1>9

LEMMA OtherStays ==
    ASSUME NEW d, NEW e, NEW b \in Blocks, NEW pend, AllOk(d, pend),
           BlockStep(e, d, b, pend, pend \ {b}), NEW a \in Blocks, a # b
    PROVE  StaysOf(e, d, a, Held(d.vec, pend))
<1> DEFINE T == ToSet(d.vec[a])
           R == Rest(d.vec, b)
           P == Held(d.vec, pend)
<1>1. T \subseteq R /\ Keeps(e, d, R, P) /\ \A t \in T : t \in P <=> t \in P
    BY DEF BlockStep, Rest, Held
<1> HIDE DEF T, R, P
<1>2. Keeps(e, d, T, P)
    BY ONLY <1>1, KeepsSome
<1> QED  BY <1>2 DEF StaysOf, BlockStep, T, P

LEMMA OtherPending ==
    ASSUME NEW d, NEW e, NEW b \in Blocks, NEW pend, AllOk(d, pend),
           BlockStep(e, d, b, pend, pend \ {b}), NEW a \in pend, a # b,
           NEW f, NEW x, NEW conv, PendingIn(d, a, f, x, conv)
    PROVE  PendingIn(e, a, f, x, conv)
<1>1. a \in Blocks /\ f \in {names.snapshot, names.old} /\ d.dev.swap # f
    BY DEF AllOk, PendingIn
<1>2. e.dev.swap # f
    <2>1. DeviceOk(e, Held(e.vec, Blocks), Held(e.vec, pend \ {b})) /\ Writes(e, d)
        BY DEF BlockStep, AllOk
    <2> QED  BY <1>1, <2>1, OtherFile
<1>3. StaysOf(e, d, a, Held(d.vec, pend))
    BY <1>1, OtherStays
<1> QED  BY <1>2, <1>3, PendingStays

LEMMA OtherBlock ==
    ASSUME NEW d, NEW e, NEW b \in Blocks, NEW pend, AllOk(d, pend),
           BlockStep(e, d, b, pend, pend \ {b}), NEW a \in Blocks, a \notin pend, a # b,
           NEW x \in AnyValue, BlockOk(d, a, x)
    PROVE  BlockOk(e, a, x)
<1>1. StaysOf(e, d, a, Held(d.vec, pend))
    BY OtherStays
<1> QED  BY <1>1, BlockStays

(* A step of one block.                                                    *)
LEMMA OthersKept ==
    ASSUME NEW d, NEW e, NEW b \in Blocks, NEW pend, NEW x, NEW conv, NEW from,
           Stands(d, pend, x, conv, from), BlockStep(e, d, b, pend, pend \ {b}),
           NEW y \in [Blocks -> AnyValue], \A a \in Blocks : a # b => y[a] = x[a],
           BlockOk(e, b, y[b])
    PROVE  Stands(e, pend \ {b}, y, conv, from)
<1>1. AllOk(d, pend) /\ x \in [Blocks -> AnyValue] /\ pend \subseteq Blocks
    BY DEF Stands, AllOk
<1>2. \A a \in pend \ {b} : PendingIn(e, a, from[a], y[a], conv)
    <2> TAKE a \in pend \ {b}
    <2>1. PendingIn(d, a, from[a], x[a], conv)
        BY DEF Stands
    <2>2. PendingIn(e, a, from[a], x[a], conv)
        BY <1>1, <2>1, OtherPending
    <2> QED  BY <1>1, <2>2
<1>3. \A a \in Blocks \ (pend \ {b}) : BlockOk(e, a, y[a])
    <2> TAKE a \in Blocks \ (pend \ {b})
    <2>1. CASE a # b
        <3>1. BlockOk(d, a, x[a]) /\ x[a] \in AnyValue
            BY <1>1, <2>1 DEF Stands
        <3>2. BlockOk(e, a, x[a])
            BY <1>1, <2>1, <3>1, OtherBlock
        <3> QED  BY <2>1, <3>2
    <2> QED  BY <2>1
<1>4. AllOk(e, pend \ {b})
    BY DEF BlockStep
<1> QED  BY <1>2, <1>3, <1>4 DEF Stands

(* Nothing is done to the blocks.                                          *)
LEMMA AllKept ==
    ASSUME NEW d, NEW e, NEW pend, NEW x, NEW conv, NEW from, Stands(d, pend, x, conv, from),
           AllOk(e, pend), SameBlocks(e, d), Writes(e, d),
           Keeps(e, d, Held(d.vec, Blocks), Held(d.vec, pend))
    PROVE  Stands(e, pend, x, conv, from)
<1>1. AllOk(d, pend) /\ x \in [Blocks -> AnyValue] /\ pend \subseteq Blocks
    BY DEF Stands, AllOk
<1>2. \A a \in Blocks : StaysOf(e, d, a, Held(d.vec, pend))
    <2> TAKE a \in Blocks
    <2> DEFINE T == ToSet(d.vec[a])
               H == Held(d.vec, Blocks)
               P == Held(d.vec, pend)
    <2>1. T \subseteq H /\ Keeps(e, d, H, P) /\ \A t \in T : t \in P <=> t \in P
        BY DEF Held
    <2> HIDE DEF T, H, P
    <2>2. Keeps(e, d, T, P)
        BY ONLY <2>1, KeepsSome
    <2> QED  BY <2>2 DEF StaysOf, SameBlocks, T, P
<1>3. \A a \in pend : PendingIn(e, a, from[a], x[a], conv)
    <2> TAKE a \in pend
    <2>1. PendingIn(d, a, from[a], x[a], conv)
        BY DEF Stands
    <2>2. e.dev.swap # from[a]
        <3>1. DeviceOk(e, Held(e.vec, Blocks), Held(e.vec, pend))
            BY DEF AllOk
        <3>2. from[a] \in {names.snapshot, names.old} /\ d.dev.swap # from[a]
            BY <2>1 DEF PendingIn
        <3> QED  BY <3>1, <3>2, OtherFile
    <2> QED  BY <1>1, <1>2, <2>1, <2>2, PendingStays
<1>4. \A a \in Blocks \ pend : BlockOk(e, a, x[a])
    <2> TAKE a \in Blocks \ pend
    <2>1. BlockOk(d, a, x[a]) /\ x[a] \in AnyValue
        BY <1>1 DEF Stands
    <2> QED  BY <1>1, <1>2, <2>1, BlockStays
<1> QED  BY <1>1, <1>3, <1>4 DEF Stands

(* d_del_dataspace()                                                       *)
Cleared(d, b) == [d EXCEPT !.dev = DelV(WipeV(d.dev, d.vec[b]), d.vec[b])]

LEMMA ClearedIs ==
    ASSUME NEW d, NEW pend, AllOk(d, pend), NEW b \in Blocks, b \notin pend,
           NEW y, y = Cleared(d, b)
    PROVE  Deleted(y, d, Rest(d.vec, b), Held(d.vec, pend), Rest(d.vec, b))
<1> DEFINE H == Held(d.vec, Blocks)
           P == Held(d.vec, pend)
           R == Rest(d.vec, b)
           s == d.vec[b]
           w == [d EXCEPT !.dev = WipeV(d.dev, s)]
<1>1. /\ d \in State /\ d.vec \in [Blocks -> Seq(Sectors)] /\ Apart(d.vec) /\ b \in Blocks
      /\ pend \subseteq Blocks \ {b} /\ DeviceOk(d, H, P) /\ s \in Seq(Sectors)
      /\ Numbers(d.dev.nsectors, d.dev.mfree, H)
    BY DEF AllOk, State
<1>2. /\ OneBlock(s, Len(s), H, R) /\ H = R \cup ToSet(s)
      /\ \A k \in 1 .. Len(s) : s[k] \notin P
    BY ONLY <1>1, RestIs
<1> HIDE DEF H, P, R, s
<1>3. Wiped(w, d, H, P, R)
    <2>1. /\ DeviceOk(d, H, P) /\ s \in Seq(Sectors) /\ OneBlock(s, Len(s), H, R)
          /\ (\A k \in 1 .. Len(s) : s[k] \notin P) /\ w = [d EXCEPT !.dev = WipeV(d.dev, s)]
        BY <1>1, <1>2
    <2> HIDE DEF w
    <2> QED  BY ONLY <2>1, WipeVIs
<1>4. y = [w EXCEPT !.dev = DelV(w.dev, s)]
    <2>1. w.dev = WipeV(d.dev, s)
        BY <1>1 DEF State
    <2> QED  BY <1>1, <2>1 DEF Cleared, s, State
<1> HIDE DEF w
<1>5. /\ DeviceOk(w, H, P) /\ SameNumbers(w, d) /\ SameBlocks(w, d) /\ Writes(w, d)
      /\ Keeps(w, d, R, P) /\ w.disk = d.disk /\ Numbers(w.dev.nsectors, w.dev.mfree, H)
    BY <1>1, <1>3 DEF Wiped, SameNumbers
<1>6. Deleted(y, w, Left(H, s, Len(s)), P, R)
    <2>1. /\ DeviceOk(w, H, P) /\ s \in Seq(Sectors) /\ OneBlock(s, Len(s), H, R)
          /\ Numbers(w.dev.nsectors, w.dev.mfree, H)
          /\ (\A k \in 1 .. Len(s) : s[k] \notin P) /\ y = [w EXCEPT !.dev = DelV(w.dev, s)]
        BY <1>1, <1>2, <1>4, <1>5
    <2> QED  BY ONLY <2>1, DelVIs
<1>7. Left(H, s, Len(s)) = R
    <2>1. \A t : t \in ToSet(s) <=> \E j \in 1 .. Len(s) : s[j] = t
        BY <1>1, ToSetIs
    <2>2. \A t : t \in Left(H, s, Len(s)) <=> t \in H /\ t \notin ToSet(s)
        BY <2>1 DEF Left
    <2>3. \A t \in R : t \notin ToSet(s)
        BY <1>2, <2>1 DEF OneBlock
    <2>4. \A t : t \in H <=> t \in R \/ t \in ToSet(s)
        BY <1>2
    <2>5. \A t : t \in Left(H, s, Len(s)) <=> t \in R
        BY <2>2, <2>3, <2>4
    <2> QED  BY <2>5
<1>8. /\ DeviceOk(y, R, P) /\ SameBlocks(y, w) /\ Writes(y, w)
      /\ Keeps(y, w, R, P) /\ y.disk = w.disk /\ Numbers(y.dev.nsectors, y.dev.mfree, R)
    BY <1>6, <1>7 DEF Deleted
<1>9. Writes(y, d) /\ Keeps(y, d, R, P)
    <2>1. d.dev.swap \in Descriptor
        BY <1>1, DeviceFields DEF State
    <2> QED  BY <1>5, <1>8, <2>1, WritesOn, KeepsOn
<1>10. SameBlocks(y, d) /\ y.disk = d.disk
    BY <1>5, <1>8 DEF SameBlocks
<1>11. Deleted(y, d, R, P, R)
    BY <1>8, <1>9, <1>10 DEF Deleted
<1> QED  BY <1>11 DEF P, R

LEMMA DestructIs ==
    ASSUME NEW d, NEW pend, AllOk(d, pend), NEW b \in Blocks, b \notin pend,
           NEW e, e = DelBlock(d, b)
    PROVE  BlockStep(e, d, b, pend, pend) /\ BlockOk(e, b, NoValue)
<1> DEFINE P == Held(d.vec, pend)
           R == Rest(d.vec, b)
           y == Cleared(d, b)
           vecs == Revec(d.vec, b, << >>)
<1>1. /\ d \in State /\ d.vec \in [Blocks -> Seq(Sectors)] /\ Apart(d.vec) /\ b \in Blocks
      /\ pend \subseteq Blocks \ {b} /\ d.mem \in [Blocks -> Seq(Data)]
      /\ d.mod \in [Blocks -> {"no", "var", "all"}] /\ d.dev.swap \in Descriptor
    BY DeviceFields DEF AllOk, State
<1>2. /\ DeviceOk(y, R, P) /\ SameBlocks(y, d) /\ Writes(y, d) /\ y \in State
      /\ Keeps(y, d, R, P) /\ Numbers(y.dev.nsectors, y.dev.mfree, R)
    BY ClearedIs DEF Deleted, DeviceOk
<1>3. e = [y EXCEPT !.vec = vecs, !.mem = [d.mem EXCEPT ![b] = << >>],
                    !.mod = [d.mod EXCEPT ![b] = "no"]]
    BY <1>1 DEF DelBlock, Cleared, Revec, State
<1>4. NewVec(d.vec, b, << >>, vecs) /\ Apart(vecs)
    <2> DEFINE s == << >>
    <2>1. s \in Seq(Sectors) /\ Len(s) = 0
        OBVIOUS
    <2> HIDE DEF s
    <2>2. /\ \A j, k \in 1 .. Len(s) : s[j] = s[k] => j = k
          /\ \A k \in 1 .. Len(s) : s[k] \notin Rest(d.vec, b)
        BY <2>1
    <2>3. NewVec(d.vec, b, s, Revec(d.vec, b, s)) /\ Apart(Revec(d.vec, b, s))
        BY ONLY <1>1, <2>1, <2>2, RevecIs
    <2> QED  BY <2>3 DEF s
<1> HIDE DEF y, vecs
<1>5. /\ vecs \in [Blocks -> Seq(Sectors)] /\ vecs[b] = << >>
      /\ \A a \in Blocks : a # b => vecs[a] = d.vec[a]
      /\ Held(vecs, Blocks) = R /\ Held(vecs, pend) = P
    <2>1. /\ vecs \in [Blocks -> Seq(Sectors)] /\ vecs[b] = << >>
          /\ \A a \in Blocks : a # b => vecs[a] = d.vec[a]
          /\ Held(vecs, Blocks) = R \cup ToSet(<< >>)
        BY <1>4 DEF NewVec
    <2>2. Held(vecs, pend) = P
        BY <1>1, <1>4 DEF NewVec
    <2> QED  BY <2>1, <2>2, EmptyElem
<1> HIDE DEF P, R
<1>6. << >> \in Seq(Data) /\ Len(<< >>) = 0
    OBVIOUS
<1>7. /\ e \in State /\ e.dev = y.dev /\ e.disk = y.disk /\ e.vec = vecs
      /\ e.mem = [d.mem EXCEPT ![b] = << >>] /\ e.mod = [d.mod EXCEPT ![b] = "no"]
    <2> DEFINE m == [d.mem EXCEPT ![b] = << >>]
               u == [d.mod EXCEPT ![b] = "no"]
    <2>1. m \in [Blocks -> Seq(Data)] /\ u \in [Blocks -> {"no", "var", "all"}]
        BY <1>1, <1>6
    <2>2. e = [y EXCEPT !.vec = vecs, !.mem = m, !.mod = u]
        BY <1>3
    <2> HIDE DEF m, u
    <2>3. /\ e \in State /\ e.dev = y.dev /\ e.disk = y.disk /\ e.vec = vecs
          /\ e.mem = m /\ e.mod = u
        BY <1>2, <1>5, <2>1, <2>2 DEF State
    <2> QED  BY <2>3 DEF m, u
<1>8. /\ e.mem[b] = << >> /\ e.mod[b] = "no" /\ e.vec[b] = << >>
      /\ \A a \in Blocks : a # b => /\ e.vec[a] = d.vec[a] /\ e.mem[a] = d.mem[a]
                                    /\ e.mod[a] = d.mod[a]
    BY <1>1, <1>5, <1>7
<1>9. DeviceOk(e, R, P) /\ SameNumbers(e, y) /\ Writes(e, y) /\ Keeps(e, y, R, P)
    <2>1. DeviceOk(y, R, P) /\ e \in State /\ e.dev = y.dev /\ e.disk = y.disk
        BY <1>2, <1>7
    <2>2. /\ DeviceOk(e, R, P) /\ SameNumbers(e, y) /\ Writes(e, y)
          /\ \A S, Q : Keeps(e, y, S, Q)
        BY ONLY <2>1, SameDevice
    <2> QED  BY <2>2
<1>10. Writes(e, d) /\ Keeps(e, d, R, P)
    BY <1>1, <1>2, <1>9, WritesOn, KeepsOn
<1>11. AllOk(e, pend)
    <2>1. Numbers(e.dev.nsectors, e.dev.mfree, R)
        BY <1>2, <1>7
    <2>2. \A a \in Blocks : Len(e.vec[a]) <= MaxVec
        <3> TAKE a \in Blocks
        <3>1. CASE a = b
            BY <1>6, <1>8, <3>1, ConstantsAre
        <3>2. CASE a # b
            BY <1>8, <3>2 DEF AllOk
        <3> QED  BY <3>1, <3>2
    <2> QED  BY <1>1, <1>4, <1>5, <1>7, <1>9, <2>1, <2>2 DEF AllOk
<1>12. BlockStep(e, d, b, pend, pend)
    BY <1>8, <1>10, <1>11 DEF BlockStep, P, R
<1>13. BlockOk(e, b, NoValue)
    <2>1. NoValue.n = 0 /\ Len(e.vec[b]) = 0
        BY <1>6, <1>8 DEF NoValue
    <2> QED  BY <1>8, <2>1, ConstantsAre DEF BlockOk
<1> QED  BY <1>12, <1>13

(* A block changes in memory.                                              *)
LEMMA ChangeIs ==
    ASSUME NEW d, NEW pend, AllOk(d, pend), NEW b \in Blocks, b \notin pend,
           NEW x \in AnyValue, x.n > 0,
           NEW e, e = [d EXCEPT !.mem[b] = Contents(b, x), !.mod[b] = "all"]
    PROVE  BlockStep(e, d, b, pend, pend) /\ BlockOk(e, b, x)
<1>1. Contents(b, x) \in Seq(Data) /\ Contents(b, x) # << >>
    BY ValueIs
<1>2. MemorySet(e, d, b, pend, Contents(b, x), "all")
    BY <1>1, SetMemory
<1>3. Len(e.vec[b]) <= MaxVec
    BY <1>2 DEF MemorySet, BlockStep, AllOk
<1> QED  BY <1>1, <1>2, <1>3 DEF MemorySet, BlockOk

LEMMA ChangeVarIs ==
    ASSUME NEW d, NEW pend, AllOk(d, pend), NEW b \in Blocks, b \notin pend,
           NEW x \in AnyValue, BlockOk(d, b, x), d.mem[b] # << >>,
           NEW y, y = [x EXCEPT !.v = 1 - @],
           NEW u, u = (IF d.mod[b] = "all" THEN "all" ELSE "var"),
           NEW e, e = [d EXCEPT !.mem[b] = [@ EXCEPT ![1].v = y.v], !.mod[b] = u]
    PROVE  BlockStep(e, d, b, pend, pend) /\ BlockOk(e, b, y) /\ y \in AnyValue
<1>1. /\ d.mem[b] = Contents(b, x) /\ x.n > 0 /\ x.n \in Nat /\ x.v \in {0, 1}
      /\ Len(d.vec[b]) <= MaxVec /\ Contents(b, x) \in Seq(Data) /\ 1 \in 1 .. x.n
      /\ Len(Contents(b, x)) = x.n
    BY ValueIs DEF BlockOk
<1>2. /\ y.n = x.n /\ y.v = 1 - x.v /\ y.v \in {0, 1} /\ y \in AnyValue
    <2>1. x \in Value
        BY <1>1 DEF AnyValue, NoValue
    <2> QED  BY <1>1, <2>1 DEF AnyValue, Value
<1>3. Content(b, 1, y) = [Content(b, 1, x) EXCEPT !.v = y.v]
    BY <1>2 DEF Content
<1>4. \A k \in 2 .. x.n : Content(b, k, y) = Content(b, k, x)
    BY <1>2 DEF Content
<1>5. [Contents(b, x) EXCEPT ![1].v = y.v] = Contents(b, y)
    <2> DEFINE m == y.v
    <2>1. \A k \in 1 .. x.n : k = 1 \/ k \in 2 .. x.n
        BY <1>1
    <2>2. Contents(b, y) = [k \in 1 .. x.n |-> Content(b, k, y)]
        BY <1>2 DEF Contents
    <2>3. Contents(b, x) = [k \in 1 .. x.n |-> Content(b, k, x)]
        BY DEF Contents
    <2> DEFINE s == Contents(b, x)
               r == Contents(b, y)
               n == x.n
    <2>4. /\ s = [k \in 1 .. n |-> s[k]] /\ r = [k \in 1 .. n |-> r[k]] /\ n \in Nat
          /\ r[1] = [s[1] EXCEPT !.v = m] /\ \A k \in 2 .. n : r[k] = s[k]
        <3>1. /\ n \in Nat /\ 1 \in 1 .. n /\ \A k \in 2 .. n : k \in 1 .. n
              /\ s = [k \in 1 .. n |-> Content(b, k, x)]
              /\ r = [k \in 1 .. n |-> Content(b, k, y)]
            BY <1>1, <2>2, <2>3
        <3>2. \A k \in 2 .. n : Content(b, k, y) = Content(b, k, x)
            BY <1>4
        <3> HIDE DEF s, r, n
        <3>3. \A k \in 1 .. n : s[k] = Content(b, k, x) /\ r[k] = Content(b, k, y)
            BY <3>1
        <3>4. s = [k \in 1 .. n |-> s[k]] /\ r = [k \in 1 .. n |-> r[k]]
            BY <3>1
        <3>5. s[1] = Content(b, 1, x) /\ r[1] = Content(b, 1, y)
            BY <3>1, <3>3
        <3>6. r[1] = [s[1] EXCEPT !.v = m]
            BY <1>3, <3>5
        <3> QED  BY <3>1, <3>2, <3>3, <3>4, <3>6
    <2>5. \A k \in 1 .. n : k = 1 \/ k \in 2 .. n
        BY <2>1
    <2> HIDE DEF m, s, r, n
    <2>6. [s EXCEPT ![1].v = m] = r
        <3>1. \A k \in 1 .. n : [s EXCEPT ![1].v = m][k] = r[k]
            BY <2>4, <2>5
        <3>2. [s EXCEPT ![1].v = m] = [k \in 1 .. n |-> [s EXCEPT ![1].v = m][k]]
            BY <2>4
        <3> QED  BY <2>4, <3>1, <3>2
    <2> QED  BY <2>6 DEF m, s, r
<1>6. Contents(b, y) \in Seq(Data) /\ Contents(b, y) # << >>
    BY <1>1, <1>2, ValueIs
<1>7. e = [d EXCEPT !.mem[b] = Contents(b, y), !.mod[b] = u]
    BY <1>1, <1>5 DEF AllOk, State
<1>8. d.mod[b] \in {"no", "var", "all"} /\ u \in {"no", "var", "all"} /\ u # "no"
    BY DEF AllOk, State
<1>9. MemorySet(e, d, b, pend, Contents(b, y), u)
    BY <1>6, <1>7, <1>8, SetMemory
<1>10. u = "var" =>
           /\ Len(d.vec[b]) = x.n
           /\ \E v \in {0, 1} : Has(d, d.vec[b][1], WithV(Content(b, 1, y), v))
           /\ \A k \in 2 .. x.n : Has(d, d.vec[b][k], Content(b, k, x))
    <2> SUFFICES ASSUME u = "var"
                 PROVE  /\ Len(d.vec[b]) = x.n
                        /\ \E v \in {0, 1} : Has(d, d.vec[b][1], WithV(Content(b, 1, y), v))
                        /\ \A k \in 2 .. x.n : Has(d, d.vec[b][k], Content(b, k, x))
        OBVIOUS
    <2>1. d.mod[b] # "all" /\ Len(d.vec[b]) = x.n
        BY DEF BlockOk
    <2> DEFINE c == Content(b, 1, x)
               r == Content(b, 1, y)
    <2>2. \A v : WithV(r, v) = WithV(c, v)
        <3>1. /\ c = [block |-> b, part |-> 1, n |-> x.n, v |-> x.v]
              /\ r = [block |-> b, part |-> 1, n |-> x.n, v |-> y.v]
            BY <1>2 DEF Content
        <3> DEFINE p == x.v
                   q == y.v
                   n == x.n
        <3>2. /\ c = [block |-> b, part |-> 1, n |-> n, v |-> p]
              /\ r = [block |-> b, part |-> 1, n |-> n, v |-> q]
            BY <3>1
        <3> HIDE DEF c, r, p, q, n
        <3> QED  BY <3>2 DEF WithV
    <2>3. WithV(c, x.v) = c
        <3> DEFINE p == x.v
                   n == x.n
        <3>1. c = [block |-> b, part |-> 1, n |-> n, v |-> p]
            BY DEF Content
        <3> HIDE DEF c, p, n
        <3>2. WithV(c, p) = c
            BY <3>1 DEF WithV
        <3> QED  BY <3>2 DEF p
    <2> HIDE DEF c, r
    <2>4. CASE d.mod[b] = "no"
        <3>1. \A k \in 1 .. x.n : Has(d, d.vec[b][k], Content(b, k, x))
            BY <2>4 DEF BlockOk
        <3>2. Has(d, d.vec[b][1], WithV(r, x.v))
            BY <1>1, <2>2, <2>3, <3>1 DEF c
        <3>3. \A k \in 2 .. x.n : k \in 1 .. x.n
            BY <1>1
        <3> QED  BY <1>1, <2>1, <3>1, <3>2, <3>3 DEF r
    <2>5. CASE d.mod[b] = "var"
        <3>1. /\ \E v \in {0, 1} : Has(d, d.vec[b][1], WithV(c, v))
              /\ \A k \in 2 .. x.n : Has(d, d.vec[b][k], Content(b, k, x))
            BY <2>5 DEF BlockOk, c
        <3> QED  BY <2>1, <2>2, <3>1 DEF r
    <2> QED  BY <1>8, <2>1, <2>4, <2>5
<1>11. BlockOk(e, b, y)
    <2>1. /\ e.mem[b] = Contents(b, y) /\ e.mod[b] = u /\ e.vec = d.vec
          /\ \A t, c : Has(e, t, c) <=> Has(d, t, c)
        BY <1>9 DEF MemorySet
    <2>2. u = "var" =>
              /\ Len(e.vec[b]) = y.n
              /\ \E v \in {0, 1} : Has(e, e.vec[b][1], WithV(Content(b, 1, y), v))
              /\ \A k \in 2 .. y.n : Has(e, e.vec[b][k], Content(b, k, y))
        BY <1>2, <1>4, <1>10, <2>1
    <2>3. u \in {"var", "all"}
        OBVIOUS
    <2> QED  BY <1>1, <1>2, <1>6, <2>1, <2>2, <2>3 DEF BlockOk
<1> QED  BY <1>2, <1>9, <1>11 DEF MemorySet

---------------------------------------------------------------------------
(* Walks through the blocks.                                               *)

(* d_swapout(1): the first k blocks of q are out of memory.                *)
OutTo(y, d, pend, x, conv, from, q, k) ==
    /\ Stands(y, pend, x, conv, from) /\ Writes(y, d)
    /\ \A j \in 1 .. k : y.mem[q[j]] = << >>
    /\ \A a \in Blocks : y.mem[a] \in {<< >>, d.mem[a]}

LEMMA SwapOutAllIs ==
    ASSUME NEW d, NEW pend, NEW x, NEW conv, NEW from, Stands(d, pend, x, conv, from),
           NEW q \in Seq(Blocks), \A k \in 1 .. Len(q) : q[k] \notin pend,
           NEW e, e = Walk(SwapOut, d, q)
    PROVE  OutTo(e, d, pend, x, conv, from, q, Len(q))
<1> DEFINE n == Len(q)
           Step(y, b) == SwapOut(y, b)
           I == {p \in State \X Nat : OutTo(p[1], d, pend, x, conv, from, q, p[2])}
           Op == [p \in I |-> Step(p[1], q[p[2] + 1])]
           F(f) == [k \in 0 .. n |-> IF k = 0 THEN d ELSE Step(f[k - 1], q[k])]
           g == CHOOSE f : f = F(f)
<1>1. d \in State /\ n \in Nat /\ d.dev.swap \in Descriptor /\ x \in [Blocks -> AnyValue]
    BY DeviceFields DEF Stands, AllOk, State
<1>2. << d, 0 >> \in I
    <2>1. OutTo(d, d, pend, x, conv, from, q, 0)
        BY WritesSelf DEF OutTo
    <2> QED  BY <1>1, <2>1
<1>3. ASSUME NEW k \in 1 .. n, NEW y, << y, k - 1 >> \in I
      PROVE  << Step(y, q[k]), k >> \in I
    <2> DEFINE z == SwapOut(y, q[k])
               b == q[k]
    <2>1. /\ OutTo(y, d, pend, x, conv, from, q, k - 1) /\ Stands(y, pend, x, conv, from)
          /\ Writes(y, d) /\ AllOk(y, pend) /\ k \in Nat /\ b \in Blocks /\ b \notin pend
        BY <1>1, <1>3 DEF OutTo, Stands
    <2>2. x[b] \in AnyValue /\ BlockOk(y, b, x[b])
        BY <1>1, <2>1 DEF Stands
    <2>3. Gone(z, y, b, pend, x[b])
        BY <2>1, <2>2, SwapOutIs
    <2> HIDE DEF z, b
    <2>4. /\ BlockStep(z, y, b, pend, pend) /\ BlockOk(z, b, x[b]) /\ z.mem[b] = << >>
          /\ Writes(z, y) /\ z \in State
          /\ \A a \in Blocks : a # b => z.mem[a] = y.mem[a]
        BY <2>3 DEF Gone, BlockStep, AllOk
    <2>5. pend \ {b} = pend
        BY <2>1
    <2>6. Stands(z, pend, x, conv, from)
        <3>1. /\ Stands(y, pend, x, conv, from) /\ BlockStep(z, y, b, pend, pend \ {b})
              /\ x \in [Blocks -> AnyValue] /\ (\A a \in Blocks : a # b => x[a] = x[a])
              /\ BlockOk(z, b, x[b]) /\ b \in Blocks
            BY <1>1, <2>1, <2>4, <2>5
        <3>2. Stands(z, pend \ {b}, x, conv, from)
            BY ONLY <3>1, OthersKept
        <3> QED  BY <2>5, <3>2
    <2>7. Writes(z, d)
        BY <1>1, <2>1, <2>4, WritesOn
    <2>8. \A j \in 1 .. k : z.mem[q[j]] = << >>
        <3> TAKE j \in 1 .. k
        <3>1. q[j] = b \/ (j \in 1 .. k - 1 /\ q[j] # b)
            BY <2>1 DEF b
        <3>2. q[j] \in Blocks
            BY <1>1
        <3>3. \A i \in 1 .. k - 1 : y.mem[q[i]] = << >>
            BY <2>1 DEF OutTo
        <3> QED  BY <2>4, <3>1, <3>2, <3>3
    <2>9. \A a \in Blocks : z.mem[a] \in {<< >>, d.mem[a]}
        BY <2>1, <2>4 DEF OutTo
    <2>10. OutTo(z, d, pend, x, conv, from, q, k)
        BY <2>6, <2>7, <2>8, <2>9 DEF OutTo
    <2> QED  BY <2>1, <2>4, <2>10 DEF z
<1> HIDE DEF I, Step
<1>4. Closed(I, n, Op)
    <2> SUFFICES ASSUME NEW k \in 1 .. n, NEW y, << y, k - 1 >> \in I
                 PROVE  << Op[<< y, k - 1 >>], k >> \in I
        BY DEF Closed
    <2>1. Op[<< y, k - 1 >>] = Step(y, q[k])
        OBVIOUS
    <2> QED  BY <1>3, <2>1
<1>5. g = F(g)
    <2>1. PICK f : Walks(f, n, d, Op) /\ \A k \in 0 .. n : << f[k], k >> \in I
        BY <1>1, <1>2, <1>4, WalkWithin
    <2>2. \A k \in 1 .. n : Op[<< f[k - 1], k - 1 >>] = Step(f[k - 1], q[k])
        BY <1>1, <2>1
    <2> HIDE DEF Op
    <2>3. \A k \in 0 .. n : k = 0 \/ k \in 1 .. n
        BY <1>1
    <2>4. f = F(f)
        BY <2>1, <2>2, <2>3 DEF Walks
    <2> QED  BY <2>4
<1>6. e = g[n]
    BY <1>1 DEF Walk, Step
<1> HIDE DEF g
<1>7. << g[n], n >> \in I
    <2>1. g[0] = d /\ \A k \in 1 .. n : g[k] = Step(g[k - 1], q[k])
        BY <1>1, <1>5
    <2>2. \A k \in 1 .. n : << g[k - 1], k - 1 >> \in I => g[k] = Op[<< g[k - 1], k - 1 >>]
        BY <1>1, <2>1
    <2> HIDE DEF Op
    <2> QED  BY <1>1, <1>2, <1>4, <2>1, <2>2, WalkEnds
<1> QED  BY <1>6, <1>7 DEF I

(* One block less of the snapshot.                                         *)
LEMMA LeftNext ==
    ASSUME NEW pend, NEW q, NEW n \in Nat, \A k \in 1 .. n : q[k] \in pend,
           \A j, k \in 1 .. n : q[j] = q[k] => j = k, NEW k \in 1 .. n
    PROVE  /\ Left(pend, q, k) = Left(pend, q, k - 1) \ {q[k]}
           /\ q[k] \in Left(pend, q, k - 1)
<1>1. \A j \in 1 .. k : j \in 1 .. k - 1 \/ j = k
    OBVIOUS
<1>2. \A j \in 1 .. k - 1 : j \in 1 .. k /\ j \in 1 .. n /\ j # k
    OBVIOUS
<1>3. k \in 1 .. k
    OBVIOUS
<1>4. \A t : t \in Left(pend, q, k) <=> t \in Left(pend, q, k - 1) /\ t # q[k]
    BY <1>1, <1>2, <1>3 DEF Left
<1>5. q[k] \in Left(pend, q, k - 1)
    BY <1>2 DEF Left
<1>6. \A t : t \in Left(pend, q, k) <=> t \in Left(pend, q, k - 1) \ {q[k]}
    BY <1>4
<1> QED  BY <1>5, <1>6

(* The first k blocks of q have come from the snapshot.                    *)
BackTo(y, d, pend, x, conv, from, q, k) ==
    /\ Stands(y, Left(pend, q, k), x, conv, from) /\ Writes(y, d)
    /\ \A a \in Blocks : (\A j \in 1 .. k : q[j] # a) => y.mem[a] = d.mem[a]

(* conf_dump(): those that are left are copied.                            *)
LEMMA RestoreAllIs ==
    ASSUME NEW d, NEW pend, NEW x, NEW conv, NEW from, Stands(d, pend, x, conv, from),
           NEW q \in Seq(Blocks), \A k \in 1 .. Len(q) : q[k] \in pend,
           \A j, k \in 1 .. Len(q) : q[j] = q[k] => j = k,
           conv = converted, \A b \in pend : from[b] = d.dev.dump,
           NEW e, e = RestoreAll(d, q)
    PROVE  BackTo(e, d, pend, x, conv, from, q, Len(q))
<1> DEFINE n == Len(q)
           Step(y, b) == RestoreObj(y, b)
           I == {p \in State \X Nat : BackTo(p[1], d, pend, x, conv, from, q, p[2])}
           Op == [p \in I |-> Step(p[1], q[p[2] + 1])]
           F(f) == [k \in 0 .. n |-> IF k = 0 THEN d ELSE Step(f[k - 1], q[k])]
           g == CHOOSE f : f = F(f)
<1>1. /\ d \in State /\ n \in Nat /\ d.dev.swap \in Descriptor /\ x \in [Blocks -> AnyValue]
      /\ pend \subseteq Blocks
    BY DeviceFields DEF Stands, AllOk, State
<1>2. << d, 0 >> \in I
    <2>1. Left(pend, q, 0) = pend
        BY DEF Left
    <2>2. BackTo(d, d, pend, x, conv, from, q, 0)
        BY <2>1, WritesSelf DEF BackTo
    <2> QED  BY <1>1, <2>2
<1>3. ASSUME NEW k \in 1 .. n, NEW y, << y, k - 1 >> \in I
      PROVE  << Step(y, q[k]), k >> \in I
    <2> DEFINE z == Step(y, q[k])
               b == q[k]
               P == Left(pend, q, k - 1)
    <2>1. /\ BackTo(y, d, pend, x, conv, from, q, k - 1) /\ Stands(y, P, x, conv, from)
          /\ Writes(y, d) /\ AllOk(y, P) /\ k \in Nat /\ k > 0 /\ b \in Blocks /\ y \in State
        BY <1>1, <1>3 DEF BackTo, Stands
    <2>2. Left(pend, q, k) = P \ {b} /\ b \in P
        BY <1>1, LeftNext
    <2>3. x[b] \in AnyValue /\ PendingIn(y, b, from[b], x[b], conv)
        BY <1>1, <2>1, <2>2 DEF Stands
    <2> HIDE DEF b, P
    <2>4. BlockStep(z, y, b, P, P \ {b}) /\ BlockOk(z, b, x[b])
        <3>1. y.dev.dump = d.dev.dump /\ b \in pend
            BY <2>1, <2>2 DEF Writes, P, Left
        <3>2. PendingIn(y, b, y.dev.dump, x[b], converted)
            BY <2>3, <3>1
        <3>3. z = RestoreObj(y, b)
            BY DEF b
        <3> HIDE DEF z
        <3>4. BlockGoes(z, y, b, P, x[b])
            BY <2>1, <2>2, <2>3, <3>2, <3>3, RestoreBlock
        <3> QED  BY <3>4 DEF BlockGoes
    <2> HIDE DEF z
    <2>6. Stands(z, Left(pend, q, k), x, conv, from)
        <3>1. /\ Stands(y, P, x, conv, from) /\ BlockStep(z, y, b, P, P \ {b})
              /\ x \in [Blocks -> AnyValue] /\ (\A a \in Blocks : a # b => x[a] = x[a])
              /\ BlockOk(z, b, x[b]) /\ b \in Blocks
            BY <1>1, <2>1, <2>4
        <3>2. Stands(z, P \ {b}, x, conv, from)
            BY ONLY <3>1, OthersKept
        <3> QED  BY <2>2, <3>2
    <2>7. Writes(z, d) /\ z \in State
        <3>1. Writes(z, y) /\ z \in State
            BY <2>4 DEF BlockStep, AllOk
        <3> QED  BY <1>1, <2>1, <3>1, WritesOn
    <2>8. \A a \in Blocks : (\A j \in 1 .. k : q[j] # a) => z.mem[a] = d.mem[a]
        <3> SUFFICES ASSUME NEW a \in Blocks, \A j \in 1 .. k : q[j] # a
                     PROVE  z.mem[a] = d.mem[a]
            OBVIOUS
        <3>1. k \in 1 .. k /\ \A j \in 1 .. k - 1 : j \in 1 .. k
            BY <2>1
        <3>2. a # b /\ \A j \in 1 .. k - 1 : q[j] # a
            BY <3>1 DEF b
        <3>3. z.mem[a] = y.mem[a]
            BY <2>4, <3>2 DEF BlockStep
        <3> QED  BY <2>1, <3>2, <3>3 DEF BackTo
    <2>9. BackTo(z, d, pend, x, conv, from, q, k)
        BY <2>6, <2>7, <2>8 DEF BackTo
    <2> QED  BY <2>1, <2>7, <2>9 DEF z, b
<1> HIDE DEF I, Step
<1>4. Closed(I, n, Op)
    <2> SUFFICES ASSUME NEW k \in 1 .. n, NEW y, << y, k - 1 >> \in I
                 PROVE  << Op[<< y, k - 1 >>], k >> \in I
        BY DEF Closed
    <2>1. Op[<< y, k - 1 >>] = Step(y, q[k])
        OBVIOUS
    <2> QED  BY <1>3, <2>1
<1>5. g = F(g)
    <2>1. PICK f : Walks(f, n, d, Op) /\ \A k \in 0 .. n : << f[k], k >> \in I
        BY <1>1, <1>2, <1>4, WalkWithin
    <2>2. \A k \in 1 .. n : Op[<< f[k - 1], k - 1 >>] = Step(f[k - 1], q[k])
        BY <1>1, <2>1
    <2> HIDE DEF Op
    <2>3. \A k \in 0 .. n : k = 0 \/ k \in 1 .. n
        BY <1>1
    <2>4. f = F(f)
        BY <2>1, <2>2, <2>3 DEF Walks
    <2> QED  BY <2>4
<1>6. e = g[n]
    BY <1>1 DEF Walk, Step, RestoreAll
<1> HIDE DEF g
<1>7. << g[n], n >> \in I
    <2>1. g[0] = d /\ \A k \in 1 .. n : g[k] = Step(g[k - 1], q[k])
        BY <1>1, <1>5
    <2>2. \A k \in 1 .. n : << g[k - 1], k - 1 >> \in I => g[k] = Op[<< g[k - 1], k - 1 >>]
        BY <1>1, <2>1
    <2> HIDE DEF Op
    <2> QED  BY <1>1, <1>2, <1>4, <2>1, <2>2, WalkEnds
<1> QED  BY <1>6, <1>7 DEF I

(* A block of the secondary snapshot.                                      *)
LEMMA Restore2Is ==
    ASSUME NEW d, NEW pend, AllOk(d, pend), NEW b \in pend, NEW x \in AnyValue, NEW f,
           PendingIn(d, b, f, x, FALSE), NEW e, e = Restore2(d, b, f)
    PROVE  BlockGoes(e, d, b, pend, x)
<1> DEFINE c == [Conv(d, b, f) EXCEPT !.mod[b] = "all"]
<1>1. BlockGoes(c, d, b, pend, x)
    BY ConvBlock
<1>2. e = SwapOut(c, b)
    BY DEF Restore2
<1> HIDE DEF c
<1>3. /\ BlockStep(c, d, b, pend, pend \ {b}) /\ BlockOk(c, b, x) /\ AllOk(c, pend \ {b})
      /\ b \in Blocks /\ b \notin pend \ {b}
    BY <1>1 DEF BlockGoes, BlockStep, AllOk
<1>4. Gone(e, c, b, pend \ {b}, x)
    BY <1>2, <1>3, SwapOutIs
<1>5. BlockStep(e, c, b, pend \ {b}, pend \ {b}) /\ BlockOk(e, b, x)
    BY <1>4 DEF Gone
<1>6. BlockStep(e, d, b, pend, pend \ {b})
    <2>1. (pend \ {b}) \ {b} = pend \ {b}
        OBVIOUS
    <2> QED  BY <1>3, <1>5, <2>1, BlockStepOn
<1> QED  BY <1>5, <1>6 DEF BlockGoes

(* o_restore(): those of the secondary snapshot.                           *)
LEMMA Restore2AllIs ==
    ASSUME NEW d, NEW pend, NEW x, NEW conv, NEW from, Stands(d, pend, x, conv, from),
           NEW q \in Seq(Blocks), \A k \in 1 .. Len(q) : q[k] \in pend,
           \A j, k \in 1 .. Len(q) : q[j] = q[k] => j = k,
           NEW file, conv = FALSE, \A k \in 1 .. Len(q) : from[q[k]] = file,
           NEW e, e = Restore2All(d, q, file)
    PROVE  BackTo(e, d, pend, x, conv, from, q, Len(q))
<1> DEFINE n == Len(q)
           Step(y, b) == Restore2(y, b, file)
           I == {p \in State \X Nat : BackTo(p[1], d, pend, x, conv, from, q, p[2])}
           Op == [p \in I |-> Step(p[1], q[p[2] + 1])]
           F(f) == [k \in 0 .. n |-> IF k = 0 THEN d ELSE Step(f[k - 1], q[k])]
           g == CHOOSE f : f = F(f)
<1>1. /\ d \in State /\ n \in Nat /\ d.dev.swap \in Descriptor /\ x \in [Blocks -> AnyValue]
      /\ pend \subseteq Blocks
    BY DeviceFields DEF Stands, AllOk, State
<1>2. << d, 0 >> \in I
    <2>1. Left(pend, q, 0) = pend
        BY DEF Left
    <2>2. BackTo(d, d, pend, x, conv, from, q, 0)
        BY <2>1, WritesSelf DEF BackTo
    <2> QED  BY <1>1, <2>2
<1>3. ASSUME NEW k \in 1 .. n, NEW y, << y, k - 1 >> \in I
      PROVE  << Step(y, q[k]), k >> \in I
    <2> DEFINE z == Step(y, q[k])
               b == q[k]
               P == Left(pend, q, k - 1)
    <2>1. /\ BackTo(y, d, pend, x, conv, from, q, k - 1) /\ Stands(y, P, x, conv, from)
          /\ Writes(y, d) /\ AllOk(y, P) /\ k \in Nat /\ k > 0 /\ b \in Blocks /\ y \in State
        BY <1>1, <1>3 DEF BackTo, Stands
    <2>2. Left(pend, q, k) = P \ {b} /\ b \in P
        BY <1>1, LeftNext
    <2>3. x[b] \in AnyValue /\ PendingIn(y, b, from[b], x[b], conv)
        BY <1>1, <2>1, <2>2 DEF Stands
    <2> HIDE DEF b, P
    <2>4. BlockStep(z, y, b, P, P \ {b}) /\ BlockOk(z, b, x[b])
        <3>1. PendingIn(y, b, file, x[b], FALSE)
            BY <2>3 DEF b
        <3>2. z = Restore2(y, b, file)
            BY DEF b
        <3> HIDE DEF z
        <3>3. BlockGoes(z, y, b, P, x[b])
            BY <2>1, <2>2, <2>3, <3>1, <3>2, Restore2Is
        <3> QED  BY <3>3 DEF BlockGoes
    <2> HIDE DEF z
    <2>6. Stands(z, Left(pend, q, k), x, conv, from)
        <3>1. /\ Stands(y, P, x, conv, from) /\ BlockStep(z, y, b, P, P \ {b})
              /\ x \in [Blocks -> AnyValue] /\ (\A a \in Blocks : a # b => x[a] = x[a])
              /\ BlockOk(z, b, x[b]) /\ b \in Blocks
            BY <1>1, <2>1, <2>4
        <3>2. Stands(z, P \ {b}, x, conv, from)
            BY ONLY <3>1, OthersKept
        <3> QED  BY <2>2, <3>2
    <2>7. Writes(z, d) /\ z \in State
        <3>1. Writes(z, y) /\ z \in State
            BY <2>4 DEF BlockStep, AllOk
        <3> QED  BY <1>1, <2>1, <3>1, WritesOn
    <2>8. \A a \in Blocks : (\A j \in 1 .. k : q[j] # a) => z.mem[a] = d.mem[a]
        <3> SUFFICES ASSUME NEW a \in Blocks, \A j \in 1 .. k : q[j] # a
                     PROVE  z.mem[a] = d.mem[a]
            OBVIOUS
        <3>1. k \in 1 .. k /\ \A j \in 1 .. k - 1 : j \in 1 .. k
            BY <2>1
        <3>2. a # b /\ \A j \in 1 .. k - 1 : q[j] # a
            BY <3>1 DEF b
        <3>3. z.mem[a] = y.mem[a]
            BY <2>4, <3>2 DEF BlockStep
        <3> QED  BY <2>1, <3>2, <3>3 DEF BackTo
    <2>9. BackTo(z, d, pend, x, conv, from, q, k)
        BY <2>6, <2>7, <2>8 DEF BackTo
    <2> QED  BY <2>1, <2>7, <2>9 DEF z, b
<1> HIDE DEF I, Step
<1>4. Closed(I, n, Op)
    <2> SUFFICES ASSUME NEW k \in 1 .. n, NEW y, << y, k - 1 >> \in I
                 PROVE  << Op[<< y, k - 1 >>], k >> \in I
        BY DEF Closed
    <2>1. Op[<< y, k - 1 >>] = Step(y, q[k])
        OBVIOUS
    <2> QED  BY <1>3, <2>1
<1>5. g = F(g)
    <2>1. PICK f : Walks(f, n, d, Op) /\ \A k \in 0 .. n : << f[k], k >> \in I
        BY <1>1, <1>2, <1>4, WalkWithin
    <2>2. \A k \in 1 .. n : Op[<< f[k - 1], k - 1 >>] = Step(f[k - 1], q[k])
        BY <1>1, <2>1
    <2> HIDE DEF Op
    <2>3. \A k \in 0 .. n : k = 0 \/ k \in 1 .. n
        BY <1>1
    <2>4. f = F(f)
        BY <2>1, <2>2, <2>3 DEF Walks
    <2> QED  BY <2>4
<1>6. e = g[n]
    BY <1>1 DEF Walk, Step, Restore2All
<1> HIDE DEF g
<1>7. << g[n], n >> \in I
    <2>1. g[0] = d /\ \A k \in 1 .. n : g[k] = Step(g[k - 1], q[k])
        BY <1>1, <1>5
    <2>2. \A k \in 1 .. n : << g[k - 1], k - 1 >> \in I => g[k] = Op[<< g[k - 1], k - 1 >>]
        BY <1>1, <2>1
    <2> HIDE DEF Op
    <2> QED  BY <1>1, <1>2, <1>4, <2>1, <2>2, WalkEnds
<1> QED  BY <1>6, <1>7 DEF I

---------------------------------------------------------------------------
(* The flush of the cache.                                                 *)

(* The first k slots of q are in the swap file.                            *)
FlushedTo(y, d, H, P, q, k) ==
    /\ Goes(y, d, H, P)
    /\ y.dev.map = d.dev.map /\ y.dev.order = d.dev.order /\ y.dev.lfree = d.dev.lfree
    /\ y.dev.swap = d.dev.swap
    /\ \A j \in Slots : /\ y.dev.slot[j].sec = d.dev.slot[j].sec
                        /\ y.dev.slot[j].dirty = d.dev.slot[j].dirty
                        /\ y.dev.slot[j].data = d.dev.slot[j].data
    /\ \A j \in 1 .. k : y.dev.slot[q[j]].dirty => Saved(y, q[j])

LEMMA FlushWalkIs ==
    ASSUME NEW d, NEW H, NEW P, DeviceOk(d, H, P), d.dev.swap # NoFile,
           NEW q \in Seq(Slots), \A k \in 1 .. Len(q) : q[k] \in ToSet(d.dev.order),
           NEW e, e = Walk(Write, d, q)
    PROVE  FlushedTo(e, d, H, P, q, Len(q))
<1> DEFINE n == Len(q)
           Step(y, b) == Write(y, b)
           I == {p \in State \X Nat : FlushedTo(p[1], d, H, P, q, p[2])}
           Op == [p \in I |-> Step(p[1], q[p[2] + 1])]
           F(f) == [k \in 0 .. n |-> IF k = 0 THEN d ELSE Step(f[k - 1], q[k])]
           g == CHOOSE f : f = F(f)
<1>1. d \in State /\ n \in Nat
    BY DEF DeviceOk
<1>2. << d, 0 >> \in I
    <2>1. FlushedTo(d, d, H, P, q, 0)
        BY GoesSelf DEF FlushedTo
    <2> QED  BY <1>1, <2>1
<1>3. ASSUME NEW k \in 1 .. n, NEW y, << y, k - 1 >> \in I
      PROVE  << Step(y, q[k]), k >> \in I
    <2> DEFINE i == q[k]
               z == Write(y, i)
    <2>1. /\ FlushedTo(y, d, H, P, q, k - 1) /\ k \in Nat /\ k > 0
          /\ i \in ToSet(d.dev.order) /\ i \in Slots
        BY <1>1, <1>3
    <2>2. /\ DeviceOk(y, H, P) /\ Goes(y, d, H, P) /\ y.dev.order = d.dev.order
          /\ y.dev.swap = d.dev.swap
        BY <2>1 DEF FlushedTo, Goes
    <2> HIDE DEF i
    <2>3. Wrote(z, y, H, P, i)
        <3>1. i \in ToSet(y.dev.order) /\ y.dev.swap # NoFile
            BY <2>1, <2>2
        <3> HIDE DEF z
        <3> QED  BY <2>2, <3>1, WriteIs DEF z
    <2> HIDE DEF z
    <2>4. /\ Goes(z, y, H, P)
          /\ z.dev.map = y.dev.map /\ z.dev.order = y.dev.order /\ z.dev.lfree = y.dev.lfree
          /\ z.dev.swap = y.dev.swap
          /\ \A j \in Slots : /\ z.dev.slot[j].sec = y.dev.slot[j].sec
                              /\ z.dev.slot[j].dirty = y.dev.slot[j].dirty
                              /\ z.dev.slot[j].data = y.dev.slot[j].data
          /\ z.dev.slot[i].dirty => Saved(z, i)
          /\ \A j \in ToSet(y.dev.order) : y.dev.slot[j].dirty /\ Saved(y, j) => Saved(z, j)
        BY <2>3 DEF Wrote
    <2>5. Goes(z, d, H, P)
        BY <2>2, <2>4, GoesOn
    <2>6. \A j \in 1 .. k : z.dev.slot[q[j]].dirty => Saved(z, q[j])
        <3> TAKE j \in 1 .. k
        <3>1. q[j] = i \/ j \in 1 .. k - 1
            BY <2>1 DEF i
        <3>2. q[j] \in Slots /\ q[j] \in ToSet(y.dev.order)
            BY <1>1, <2>2
        <3>3. \A m \in 1 .. k - 1 : y.dev.slot[q[m]].dirty => Saved(y, q[m])
            BY <2>1 DEF FlushedTo
        <3> QED  BY <2>4, <3>1, <3>2, <3>3
    <2>7. FlushedTo(z, d, H, P, q, k)
        BY <2>1, <2>4, <2>5, <2>6 DEF FlushedTo
    <2>8. z \in State
        BY <2>5 DEF Goes, DeviceOk
    <2> QED  BY <2>1, <2>7, <2>8 DEF z, i
<1> HIDE DEF I, Step
<1>4. Closed(I, n, Op)
    <2> SUFFICES ASSUME NEW k \in 1 .. n, NEW y, << y, k - 1 >> \in I
                 PROVE  << Op[<< y, k - 1 >>], k >> \in I
        BY DEF Closed
    <2>1. Op[<< y, k - 1 >>] = Step(y, q[k])
        OBVIOUS
    <2> QED  BY <1>3, <2>1
<1>5. g = F(g)
    <2>1. PICK f : Walks(f, n, d, Op) /\ \A k \in 0 .. n : << f[k], k >> \in I
        BY <1>1, <1>2, <1>4, WalkWithin
    <2>2. \A k \in 1 .. n : Op[<< f[k - 1], k - 1 >>] = Step(f[k - 1], q[k])
        BY <1>1, <2>1
    <2> HIDE DEF Op
    <2>3. \A k \in 0 .. n : k = 0 \/ k \in 1 .. n
        BY <1>1
    <2>4. f = F(f)
        BY <2>1, <2>2, <2>3 DEF Walks
    <2> QED  BY <2>4
<1>6. e = g[n]
    BY <1>1 DEF Walk, Step
<1> HIDE DEF g
<1>7. << g[n], n >> \in I
    <2>1. g[0] = d /\ \A k \in 1 .. n : g[k] = Step(g[k - 1], q[k])
        BY <1>1, <1>5
    <2>2. \A k \in 1 .. n : << g[k - 1], k - 1 >> \in I => g[k] = Op[<< g[k - 1], k - 1 >>]
        BY <1>1, <2>1
    <2> HIDE DEF Op
    <2> QED  BY <1>1, <1>2, <1>4, <2>1, <2>2, WalkEnds
<1> QED  BY <1>6, <1>7 DEF I

(* Nothing in the cache is left to be written.                             *)
Cleaned(y) == [y EXCEPT !.dev.slot = [i \in Slots |-> [@[i] EXCEPT !.dirty = FALSE]]]

LEMMA CleanedIs ==
    ASSUME NEW d, NEW H, NEW P, DeviceOk(d, H, P),
           \A i \in ToSet(d.dev.order) : d.dev.slot[i].dirty => Saved(d, i),
           NEW e, e = Cleaned(d)
    PROVE  Goes(e, d, H, P) /\ \A i \in Slots : ~e.dev.slot[i].dirty
<1> DEFINE v == d.dev
           slots == [i \in Slots |-> [v.slot[i] EXCEPT !.dirty = FALSE]]
           w == [v EXCEPT !.slot = slots]
<1>1. /\ d \in State /\ v \in Device /\ H \subseteq Sectors /\ P \subseteq H
      /\ Cache(v, H) /\ Places(v, H, P)
    BY DEF DeviceOk, State
<1>2. /\ v.slot \in [Slots -> Slot] /\ v.order \in Seq(Slots) /\ v.lfree \in Seq(Slots)
      /\ v.map \in [Sectors -> Place]
    BY <1>1, DeviceFields
<1>3. e = [d EXCEPT !.dev = w]
    BY <1>1 DEF Cleaned, State
<1> HIDE DEF v
<1>4. slots \in [Slots -> Slot]
    <2>1. \A i \in Slots : [v.slot[i] EXCEPT !.dirty = FALSE] \in Slot
        BY <1>2 DEF Slot
    <2> QED  BY <2>1
<1>5. \A i \in Slots : /\ slots[i].sec = v.slot[i].sec /\ slots[i].swap = v.slot[i].swap
                       /\ slots[i].data = v.slot[i].data /\ ~slots[i].dirty
    <2> TAKE i \in Slots
    <2>1. v.slot[i] \in Slot
        BY <1>2
    <2> QED  BY <2>1 DEF Slot
<1> HIDE DEF slots
<1>6. /\ w \in Device /\ w.map = v.map /\ w.slot = slots /\ w.order = v.order
      /\ w.lfree = v.lfree /\ w.sfree = v.sfree /\ w.ssectors = v.ssectors
      /\ w.sbarrier = v.sbarrier /\ w.swapping = v.swapping /\ w.swap = v.swap
      /\ w.dump = v.dump /\ w.nsectors = v.nsectors /\ w.mfree = v.mfree
    BY <1>1, <1>4 DEF Device
<1> HIDE DEF w
<1>7. \A t \in H : /\ InSlot(w, t) <=> InSlot(v, t)
                   /\ PlaceOf(w, t) = PlaceOf(v, t)
                   /\ InSlot(v, t) => v.map[t] \in Slots
    <2> TAKE t \in H
    <2>1. \A i \in Slots : slots[i].sec = v.slot[i].sec /\ slots[i].swap = v.slot[i].swap
        BY <1>5
    <2> QED  BY <1>6, <2>1 DEF InSlot, PlaceOf
<1>8. Cache(w, H)
    <2>1. /\ IsInjective(v.order) /\ IsInjective(v.lfree)
          /\ ToSet(v.order) \cap ToSet(v.lfree) = {}
          /\ ToSet(v.order) \cup ToSet(v.lfree) = Slots
          /\ \A i \in ToSet(v.order) : v.slot[i].sec \in H /\ v.map[v.slot[i].sec] = i
          /\ \A i \in ToSet(v.lfree) : v.slot[i].sec = UNUSED /\ v.slot[i].swap = UNUSED
          /\ \A t \in Sectors \ H : v.map[t] = UNUSED
        BY <1>1 DEF Cache
    <2>2. \A i \in ToSet(v.order) : i \in Slots
        BY <2>1
    <2>3. \A i \in ToSet(v.lfree) : i \in Slots
        BY <2>1
    <2> QED  BY <1>5, <1>6, <2>1, <2>2, <2>3 DEF Cache
<1>9. Places(w, H, P)
    <2>1. \A t \in P : InSlot(w, t) => ~w.slot[w.map[t]].dirty
        <3> SUFFICES ASSUME NEW t \in P, InSlot(w, t)  PROVE ~w.slot[w.map[t]].dirty
            OBVIOUS
        <3>1. v.map[t] \in Slots
            BY <1>1, <1>7
        <3>2. w.slot[w.map[t]] = slots[v.map[t]]
            BY <1>6
        <3> QED  BY <1>5, <3>1, <3>2
    <2>2. \A t \in H : PlaceOf(w, t) = PlaceOf(v, t)
        BY <1>7
    <2>3. /\ P \subseteq H /\ Places(v, H, P) /\ w.sfree = v.sfree /\ w.sbarrier = v.sbarrier
          /\ w.ssectors = v.ssectors /\ w.swap = v.swap
        BY <1>1, <1>6
    <2> QED  BY ONLY <2>1, <2>2, <2>3, PlacesKept
<1>10. /\ e \in State /\ e.dev = w /\ e.disk = d.disk /\ e.vec = d.vec /\ e.mem = d.mem
       /\ e.mod = d.mod
    BY <1>1, <1>3, <1>6 DEF State
<1>11. DeviceOk(e, H, P)
    <2>1. /\ v.dump \in {NoFile, names.snapshot, names.old}
          /\ v.dump # NoFile => v.swap # v.dump
        BY DEF DeviceOk, v
    <2> QED  BY <1>1, <1>6, <1>8, <1>9, <1>10, <2>1 DEF DeviceOk
<1>12. Writes(e, d)
    BY <1>6, <1>10 DEF Writes, v
<1>13. Keeps(e, d, H, P)
    <2> SUFFICES ASSUME NEW t \in H
                 PROVE  /\ t \notin P => \A c : Has(d, t, c) => Has(e, t, c)
                        /\ t \in P => \A c : \A f \in Files : f # e.dev.swap =>
                                          (HasIn(d, f, t, c) => HasIn(e, f, t, c))
                        /\ ~InSlot(d.dev, t) => ~InSlot(e.dev, t) /\ e.dev.map[t] = d.dev.map[t]
        BY DEF Keeps
    <2> DEFINE i == v.map[t]
    <2>1. /\ InSlot(e.dev, t) <=> InSlot(v, t)
          /\ PlaceOf(e.dev, t) = PlaceOf(v, t)
          /\ InSlot(v, t) => i \in Slots
        BY <1>7, <1>10
    <2>2. /\ d.dev = v /\ e.dev = w /\ e.disk = d.disk /\ w.swap = v.swap /\ w.map[t] = i
          /\ w.slot = slots
        BY <1>6, <1>10 DEF v
    <2>3. /\ i \in Slots => /\ slots[i].swap = v.slot[i].swap
                            /\ slots[i].data = v.slot[i].data /\ ~slots[i].dirty
          /\ v.map[t] = i
        BY <1>5
    <2>4. InSlot(v, t) => (v.slot[i].dirty => Saved(d, i))
        <3> SUFFICES ASSUME InSlot(v, t)  PROVE v.slot[i].dirty => Saved(d, i)
            OBVIOUS
        <3>1. i \in ToSet(v.order)
            BY <1>1, InSlotIs
        <3> QED  BY <3>1 DEF v
    <2> HIDE DEF i
    <2>5. \A c : Has(d, t, c) => Has(e, t, c)
        BY <2>1, <2>2, <2>3, <2>4 DEF Has, Saved, Filed
    <2>6. \A c, f : HasIn(d, f, t, c) => HasIn(e, f, t, c)
        BY <2>1, <2>2, <2>3 DEF HasIn, Filed
    <2> QED  BY <2>1, <2>2, <2>3, <2>5, <2>6
<1>14. Goes(e, d, H, P)
    BY <1>6, <1>10, <1>11, <1>12, <1>13 DEF Goes, SameNumbers, SameBlocks, v
<1> QED  BY <1>5, <1>6, <1>10, <1>14

(* The cache is in the file.                                               *)
FlushGoes(e, d, H, P) ==
    /\ Goes(e, d, H, P) /\ e.dev.swap = d.dev.swap /\ \A i \in Slots : ~e.dev.slot[i].dirty

LEMMA FlushIs ==
    ASSUME NEW d, NEW H, NEW P, DeviceOk(d, H, P), d.dev.swap # NoFile, NEW e, e = Flush(d)
    PROVE  FlushGoes(e, d, H, P)
<1> DEFINE q == Reverse(d.dev.order)
           y == Walk(Write, d, q)
<1>1. d.dev.order \in Seq(Slots)
    BY DeviceFields DEF DeviceOk, State
<1>2. q \in Seq(Slots) /\ ToSet(q) = ToSet(d.dev.order)
    BY <1>1, ReverseElem
<1> HIDE DEF q
<1>3. \A k \in 1 .. Len(q) : q[k] \in ToSet(d.dev.order)
    BY <1>2, ToSetIs
<1>4. FlushedTo(y, d, H, P, q, Len(q))
    BY <1>2, <1>3, FlushWalkIs
<1>5. e = Cleaned(y)
    BY DEF Flush, Cleaned, q
<1> HIDE DEF y
<1>6. \A i \in ToSet(y.dev.order) : y.dev.slot[i].dirty => Saved(y, i)
    <2> TAKE i \in ToSet(y.dev.order)
    <2>1. i \in ToSet(q)
        BY <1>2, <1>4 DEF FlushedTo
    <2>2. PICK k \in 1 .. Len(q) : q[k] = i
        BY <1>2, <2>1, ToSetIs
    <2> QED  BY <1>4, <2>2 DEF FlushedTo
<1>7. Goes(y, d, H, P) /\ y.dev.swap = d.dev.swap /\ DeviceOk(y, H, P)
    BY <1>4 DEF FlushedTo, Goes
<1>8. Goes(e, y, H, P) /\ \A i \in Slots : ~e.dev.slot[i].dirty
    BY <1>5, <1>6, <1>7, CleanedIs
<1>9. Goes(e, d, H, P)
    BY <1>7, <1>8, GoesOn
<1>10. e.dev.swap = y.dev.swap
    BY <1>7, <1>8 DEF Goes, Writes
<1> QED  BY <1>7, <1>8, <1>9, <1>10 DEF FlushGoes

---------------------------------------------------------------------------
(* sw_trim()                                                               *)

(* The free sectors below k, once each.                                    *)
Below(s, free, k) ==
    /\ s \in Seq(Sectors) /\ IsInjective(s) /\ \A t : t \in ToSet(s) <=> t \in free /\ t < k

LEMMA LowToHighIs ==
    ASSUME NEW free \in SUBSET Sectors, NEW n \in Nat
    PROVE  Below(LowToHigh(free, n), free, n)
<1> DEFINE I == {p \in Seq(Sectors) \X Nat : Below(p[1], free, p[2])}
           Step(s, k) == IF k - 1 \in free THEN Append(s, k - 1) ELSE s
           Op == [p \in I |-> Step(p[1], p[2] + 1)]
           F(f) == [k \in 0 .. n |-> IF k = 0 THEN << >>
                                     ELSE IF k - 1 \in free THEN Append(f[k - 1], k - 1)
                                     ELSE f[k - 1]]
           g == CHOOSE f : f = F(f)
<1>1. << << >>, 0 >> \in I
    <2>1. << >> \in Seq(Sectors) /\ IsInjective(<< >>) /\ ToSet(<< >>) = {}
        BY EmptyElem
    <2>2. \A t \in free : ~(t < 0)
        BY ConstantsAre
    <2>3. Below(<< >>, free, 0)
        BY <2>1, <2>2 DEF Below
    <2> QED  BY <2>1, <2>3
<1>2. ASSUME NEW k \in 1 .. n, NEW s, << s, k - 1 >> \in I
      PROVE  << Step(s, k), k >> \in I
    <2>1. s \in Seq(Sectors) /\ Below(s, free, k - 1) /\ k \in Nat /\ k > 0
        BY <1>2
    <2>2. IsInjective(s) /\ \A t : t \in ToSet(s) <=> t \in free /\ t < k - 1
        BY <2>1 DEF Below
    <2>3. \A t \in free : t \in Nat
        BY ConstantsAre
    <2>4. CASE k - 1 \in free
        <3> DEFINE x == k - 1
                   r == Append(s, x)
        <3>1. x \in Sectors /\ x \notin ToSet(s)
            BY <2>1, <2>2, <2>4
        <3>2. /\ r \in Seq(Sectors) /\ Len(r) = Len(s) + 1 /\ Len(s) \in Nat
              /\ \A j \in 1 .. Len(s) : r[j] = s[j]
              /\ r[Len(s) + 1] = x
            BY <2>1, <3>1, AppendElem
        <3>3. \A j \in 1 .. Len(r) : j \in 1 .. Len(s) \/ j = Len(s) + 1
            BY <3>2
        <3>4. /\ \A t : t \in ToSet(s) <=> \E j \in 1 .. Len(s) : s[j] = t
              /\ \A i, j \in 1 .. Len(s) : s[i] = s[j] => i = j
            BY <2>1, <2>2, ToSetIs
        <3> HIDE DEF r, x
        <3>5. \A t : t \in ToSet(r) <=> \E j \in 1 .. Len(r) : r[j] = t
            BY <3>2, ToSetIs
        <3>6. \A t : t \in ToSet(r) <=> t \in ToSet(s) \/ t = x
            <4>1. (\A j \in 1 .. Len(s) : j \in 1 .. Len(r)) /\ Len(s) + 1 \in 1 .. Len(r)
                BY <3>2
            <4> QED  BY <3>2, <3>3, <3>4, <3>5, <4>1
        <3>7. \A i, j \in 1 .. Len(r) : r[i] = r[j] => i = j
            BY <3>1, <3>2, <3>3, <3>4
        <3>8. IsInjective(r)
            BY <3>2, <3>7, ToSetIs
        <3>9. \A t : t \in ToSet(r) <=> t \in free /\ t < k
            <4>1. \A t \in free : t < k <=> t < k - 1 \/ t = x
                BY <2>1, <2>3 DEF x
            <4> QED  BY <2>2, <2>4, <3>6, <4>1 DEF x
        <3>10. Step(s, k) = r
            BY <2>4 DEF r, x
        <3> QED  BY <2>1, <3>2, <3>8, <3>9, <3>10 DEF Below
    <2>5. CASE k - 1 \notin free
        <3>1. \A t \in free : t < k <=> t < k - 1
            <4>1. \A t \in free : t \in Nat /\ t # k - 1
                BY <2>3, <2>5
            <4> QED  BY <2>1, <4>1
        <3>2. Below(s, free, k)
            BY <2>1, <2>2, <3>1 DEF Below
        <3> QED  BY <2>1, <2>5, <3>2
    <2> QED  BY <2>4, <2>5
<1> HIDE DEF I
<1>3. Closed(I, n, Op)
    <2> SUFFICES ASSUME NEW k \in 1 .. n, NEW s, << s, k - 1 >> \in I
                 PROVE  << Op[<< s, k - 1 >>], k >> \in I
        BY DEF Closed
    <2>1. Op[<< s, k - 1 >>] = Step(s, k)
        OBVIOUS
    <2> QED  BY <1>2, <2>1
<1>4. g = F(g)
    <2>1. PICK f : Walks(f, n, << >>, Op) /\ \A k \in 0 .. n : << f[k], k >> \in I
        BY <1>1, <1>3, WalkWithin
    <2>2. \A k \in 1 .. n : Op[<< f[k - 1], k - 1 >>] = Step(f[k - 1], k)
        BY <2>1
    <2> HIDE DEF Op
    <2>3. \A k \in 0 .. n : k = 0 \/ k \in 1 .. n
        OBVIOUS
    <2>4. f = F(f)
        BY <2>1, <2>2, <2>3 DEF Walks
    <2> QED  BY <2>4
<1>5. LowToHigh(free, n) = g[n]
    BY DEF LowToHigh
<1> HIDE DEF g
<1>6. << g[n], n >> \in I
    <2>1. g[0] = << >> /\ \A k \in 1 .. n : g[k] = Step(g[k - 1], k)
        <3>1. \A k \in 0 .. n : g[k] = IF k = 0 THEN << >>
                                       ELSE IF k - 1 \in free THEN Append(g[k - 1], k - 1)
                                       ELSE g[k - 1]
            BY ONLY <1>4
        <3>2. 0 \in 0 .. n /\ \A k \in 1 .. n : k \in 0 .. n /\ k # 0
            OBVIOUS
        <3>3. g[0] = << >>
            BY ONLY <3>1, <3>2
        <3>4. ASSUME NEW k \in 1 .. n  PROVE g[k] = Step(g[k - 1], k)
            BY <3>1, <3>2
        <3> QED  BY ONLY <3>3, <3>4
    <2>2. \A k \in 1 .. n : << g[k - 1], k - 1 >> \in I => g[k] = Op[<< g[k - 1], k - 1 >>]
        BY <2>1
    <2> HIDE DEF Op
    <2> QED  BY <1>1, <1>3, <2>1, <2>2, WalkEnds
<1> QED  BY <1>5, <1>6 DEF I

(* The numbers after that.                                                 *)
Trimmed(w, v, H) ==
    /\ w.nsectors \in Nat /\ w.mfree \in Seq(Sectors) /\ Numbers(w.nsectors, w.mfree, H)
    /\ w = [v EXCEPT !.nsectors = w.nsectors, !.mfree = w.mfree]

LEMMA TrimIs ==
    ASSUME NEW v \in Device, NEW H, Numbers(v.nsectors, v.mfree, H)
    PROVE  Trimmed(Trim(v), v, H)
<1> DEFINE free == ToSet(v.mfree)
           N == v.nsectors
           OK(x) == x .. N - 1 \subseteq free /\ (x > 0 => x - 1 \notin free)
           n == CHOOSE x \in 0 .. N : OK(x)
           r == LowToHigh(free, n)
<1>1. /\ N \in Nat /\ N <= SWAPSIZE /\ v.mfree \in Seq(Sectors) /\ free \subseteq Sectors
      /\ H \cap free = {} /\ H \cup free = 0 .. N - 1
    BY DeviceFields, ToSetIs DEF Numbers
<1>2. \E x \in 0 .. N : OK(x)
    <2> DEFINE S == {x \in 0 .. N : x .. N - 1 \subseteq free}
    <2>1. N \in S
        BY <1>1
    <2>2. S \in SUBSET Int /\ S # {} /\ 0 \in Int /\ \A x \in S : x >= 0
        BY <1>1, <2>1
    <2>3. PICK x \in S : \A y \in S : x <= y
        <3> HIDE DEF S
        <3> QED  BY ONLY <2>2, LeastExists
    <2>4. x \in 0 .. N /\ x .. N - 1 \subseteq free
        BY <2>3
    <2>5. x > 0 => x - 1 \notin free
        <3> SUFFICES ASSUME x > 0, x - 1 \in free  PROVE FALSE
            OBVIOUS
        <3>1. \A y \in x - 1 .. N - 1 : y = x - 1 \/ y \in x .. N - 1
            BY <1>1, <2>4
        <3>2. x - 1 .. N - 1 \subseteq free
            BY <2>4, <3>1
        <3>3. x - 1 \in 0 .. N
            BY <1>1, <2>4
        <3>4. x - 1 \in S
            BY <3>2, <3>3
        <3>5. x <= x - 1
            BY <2>3, <3>4
        <3> QED  BY <2>4, <3>5
    <2> QED  BY <2>4, <2>5
<1>3. n \in 0 .. N /\ n .. N - 1 \subseteq free
    BY <1>2
<1>4. Trim(v) = [v EXCEPT !.nsectors = n, !.mfree = r]
    BY DEF Trim
<1> HIDE DEF n
<1>5. n \in Nat /\ n <= N /\ n <= SWAPSIZE
    BY <1>1, <1>3, ConstantsAre
<1>6. Below(r, free, n)
    BY <1>1, <1>5, LowToHighIs
<1> HIDE DEF r
<1>7. /\ r \in Seq(Sectors) /\ IsInjective(r) /\ \A t : t \in ToSet(r) <=> t \in free /\ t < n
    BY <1>6 DEF Below
<1>8. Numbers(n, r, H)
    <2>1. \A t \in H : t \notin free /\ t \in 0 .. N - 1
        BY <1>1
    <2>2. \A t \in H : t \in 0 .. n - 1
        <3> TAKE t \in H
        <3>1. t \notin n .. N - 1 /\ t \in 0 .. N - 1
            BY <1>3, <2>1
        <3> QED  BY <1>1, <1>5, <3>1
    <2>3. \A t \in ToSet(r) : t \in 0 .. n - 1 /\ t \notin H
        <3> TAKE t \in ToSet(r)
        <3>1. t \in free /\ t < n
            BY <1>7
        <3>2. t \in 0 .. N - 1
            BY <1>1, <3>1
        <3> QED  BY <1>5, <2>1, <3>1, <3>2
    <2>4. \A t \in 0 .. n - 1 : t \in H \/ t \in ToSet(r)
        <3> TAKE t \in 0 .. n - 1
        <3>1. t \in 0 .. N - 1 /\ t < n
            BY <1>1, <1>5
        <3>2. t \in H \/ t \in free
            BY <1>1, <3>1
        <3> QED  BY <1>7, <3>1, <3>2
    <2> QED  BY <1>5, <1>7, <2>2, <2>3, <2>4 DEF Numbers
<1>9. Trim(v).nsectors = n /\ Trim(v).mfree = r
    BY <1>4 DEF Device
<1> QED  BY <1>4, <1>5, <1>7, <1>8, <1>9 DEF Trimmed

---------------------------------------------------------------------------
(* sw_dump(): but for the descriptor of the old snapshot.                  *)

Mapped(w) ==
    [w EXCEPT !.dev = Trim(w.dev),
              !.disk[w.dev.swap] = Written(@, w.dev.ssectors, MapSector)]

HasMap(e, w, H, P) ==
    /\ DeviceOk(e, H, P) /\ SameBlocks(e, w) /\ Writes(e, w) /\ Keeps(e, w, H, P)
    /\ Numbers(e.dev.nsectors, e.dev.mfree, H) /\ e.dev.swap = w.dev.swap
    /\ e.dev.slot = w.dev.slot /\ ReadAt(e.disk, e.dev.swap, e.dev.ssectors) = MapSector

LEMMA MappedIs ==
    ASSUME NEW d, NEW H, NEW P, DeviceOk(d, H, P), Numbers(d.dev.nsectors, d.dev.mfree, H),
           d.dev.swap \in Files, NEW e, e = Mapped(d)
    PROVE  HasMap(e, d, H, P)
<1> DEFINE v == d.dev
           w == Trim(v)
           k == [d.disk EXCEPT ![v.swap] = Written(@, v.ssectors, MapSector)]
<1>1. /\ d \in State /\ v \in Device /\ d.disk \in Disk /\ H \subseteq Sectors /\ P \subseteq H
      /\ Cache(v, H) /\ Places(v, H, P) /\ v.ssectors \in Nat
      /\ v.dump \in {NoFile, names.snapshot, names.old} /\ (v.dump # NoFile => v.swap # v.dump)
    BY DeviceFields DEF DeviceOk, State
<1>2. e = [d EXCEPT !.dev = w, !.disk = k]
    BY <1>1 DEF Mapped, State
<1>3. Trimmed(w, v, H)
    BY <1>1, TrimIs
<1>4. /\ k \in Disk /\ ReadAt(k, v.swap, v.ssectors) = MapSector
      /\ \A j : j # v.ssectors => ReadAt(k, v.swap, j) = ReadAt(d.disk, v.swap, j)
      /\ \A g \in Files : g # v.swap => k[g] = d.disk[g]
    BY <1>1, ConstantsAre, WrittenReads
<1> HIDE DEF w, k, v
<1>5. /\ w.nsectors \in Nat /\ w.mfree \in Seq(Sectors) /\ Numbers(w.nsectors, w.mfree, H)
      /\ w = [v EXCEPT !.nsectors = w.nsectors, !.mfree = w.mfree]
    BY <1>3 DEF Trimmed
<1>6. /\ w \in Device /\ w.map = v.map /\ w.slot = v.slot /\ w.order = v.order
      /\ w.lfree = v.lfree /\ w.sfree = v.sfree /\ w.ssectors = v.ssectors
      /\ w.sbarrier = v.sbarrier /\ w.swapping = v.swapping /\ w.swap = v.swap
      /\ w.dump = v.dump
    <2> DEFINE n == w.nsectors
               r == w.mfree
    <2>1. n \in Nat /\ r \in Seq(Sectors) /\ w = [v EXCEPT !.nsectors = n, !.mfree = r]
        BY <1>5
    <2> HIDE DEF n, r
    <2> QED  BY <1>1, <2>1 DEF Device
<1>7. /\ e \in State /\ e.dev = w /\ e.disk = k /\ e.vec = d.vec /\ e.mem = d.mem
      /\ e.mod = d.mod
    BY <1>1, <1>2, <1>4, <1>6 DEF State
<1>8. \A t \in H : SameView(w, v, t)
    BY <1>6 DEF SameView, InSlot
<1>9. Cache(w, H)
    BY <1>1, <1>6 DEF Cache
<1>10. Places(w, H, P)
    <2>1. \A t \in H : PlaceOf(w, t) = PlaceOf(v, t)
        BY <1>8, ViewPlace
    <2>2. \A t \in P : InSlot(w, t) => ~w.slot[w.map[t]].dirty
        <3> TAKE t \in P
        <3>1. InSlot(v, t) => ~v.slot[v.map[t]].dirty
            BY <1>1 DEF Places
        <3> QED  BY <1>1, <1>6, <1>8, <3>1 DEF SameView
    <2> QED  BY <1>1, <1>6, <2>1, <2>2, PlacesKept
<1>11. DeviceOk(e, H, P)
    BY <1>1, <1>6, <1>7, <1>9, <1>10 DEF DeviceOk
<1>12. v.swap \in Files /\ v.swap # NoFile /\ v.sbarrier <= v.ssectors /\ v.sbarrier \in Nat
    BY <1>1, ConstantsAre, DeviceFields DEF Places, v
<1>13. Writes(e, d)
    <2>1. \A i \in Nat : i < v.sbarrier => ReadAt(k, v.swap, i) = ReadAt(d.disk, v.swap, i)
        BY <1>1, <1>4, <1>12
    <2> QED  BY <1>4, <1>6, <1>7, <2>1 DEF Writes, v
<1>14. Keeps(e, d, H, P)
    <2> SUFFICES ASSUME NEW t \in H
                 PROVE  /\ t \notin P => \A c : Has(d, t, c) => Has(e, t, c)
                        /\ t \in P => \A c : \A f \in Files : f # e.dev.swap =>
                                          (HasIn(d, f, t, c) => HasIn(e, f, t, c))
                        /\ ~InSlot(d.dev, t) => ~InSlot(e.dev, t) /\ e.dev.map[t] = d.dev.map[t]
        BY DEF Keeps
    <2>1. SameView(e.dev, d.dev, t) /\ e.dev.swap = d.dev.swap
        BY <1>6, <1>7, <1>8 DEF v
    <2>2. ASSUME t \notin P  PROVE \A c : Has(d, t, c) => Has(e, t, c)
        <3>1. PlaceOf(v, t) < v.ssectors
            BY <1>1, <2>2 DEF Places
        <3>2. PlaceOf(v, t) # v.ssectors
            BY <1>1, <3>1
        <3>3. ReadAt(e.disk, d.dev.swap, PlaceOf(d.dev, t))
                  = ReadAt(d.disk, d.dev.swap, PlaceOf(d.dev, t))
            BY <1>4, <1>7, <3>2 DEF v
        <3> QED  BY <2>1, <3>3, ViewHas
    <2>3. \A c : \A f \in Files : f # e.dev.swap => (HasIn(d, f, t, c) => HasIn(e, f, t, c))
        <3> SUFFICES ASSUME NEW f \in Files, f # e.dev.swap
                     PROVE  \A c : HasIn(d, f, t, c) => HasIn(e, f, t, c)
            OBVIOUS
        <3>1. e.disk[f] = d.disk[f]
            BY <1>4, <1>6, <1>7
        <3> QED  BY <2>1, <3>1, ViewHasIn
    <2>4. ~InSlot(d.dev, t) => ~InSlot(e.dev, t) /\ e.dev.map[t] = d.dev.map[t]
        BY <2>1 DEF SameView
    <2> QED  BY <2>2, <2>3, <2>4
<1>15. SameBlocks(e, d)
    BY <1>7 DEF SameBlocks
<1> QED  BY <1>4, <1>5, <1>6, <1>7, <1>11, <1>13, <1>14, <1>15 DEF HasMap, v

(* The device without the descriptor of the old snapshot.                  *)
Dumps(g, d, pend) ==
    /\ AllOk(g, pend) /\ SameBlocks(g, d) /\ Writes(g, d)
    /\ Keeps(g, d, Held(d.vec, Blocks), Held(d.vec, pend))
    /\ g.dev.swap \in Files /\ ReadAt(g.disk, g.dev.swap, g.dev.ssectors) = MapSector
    /\ \A i \in Slots : ~g.dev.slot[i].dirty

LEMMA SwDumpIs ==
    ASSUME NEW d, NEW pend, AllOk(d, pend), NEW keep \in BOOLEAN,
           NEW g, g = Mapped(Flush(Create(d)))
    PROVE  /\ Dumps(g, d, pend)
           /\ SwDump(d, keep) = [g EXCEPT !.dev.dump = IF keep THEN @ ELSE NoFile]
<1> DEFINE H == Held(d.vec, Blocks)
           P == Held(d.vec, pend)
           c == Create(d)
           w == Flush(c)
<1>1. /\ DeviceOk(d, H, P) /\ Numbers(d.dev.nsectors, d.dev.mfree, H) /\ d.dev.swap \in Descriptor
    BY DeviceFields DEF AllOk, State
<1> HIDE DEF H, P
<1>2. Goes(c, d, H, P) /\ c.dev.swap \in Files /\ DeviceOk(c, H, P)
    <2>1. Created(c, d, H, P)
        BY <1>1, CreateIs
    <2> QED  BY <2>1 DEF Created, Goes
<1> HIDE DEF c
<1>3. FlushGoes(w, c, H, P)
    BY <1>2, ConstantsAre, FlushIs
<1>4. Goes(w, c, H, P) /\ w.dev.swap = c.dev.swap /\ \A i \in Slots : ~w.dev.slot[i].dirty
    BY <1>3 DEF FlushGoes
<1>5. Goes(w, d, H, P)
    BY <1>1, <1>2, <1>4, GoesOn
<1> HIDE DEF w
<1>6. /\ DeviceOk(w, H, P) /\ SameBlocks(w, d) /\ Writes(w, d) /\ Keeps(w, d, H, P)
      /\ Numbers(w.dev.nsectors, w.dev.mfree, H)
    BY <1>1, <1>5 DEF Goes, SameNumbers
<1>7. g = Mapped(w)
    BY DEF c, w
<1>8. HasMap(g, w, H, P)
    BY <1>2, <1>4, <1>6, <1>7, MappedIs
<1>9. /\ DeviceOk(g, H, P) /\ SameBlocks(g, w) /\ Writes(g, w) /\ Keeps(g, w, H, P)
      /\ Numbers(g.dev.nsectors, g.dev.mfree, H) /\ g.dev.swap = w.dev.swap
      /\ g.dev.slot = w.dev.slot /\ ReadAt(g.disk, g.dev.swap, g.dev.ssectors) = MapSector
      /\ g \in State
    BY <1>8 DEF HasMap, DeviceOk
<1>10. Writes(g, d) /\ Keeps(g, d, H, P)
    BY <1>1, <1>6, <1>9, WritesOn, KeepsOn
<1>11. SameBlocks(g, d)
    BY <1>6, <1>9 DEF SameBlocks
<1>12. AllOk(g, pend)
    BY <1>9, <1>11 DEF AllOk, SameBlocks, H, P
<1>13. Dumps(g, d, pend)
    BY <1>2, <1>4, <1>9, <1>10, <1>11, <1>12 DEF Dumps, H, P
<1>14. SwDump(d, keep) = [g EXCEPT !.dev.dump = IF keep THEN @ ELSE NoFile]
    <2> DEFINE t == Trim(w.dev)
    <2>1. w \in State /\ w.dev \in Device
        BY <1>6 DEF DeviceOk, State
    <2>2. Trimmed(t, w.dev, H)
        BY <1>6, <2>1, TrimIs
    <2>3. g = [w EXCEPT !.dev = t, !.disk[w.dev.swap] = Written(@, w.dev.ssectors, MapSector)]
        BY <1>7 DEF Mapped
    <2>4. SwDump(d, keep) =
              LET v == [t EXCEPT !.dump = IF keep THEN @ ELSE NoFile]
              IN [w EXCEPT !.dev = v, !.disk[v.swap] = Written(@, v.ssectors, MapSector)]
        BY DEF SwDump, c, w
    <2> HIDE DEF t
    <2>5. /\ t.swap = w.dev.swap /\ t.ssectors = w.dev.ssectors /\ t \in Device
        <3> DEFINE n == t.nsectors
                   r == t.mfree
        <3>1. n \in Nat /\ r \in Seq(Sectors) /\ t = [w.dev EXCEPT !.nsectors = n, !.mfree = r]
            BY <2>2 DEF Trimmed
        <3> HIDE DEF n, r
        <3> QED  BY <2>1, <3>1 DEF Device
    <2> DEFINE v == [t EXCEPT !.dump = IF keep THEN @ ELSE NoFile]
    <2>6. v.swap = w.dev.swap /\ v.ssectors = w.dev.ssectors
        BY <2>5 DEF Device
    <2>7. SwDump(d, keep) = [w EXCEPT !.dev = v, !.disk[v.swap] = Written(@, v.ssectors, MapSector)]
        BY <2>4
    <2>8. g.dev = t
        BY <2>1, <2>3 DEF State
    <2> DEFINE k == [w.disk EXCEPT ![w.dev.swap] = Written(@, w.dev.ssectors, MapSector)]
               q == IF keep THEN t.dump ELSE NoFile
    <2>9. g = [w EXCEPT !.dev = t, !.disk = k]
        BY <2>1, <2>3 DEF State
    <2>10. SwDump(d, keep) = [w EXCEPT !.dev = v, !.disk = k]
        <3> HIDE DEF v
        <3> QED  BY <2>1, <2>6, <2>7 DEF State
    <2>11. v = [t EXCEPT !.dump = q]
        OBVIOUS
    <2> HIDE DEF k, v, q
    <2>12. SwDump(d, keep) = [g EXCEPT !.dev.dump = q]
        BY <2>1, <2>9, <2>10, <2>11 DEF State
    <2> QED  BY <2>8, <2>12 DEF q
<1> QED  BY <1>13, <1>14

---------------------------------------------------------------------------
(* The invariant.                                                          *)

DumpOf == [b \in Blocks |-> dev.dump]

LEMMA NowIs ==
    /\ Now.dev = dev /\ Now.disk = disk /\ Now.vec = vec /\ Now.mem = mem /\ Now.mod = mod
BY DEF Now

LEMMA DumpIs ==
    ASSUME NamesOk
    PROVE  /\ dev.dump \in {NoFile, names.snapshot, names.old}
           /\ dev.dump # NoFile => dev.swap # dev.dump
           /\ Pending # {} => /\ dev.dump \in Files
                              /\ dev.dump \in {names.snapshot, names.old} /\ dev.swap # dev.dump
<1>1. /\ dev.dump \in {NoFile, names.snapshot, names.old}
      /\ names.snapshot \in Files \cup {NoFile} /\ names.old \in Files \cup {NoFile}
      /\ Pending # {} => dev.dump # NoFile
    BY DEF NamesOk, Descriptor
<1>2. dev.dump # NoFile => dev.swap # dev.dump
    BY DEF NamesOk
<1> QED  BY <1>1, <1>2

LEMMA SoundStands ==
    ASSUME IInv
    PROVE  Stands(Now, Pending, value, converted, DumpOf)
<1>1. /\ value \in [Blocks -> AnyValue] /\ Pending \in SUBSET Blocks /\ NamesOk
      /\ Sound(Now, Pending, value, converted)
    BY DEF IInv, AnyValue
<1>2. /\ Now \in State /\ Apart(Now.vec)
      /\ Numbers(Now.dev.nsectors, Now.dev.mfree, Held(Now.vec, Blocks))
      /\ Cache(Now.dev, Held(Now.vec, Blocks))
      /\ Places(Now.dev, Held(Now.vec, Blocks), Held(Now.vec, Pending))
      /\ \A b \in Pending : PendingOk(Now, b, value[b], converted)
      /\ \A b \in Blocks \ Pending : BlockOk(Now, b, value[b])
    BY <1>1 DEF Sound
<1>3. \A b \in Pending : PendingIn(Now, b, DumpOf[b], value[b], converted)
    <2> TAKE b \in Pending
    <2>1. PendingOk(Now, b, value[b], converted) /\ b \in Blocks
        BY <1>1, <1>2
    <2>2. DumpOf[b] = dev.dump /\ Now.dev.dump = dev.dump /\ Now.dev.swap = dev.swap
        BY <2>1, NowIs DEF DumpOf
    <2>3. dev.dump \in Files /\ dev.dump \in {names.snapshot, names.old} /\ dev.swap # dev.dump
        BY <1>1, DumpIs
    <2> QED  BY <2>1, <2>2, <2>3 DEF PendingOk, PendingIn
<1>4. \A b \in Blocks : Len(Now.vec[b]) <= MaxVec
    <2> TAKE b \in Blocks
    <2>1. CASE b \in Pending
        <3>1. Len(Now.vec[b]) = value[b].n
            BY <1>2, <2>1 DEF PendingOk
        <3> QED  BY <1>1, <3>1, ValueIs
    <2>2. CASE b \notin Pending
        BY <1>2, <2>2 DEF BlockOk
    <2> QED  BY <2>1, <2>2
<1>5. DeviceOk(Now, Held(Now.vec, Blocks), Held(Now.vec, Pending))
    <2>1. /\ Held(Now.vec, Blocks) \subseteq Sectors
          /\ Held(Now.vec, Pending) \subseteq Held(Now.vec, Blocks)
        <3>1. \A b \in Blocks : ToSet(Now.vec[b]) \subseteq Sectors
            BY <1>2, ToSetIs DEF State
        <3> QED  BY <1>1, <3>1 DEF Held
    <2>2. /\ Now.dev.dump \in {NoFile, names.snapshot, names.old}
          /\ Now.dev.dump # NoFile => Now.dev.swap # Now.dev.dump
        BY <1>1, NowIs, DumpIs
    <2> QED  BY <1>2, <2>1, <2>2 DEF DeviceOk
<1>6. AllOk(Now, Pending)
    BY <1>1, <1>2, <1>4, <1>5 DEF AllOk
<1> QED  BY <1>1, <1>2, <1>3, <1>6 DEF Stands

LEMMA StandsSound ==
    ASSUME NEW d, NEW pend, NEW x, NEW conv, NEW from, Stands(d, pend, x, conv, from),
           \A b \in pend : from[b] = d.dev.dump
    PROVE  Sound(d, pend, x, conv)
<1>1. /\ AllOk(d, pend) /\ \A b \in pend : PendingIn(d, b, from[b], x[b], conv)
      /\ \A b \in Blocks \ pend : BlockOk(d, b, x[b])
    BY DEF Stands
<1>2. \A b \in pend : PendingOk(d, b, x[b], conv)
    BY <1>1 DEF PendingIn, PendingOk
<1> QED  BY <1>1, <1>2 DEF AllOk, DeviceOk, Sound

(* What the snapshot s needs of the files is the same.                     *)
SameReads(s, k, l) ==
    /\ ReadAt(k, s.file, s.at) = ReadAt(l, s.file, s.at)
    /\ \A b \in Blocks : \A j \in DOMAIN s.vec[b] :
          LET f == IF b \in s.omap THEN s.secondary ELSE s.file
              i == s.map[s.vec[b][j]]
          IN ReadAt(k, f, i) = ReadAt(l, f, i)

LEMMA ImageSame ==
    ASSUME NamesOk, Running, NEW s, ImageOk(s), Kept(s), NEW e, Writes(e, Now)
    PROVE  SameReads(s, e.disk, disk) /\ (e.dev.swap = dev.swap \/ e.dev.swap # s.file)
<1>1. /\ s.file = names.snapshot /\ s.file \in Files /\ s.secondary \in {NoFile, names.old}
      /\ s.at \in Nat /\ s.map \in [Sectors -> Place] /\ s.vec \in [Blocks -> Seq(Sectors)]
      /\ s.omap \subseteq Blocks /\ (s.omap # {} => s.secondary # NoFile)
      /\ dev.swap = s.file =>
             s.at < dev.sbarrier /\ \A t \in Held(s.vec, Blocks \ s.omap) : s.map[t] < dev.sbarrier
      /\ \A t \in Held(s.vec, Blocks) : t \in Sectors => s.map[t] # UNUSED
    BY DEF ImageOk
<1>2. /\ \/ e.dev.swap = dev.swap
         \/ dev.swap = NoFile /\ e.dev.swap \in Files \ {names.snapshot, names.old, dev.dump}
      /\ \A f \in Files : f # e.dev.swap => e.disk[f] = disk[f]
      /\ dev.swap # NoFile =>
             \A i \in Nat : i < dev.sbarrier =>
                 ReadAt(e.disk, dev.swap, i) = ReadAt(disk, dev.swap, i)
    BY NowIs DEF Writes
<1>3. e.dev.swap = dev.swap \/ e.dev.swap # s.file
    BY <1>1, <1>2
<1>4. \A f \in Files : \A i : f # e.dev.swap => ReadAt(e.disk, f, i) = ReadAt(disk, f, i)
    BY <1>2 DEF ReadAt
<1>5. s.file # NoFile
    BY <1>1, ConstantsAre
<1>6. ReadAt(e.disk, s.file, s.at) = ReadAt(disk, s.file, s.at)
    <2>1. CASE e.dev.swap # s.file
        BY <1>1, <1>4, <2>1
    <2>2. CASE e.dev.swap = dev.swap /\ dev.swap = s.file
        BY <1>1, <1>2, <1>5, <2>2
    <2> QED  BY <1>3, <2>1, <2>2
<1>7. names.old # NoFile => names.old \in Files /\ e.dev.swap # names.old
    BY <1>2 DEF NamesOk, Descriptor
<1>8. ASSUME NEW b \in Blocks, NEW j \in DOMAIN s.vec[b],
             NEW f, f = (IF b \in s.omap THEN s.secondary ELSE s.file),
             NEW i, i = s.map[s.vec[b][j]]
      PROVE  ReadAt(e.disk, f, i) = ReadAt(disk, f, i)
    <2>1. CASE b \in s.omap
        <3>1. f = names.old /\ names.old # NoFile
            BY <1>1, <1>8, <2>1
        <3> QED  BY <1>4, <1>7, <3>1
    <2>2. CASE b \notin s.omap
        <3> DEFINE t == s.vec[b][j]
        <3>1. t \in ToSet(s.vec[b]) /\ t \in Sectors
            BY <1>1, ToSetIs
        <3>2. t \in Held(s.vec, Blocks \ s.omap) /\ t \in Held(s.vec, Blocks)
            BY <2>2, <3>1 DEF Held
        <3> HIDE DEF t
        <3>3. i \in Nat /\ (dev.swap = s.file => i < dev.sbarrier)
            BY <1>1, <1>8, <3>1, <3>2 DEF Place, t
        <3>4. CASE e.dev.swap # s.file
            BY <1>1, <1>4, <1>8, <2>2, <3>4
        <3>5. CASE e.dev.swap = dev.swap /\ dev.swap = s.file
            BY <1>1, <1>2, <1>5, <1>8, <2>2, <3>3, <3>5
        <3> QED  BY <1>3, <3>4, <3>5
    <2> QED  BY <2>1, <2>2
<1> QED  BY <1>3, <1>6, <1>8 DEF SameReads

---------------------------------------------------------------------------
(* Steps.                                                                  *)

LEMMA BecomeIs ==
    ASSUME NEW e \in State, Become(e)
    PROVE  Now' = e /\ dev'.ssectors <= MaxIndex
BY DEF Become, Now, State, Fits

LEMMA NamesStep ==
    ASSUME NamesOk, Running, UNCHANGED << names, dumping >>,
           NEW e, Become(e), Writes(e, Now), omap' \subseteq omap
    PROVE  NamesOk'
<1>1. /\ dev' = e.dev /\ dumping = << >> /\ dumping' = << >> /\ names' = names
    BY DEF Become, Running
<1>2. /\ dev'.swapping = dev.swapping /\ dev'.dump = dev.dump
      /\ \/ dev'.swap = dev.swap
         \/ dev.swap = NoFile /\ dev'.swap \in Files \ {names.snapshot, names.old, dev.dump}
    BY <1>1, NowIs DEF Writes
<1>3. Pending = omap /\ Pending' = omap'
    BY <1>1 DEF Pending
<1>4. dev.swap = NoFile => dev.swapping
    BY <1>1 DEF NamesOk, Running
<1> QED  BY <1>1, <1>2, <1>3, <1>4 DEF NamesOk, Running

(* The snapshot s is in the files k.                                       *)
HasAll(s, k) ==
    /\ ReadAt(k, s.file, s.at) = MapSector
    /\ \A b \in Blocks : \A j \in DOMAIN s.vec[b] :
          ReadAt(k, IF b \in s.omap THEN s.secondary ELSE s.file, s.map[s.vec[b][j]])
              = Content(b, j, s.value[b])

LEMMA ImageStep ==
    ASSUME NamesOk, Running, UNCHANGED << names, image, dumping >>, NEW s, ImageOk(s),
           NEW e, Become(e), Writes(e, Now)
    PROVE  ImageOk(s)'
<1>1. /\ dev' = e.dev /\ disk' = e.disk /\ names' = names /\ dumping' = << >> /\ dumping = << >>
    BY DEF Become, Running
<1>2. dev'.swapping = dev.swapping /\ dev'.sbarrier = dev.sbarrier
    BY <1>1, NowIs DEF Writes
<1>3. dev'.swap = dev.swap \/ dev'.swap # s.file
    <2>1. CASE Kept(s)
        BY <1>1, <2>1, ImageSame
    <2>2. CASE ~Kept(s)
        BY <1>1, <2>2 DEF Kept, ImageOk
    <2> QED  BY <2>1, <2>2
<1>4. Kept(s)' <=> Kept(s)
    BY <1>1 DEF Kept
<1>5. dev'.swap = s.file =>
          s.at < dev'.sbarrier /\ \A t \in Held(s.vec, Blocks \ s.omap) : s.map[t] < dev'.sbarrier
    BY <1>2, <1>3 DEF ImageOk
<1>6. s.file = names'.snapshot /\ s.secondary \in {NoFile, names'.old}
    BY <1>1 DEF ImageOk, Running
<1>7. Kept(s)' => HasAll(s, disk')
    <2> SUFFICES ASSUME Kept(s) PROVE HasAll(s, disk')
        BY <1>4
    <2>1. SameReads(s, disk', disk)
        BY <1>1, ImageSame
    <2>2. HasAll(s, disk)
        BY DEF ImageOk, HasAll
    <2> QED  BY <2>1, <2>2 DEF SameReads, HasAll
<1> QED  BY <1>1, <1>2, <1>5, <1>6, <1>7 DEF ImageOk, Running, HasAll

(* A step that keeps the names and the snapshot.                           *)
LEMMA RunningStep ==
    ASSUME IInv, Running, UNCHANGED << names, image, dumping >>,
           NEW e, Become(e), Writes(e, Now), omap' \subseteq omap,
           Stands(e, omap', value', converted', DumpOf)
    PROVE  IInv'
<1>1. /\ NamesOk /\ omap \subseteq Blocks /\ dumping = << >> /\ dumping' = << >>
    BY DEF IInv, Running
<1>2. e \in State /\ value' \in [Blocks -> AnyValue]
    BY DEF Stands, AllOk
<1>3. Now' = e /\ dev'.ssectors <= MaxIndex /\ Pending' = omap'
    BY <1>1, <1>2, BecomeIs DEF Pending
<1>4. \A b \in omap' : DumpOf[b] = e.dev.dump
    BY <1>1, NowIs DEF Writes, DumpOf
<1>5. Sound(e, omap', value', converted')
    BY <1>4, StandsSound
<1>6. Sound(Now, Pending, value, converted)'
    BY <1>3, <1>5
<1>7. NamesOk'
    BY <1>1, NamesStep
<1>8. image' # << >> => image' = << image'[1] >> /\ ImageOk(image[1])'
    <2> SUFFICES ASSUME image # << >> PROVE image' = << image'[1] >> /\ ImageOk(image[1])'
        OBVIOUS
    <2>1. image = << image[1] >> /\ ImageOk(image[1])
        BY DEF IInv
    <2>2. PICK s : s = image[1]
        OBVIOUS
    <2>3. ImageOk(s)'
        BY <1>1, <2>1, <2>2, ImageStep
    <2>4. image' = << s >> /\ image' = << image'[1] >>
        BY <2>1, <2>2
    <2>5. ImageOk(image[1])'
        BY <2>3, <2>4
    <2> QED  BY <2>4, <2>5
<1> QED  BY <1>1, <1>2, <1>3, <1>6, <1>7, <1>8 DEF IInv, AnyValue

(* A step of one block.                                                    *)
LEMMA OneStep ==
    ASSUME IInv, Running, UNCHANGED << names, image, dumping, converted >>,
           NEW e, Become(e), NEW b \in Blocks, omap' = omap \ {b},
           BlockStep(e, Now, b, omap, omap \ {b}), BlockOk(e, b, value'[b]),
           value' \in [Blocks -> AnyValue], \A a \in Blocks : a # b => value'[a] = value[a]
    PROVE  IInv'
<1>1. Stands(Now, omap, value, converted, DumpOf)
    BY SoundStands DEF Running, Pending
<1>2. Stands(e, omap \ {b}, value', converted, DumpOf)
    BY <1>1, OthersKept
<1>3. Stands(e, omap', value', converted', DumpOf)
    BY <1>2
<1>4. Writes(e, Now) /\ omap' \subseteq omap
    BY DEF BlockStep
<1> QED  BY <1>3, <1>4, RunningStep

LEMMA NotPending ==
    ASSUME IInv, Running, NEW b \in Blocks, mem[b] # << >> \/ value[b] = NoValue
    PROVE  b \notin omap
<1>1. Stands(Now, omap, value, converted, DumpOf)
    BY SoundStands DEF Running, Pending
<1> SUFFICES ASSUME b \in omap PROVE FALSE
    OBVIOUS
<1>2. mem[b] = << >> /\ value[b].n > 0
    BY <1>1, NowIs DEF Stands, PendingIn
<1> QED  BY <1>2 DEF NoValue

LEMMA BlockIs ==
    ASSUME IInv, Running, NEW b \in Blocks
    PROVE  /\ AllOk(Now, omap) /\ value[b] \in AnyValue /\ omap \subseteq Blocks
           /\ b \notin omap => BlockOk(Now, b, value[b]) /\ omap \ {b} = omap
           /\ b \in omap => PendingIn(Now, b, dev.dump, value[b], converted)
<1>1. Stands(Now, omap, value, converted, DumpOf)
    BY SoundStands DEF Running, Pending
<1>2. b \in omap => PendingIn(Now, b, DumpOf[b], value[b], converted)
    BY <1>1 DEF Stands
<1>3. b \in omap => PendingIn(Now, b, dev.dump, value[b], converted)
    BY <1>2 DEF DumpOf
<1> QED  BY <1>1, <1>3 DEF Stands, IInv

LEMMA ChangeStep ==
    ASSUME IInv, NEW b \in Blocks, NEW n \in 1 .. MaxVec, Change(b, n)
    PROVE  IInv'
<1> DEFINE x == [n |-> n, v |-> 1 - value[b].v]
           e == [Now EXCEPT !.mem[b] = Contents(b, x), !.mod[b] = "all"]
<1>1. /\ Running /\ (mem[b] # << >> \/ value[b] = NoValue)
      /\ mem' = [mem EXCEPT ![b] = Contents(b, x)] /\ value' = [value EXCEPT ![b] = x]
      /\ mod' = [mod EXCEPT ![b] = "all"]
      /\ UNCHANGED << dev, disk, vec, omap, converted, names, image, dumping >>
    BY DEF Change
<1>2. b \notin omap /\ AllOk(Now, omap) /\ value[b] \in AnyValue /\ omap \ {b} = omap
    BY <1>1, NotPending, BlockIs
<1>3. x \in AnyValue /\ x.n > 0
    <2>1. value[b].v \in {0, 1}
        BY <1>2, ValueIs
    <2>2. 1 - value[b].v \in {0, 1}
        BY <2>1
    <2> QED  BY <2>2 DEF AnyValue, Value
<1>4. Become(e)
    <2>1. /\ e.dev = dev /\ e.disk = disk /\ e.vec = vec
          /\ e.mem = [mem EXCEPT ![b] = Contents(b, x)] /\ e.mod = [mod EXCEPT ![b] = "all"]
        BY DEF Now
    <2>2. dev.ssectors <= MaxIndex
        BY DEF IInv
    <2> HIDE DEF e, x
    <2> QED  BY <1>1, <2>1, <2>2 DEF Become, Fits
<1>5. /\ value' \in [Blocks -> AnyValue] /\ value'[b] = x
      /\ \A a \in Blocks : a # b => value'[a] = value[a]
    <2>1. value \in [Blocks -> AnyValue]
        BY DEF IInv, AnyValue
    <2> HIDE DEF x
    <2> QED  BY <1>1, <1>3, <2>1
<1>6. /\ AllOk(Now, omap) /\ b \notin omap /\ x \in AnyValue /\ x.n > 0
      /\ e = [Now EXCEPT !.mem[b] = Contents(b, x), !.mod[b] = "all"]
    BY <1>2, <1>3
<1> HIDE DEF x, e
<1>7. BlockStep(e, Now, b, omap, omap) /\ BlockOk(e, b, x)
    BY ONLY <1>6, ChangeIs, b \in Blocks
<1> QED  BY <1>1, <1>2, <1>4, <1>5, <1>7, OneStep

VarChanged(d, b, y, u) == [d EXCEPT !.mem[b] = [@ EXCEPT ![1].v = y.v], !.mod[b] = u]
Other(x) == [x EXCEPT !.v = 1 - @]
ChangedMod(u) == IF u = "all" THEN "all" ELSE "var"

LEMMA VarChangedIs ==
    ASSUME NEW d, NEW pend, AllOk(d, pend), NEW b \in Blocks, b \notin pend,
           NEW x \in AnyValue, BlockOk(d, b, x), d.mem[b] # << >>,
           NEW y, y = Other(x), NEW u, u = ChangedMod(d.mod[b]),
           NEW e, e = VarChanged(d, b, y, u)
    PROVE  BlockStep(e, d, b, pend, pend) /\ BlockOk(e, b, y) /\ y \in AnyValue
<1>1. y = [x EXCEPT !.v = 1 - @]
    BY DEF Other
<1>2. u = (IF d.mod[b] = "all" THEN "all" ELSE "var")
    BY DEF ChangedMod
<1>3. e = [d EXCEPT !.mem[b] = [@ EXCEPT ![1].v = y.v], !.mod[b] = u]
    BY DEF VarChanged
<1> QED  BY <1>1, <1>2, <1>3, ChangeVarIs

LEMMA ChangeVarStep ==
    ASSUME IInv, NEW b \in Blocks, ChangeVar(b)
    PROVE  IInv'
<1> DEFINE x == value[b]
           y == [x EXCEPT !.v = 1 - @]
           u == IF mod[b] = "all" THEN "all" ELSE "var"
           e == [Now EXCEPT !.mem[b] = [@ EXCEPT ![1].v = y.v], !.mod[b] = u]
<1>1. /\ Running /\ mem[b] # << >>
      /\ mem' = [mem EXCEPT ![b] = [mem[b] EXCEPT ![1].v = y.v]]
      /\ value' = [value EXCEPT ![b] = y] /\ mod' = [mod EXCEPT ![b] = u]
      /\ UNCHANGED << dev, disk, vec, omap, converted, names, image, dumping >>
    BY DEF ChangeVar
<1>2. /\ b \notin omap /\ AllOk(Now, omap) /\ x \in AnyValue /\ omap \ {b} = omap
      /\ BlockOk(Now, b, x)
    BY <1>1, NotPending, BlockIs
<1>3. Become(e)
    <2>1. /\ e.dev = dev /\ e.disk = disk /\ e.vec = vec
          /\ e.mem = [mem EXCEPT ![b] = [mem[b] EXCEPT ![1].v = y.v]]
          /\ e.mod = [mod EXCEPT ![b] = u]
        BY DEF Now
    <2>2. dev.ssectors <= MaxIndex
        BY DEF IInv
    <2> HIDE DEF e, x, y, u
    <2> QED  BY <1>1, <2>1, <2>2 DEF Become, Fits
<1>4. /\ AllOk(Now, omap) /\ b \notin omap /\ x \in AnyValue /\ BlockOk(Now, b, x)
      /\ Now.mem[b] # << >> /\ y = Other(x) /\ u = ChangedMod(Now.mod[b])
      /\ e = VarChanged(Now, b, y, u)
    BY <1>1, <1>2, NowIs DEF Other, ChangedMod, VarChanged
<1> HIDE DEF x, y, u, e
<1>5. BlockStep(e, Now, b, omap, omap) /\ BlockOk(e, b, y) /\ y \in AnyValue
    BY ONLY <1>4, VarChangedIs, b \in Blocks
<1>6. /\ value' \in [Blocks -> AnyValue] /\ value'[b] = y
      /\ \A a \in Blocks : a # b => value'[a] = value[a]
    <2>1. value \in [Blocks -> AnyValue]
        BY DEF IInv, AnyValue
    <2> QED  BY <1>1, <1>5, <2>1
<1> QED  BY <1>1, <1>2, <1>3, <1>5, <1>6, OneStep

LEMMA ValueKept ==
    ASSUME IInv, UNCHANGED value, NEW b \in Blocks
    PROVE  /\ value' \in [Blocks -> AnyValue] /\ value'[b] = value[b]
           /\ \A a \in Blocks : a # b => value'[a] = value[a]
BY DEF IInv, AnyValue

LEMMA GetStep ==
    ASSUME IInv, NEW b \in Blocks, Get(b)
    PROVE  IInv'
<1> DEFINE e == IF b \in omap THEN RestoreObj(Now, b) ELSE ReadV(Now, b)
<1>1. /\ Running /\ mem[b] = << >> /\ Become(e) /\ omap' = omap \ {b}
      /\ UNCHANGED << converted, names, image, dumping, value >>
    BY DEF Get
<1>2. /\ AllOk(Now, omap) /\ value[b] \in AnyValue
      /\ b \notin omap => BlockOk(Now, b, value[b]) /\ omap \ {b} = omap
      /\ b \in omap => PendingIn(Now, b, dev.dump, value[b], converted)
    BY <1>1, BlockIs
<1>3. BlockGoes(e, Now, b, omap, value[b])
    <2>1. CASE b \in omap
        <3>1. e = RestoreObj(Now, b) /\ PendingIn(Now, b, Now.dev.dump, value[b], converted)
            BY <1>2, <2>1, NowIs
        <3> HIDE DEF e
        <3> QED  BY <1>2, <2>1, <3>1, RestoreBlock
    <2>2. CASE b \notin omap
        <3>1. e = ReadV(Now, b) /\ Now.mem[b] = << >>
            BY <1>1, <2>2, NowIs
        <3> HIDE DEF e
        <3> QED  BY <1>2, <2>2, <3>1, ReadBlock
    <2> QED  BY <2>1, <2>2
<1> HIDE DEF e
<1>4. BlockStep(e, Now, b, omap, omap \ {b}) /\ BlockOk(e, b, value'[b])
    BY <1>1, <1>3 DEF BlockGoes
<1>5. value' \in [Blocks -> AnyValue] /\ \A a \in Blocks : a # b => value'[a] = value[a]
    BY <1>1, ValueKept
<1> QED  BY <1>1, <1>4, <1>5, OneStep

LEMMA PutOutStep ==
    ASSUME IInv, NEW b \in Blocks, PutOut(b)
    PROVE  IInv'
<1> DEFINE e == SwapOut(Now, b)
<1>1. /\ Running /\ mem[b] # << >> /\ Become(e) /\ e = SwapOut(Now, b)
      /\ UNCHANGED << omap, converted, names, image, dumping, value >>
    BY DEF PutOut
<1>2. /\ b \notin omap /\ AllOk(Now, omap) /\ value[b] \in AnyValue
      /\ BlockOk(Now, b, value[b]) /\ omap \ {b} = omap
    BY <1>1, NotPending, BlockIs
<1> HIDE DEF e
<1>3. Gone(e, Now, b, omap, value[b])
    BY <1>1, <1>2, SwapOutIs
<1>4. BlockStep(e, Now, b, omap, omap \ {b}) /\ BlockOk(e, b, value'[b])
    BY <1>1, <1>2, <1>3 DEF Gone
<1>5. value' \in [Blocks -> AnyValue] /\ \A a \in Blocks : a # b => value'[a] = value[a]
    BY <1>1, ValueKept
<1> QED  BY <1>1, <1>2, <1>4, <1>5, OneStep

LEMMA CollectStep ==
    ASSUME IInv, NEW b \in Blocks, Collect(b)
    PROVE  IInv'
<1> DEFINE e == Save(Now, b)
<1>1. /\ Running /\ mem[b] # << >> /\ Become(e) /\ e = Save(Now, b)
      /\ UNCHANGED << omap, converted, names, image, dumping, value >>
    BY DEF Collect
<1>2. /\ b \notin omap /\ AllOk(Now, omap) /\ value[b] \in AnyValue
      /\ BlockOk(Now, b, value[b]) /\ omap \ {b} = omap
    BY <1>1, NotPending, BlockIs
<1> HIDE DEF e
<1>3. Saves(e, Now, b, omap, value[b])
    BY <1>1, <1>2, SaveIs
<1>4. BlockStep(e, Now, b, omap, omap \ {b}) /\ BlockOk(e, b, value'[b])
    BY <1>1, <1>2, <1>3 DEF Saves
<1>5. value' \in [Blocks -> AnyValue] /\ \A a \in Blocks : a # b => value'[a] = value[a]
    BY <1>1, ValueKept
<1> QED  BY <1>1, <1>2, <1>4, <1>5, OneStep

LEMMA DestructStep ==
    ASSUME IInv, NEW b \in Blocks, Destruct(b)
    PROVE  IInv'
<1> DEFINE e == DelBlock(Now, b)
<1>1. /\ Running /\ mem[b] # << >> /\ Become(e) /\ e = DelBlock(Now, b)
      /\ value' = [value EXCEPT ![b] = NoValue]
      /\ UNCHANGED << omap, converted, names, image, dumping >>
    BY DEF Destruct
<1>2. b \notin omap /\ AllOk(Now, omap) /\ value[b] \in AnyValue /\ omap \ {b} = omap
    BY <1>1, NotPending, BlockIs
<1> HIDE DEF e
<1>3. BlockStep(e, Now, b, omap, omap) /\ BlockOk(e, b, NoValue)
    BY <1>1, <1>2, DestructIs
<1>4. /\ value' \in [Blocks -> AnyValue] /\ value'[b] = NoValue
      /\ \A a \in Blocks : a # b => value'[a] = value[a]
    <2>1. value \in [Blocks -> AnyValue]
        BY DEF IInv, AnyValue
    <2> QED  BY <1>1, <2>1 DEF AnyValue
<1> QED  BY <1>1, <1>2, <1>3, <1>4, OneStep

---------------------------------------------------------------------------
(* Steps of all blocks.                                                    *)

LEMMA OrdersIs ==
    ASSUME NEW S \in SUBSET Blocks, NEW q \in Orders(S)
    PROVE  /\ q \in Seq(Blocks) /\ \A k \in 1 .. Len(q) : q[k] \in S
           /\ \A j, k \in 1 .. Len(q) : q[j] = q[k] => j = k
           /\ \A x \in S : \E k \in 1 .. Len(q) : q[k] = x
<1>1. IsFiniteSet(S)
    BY FS_Subset, ConstantsAre
<1>2. Cardinality(S) \in Nat
    BY <1>1, FS_CardinalityType
<1> DEFINE n == Cardinality(S)
<1> HIDE DEF n
<1>3. q \in [1 .. n -> S] /\ ToSet(q) = S /\ IsInjective(q)
    BY DEF Orders, n
<1>4. n \in Nat
    BY <1>2 DEF n
<1>5. q \in Seq(Blocks) /\ Len(q) = n
    BY <1>3, <1>4
<1> QED  BY <1>3, <1>4, <1>5, ToSetIs

(* All blocks go out of memory: those in s, in their reverse order, and    *)
(* those in t.                                                             *)
OutOf(e, d, pend, x, conv, from, s, t) ==
    /\ Stands(e, pend, x, conv, from) /\ Writes(e, d)
    /\ \A k \in 1 .. Len(s) : e.mem[s[k]] = << >>
    /\ \A k \in 1 .. Len(t) : e.mem[t[k]] = << >>
    /\ \A a \in Blocks : e.mem[a] \in {<< >>, d.mem[a]}

LEMMA AllOut ==
    ASSUME NEW d, NEW x, NEW conv, NEW from, NEW pend, Stands(d, pend, x, conv, from),
           NEW s \in Seq(Blocks), NEW t \in Seq(Blocks),
           \A k \in 1 .. Len(s) : s[k] \notin pend, \A k \in 1 .. Len(t) : t[k] \notin pend,
           NEW e, e = SwapOutAll(d, s, t)
    PROVE  OutOf(e, d, pend, x, conv, from, s, t)
<1> DEFINE r == Reverse(s)
           q == r \o t
<1>1. /\ r \in Seq(Blocks) /\ Len(r) = Len(s)
      /\ \A k \in 1 .. Len(s) : r[k] = s[Len(s) - k + 1]
    BY ReverseElem
<1>2. e = Walk(SwapOut, d, q)
    BY DEF SwapOutAll
<1> HIDE DEF r
<1>3. /\ q \in Seq(Blocks) /\ Len(q) = Len(r) + Len(t)
      /\ \A k \in 1 .. Len(r) : q[k] = r[k]
      /\ \A k \in 1 .. Len(t) : q[Len(r) + k] = t[k]
    <2>1. r \in Seq(Blocks) /\ t \in Seq(Blocks)
        BY <1>1
    <2> QED  BY ONLY <2>1, ConcatElem
<1> HIDE DEF q
<1>4. Len(s) \in Nat /\ Len(t) \in Nat
    BY LenProperties
<1>5. \A k \in 1 .. Len(q) : q[k] \notin pend
    <2> TAKE k \in 1 .. Len(q)
    <2>1. CASE k <= Len(s)
        <3>1. k \in 1 .. Len(s) /\ Len(s) - k + 1 \in 1 .. Len(s)
            BY <1>1, <1>3, <1>4, <2>1
        <3> QED  BY <1>1, <1>3, <3>1
    <2>2. CASE k > Len(s)
        <3>1. k - Len(s) \in 1 .. Len(t) /\ Len(s) + (k - Len(s)) = k
            BY <1>1, <1>3, <1>4, <2>2
        <3> QED  BY <1>1, <1>3, <3>1
    <2> QED  BY <1>1, <1>3, <1>4, <2>1, <2>2
<1>6. OutTo(e, d, pend, x, conv, from, q, Len(q))
    BY <1>2, <1>3, <1>5, SwapOutAllIs
<1>7. /\ Stands(e, pend, x, conv, from) /\ Writes(e, d)
      /\ \A j \in 1 .. Len(q) : e.mem[q[j]] = << >>
      /\ \A a \in Blocks : e.mem[a] \in {<< >>, d.mem[a]}
    BY <1>6 DEF OutTo
<1>8. \A k \in 1 .. Len(s) : e.mem[s[k]] = << >>
    <2> TAKE k \in 1 .. Len(s)
    <2>1. /\ Len(s) - k + 1 \in 1 .. Len(s) /\ Len(s) - k + 1 \in 1 .. Len(q)
          /\ Len(s) - (Len(s) - k + 1) + 1 = k
        BY <1>1, <1>3, <1>4
    <2>2. q[Len(s) - k + 1] = s[k]
        BY <1>1, <1>3, <2>1
    <2> QED  BY <1>7, <2>1, <2>2
<1>9. \A k \in 1 .. Len(t) : e.mem[t[k]] = << >>
    <2> TAKE k \in 1 .. Len(t)
    <2>1. Len(s) + k \in 1 .. Len(q) /\ q[Len(s) + k] = t[k]
        BY <1>1, <1>3, <1>4
    <2> QED  BY <1>7, <2>1
<1> QED  BY <1>7, <1>8, <1>9 DEF OutOf

LEMMA EmptyOrder ==
    << >> \in Seq(Blocks) /\ Len(<< >>) = 0
OBVIOUS

LEMMA CopiedStep ==
    ASSUME IInv, Copied
    PROVE  IInv'
<1>1. /\ Running /\ omap = {} /\ converted' = TRUE
      /\ UNCHANGED << omap, names, image, dumping, value >>
    BY DEF Copied
<1>2. PICK q \in Orders(InMemory) : Become(SwapOutAll(Now, << >>, q))
    BY DEF Copied
<1> DEFINE e == SwapOutAll(Now, << >>, q)
<1>3. Stands(Now, {}, value, converted, DumpOf)
    BY <1>1, SoundStands DEF Running, Pending
<1>4. q \in Seq(Blocks)
    BY OrdersIs DEF InMemory
<1>5. Become(e) /\ e = SwapOutAll(Now, << >>, q)
    BY <1>2
<1> HIDE DEF e
<1>6. /\ Stands(e, {}, value, converted, DumpOf) /\ Writes(e, Now)
    <2> DEFINE s == << >>
    <2>1. /\ s \in Seq(Blocks) /\ (\A k \in 1 .. Len(s) : s[k] \notin {})
          /\ (\A k \in 1 .. Len(q) : q[k] \notin {}) /\ e = SwapOutAll(Now, s, q)
        BY <1>5, EmptyOrder
    <2> HIDE DEF s
    <2>2. Stands(Now, {}, value, converted, DumpOf) /\ q \in Seq(Blocks)
        BY <1>3, <1>4
    <2>3. OutOf(e, Now, {}, value, converted, DumpOf, s, q)
        BY ONLY <2>1, <2>2, AllOut
    <2> QED  BY <2>3 DEF OutOf
<1>7. Stands(e, {}, value, TRUE, DumpOf)
    BY <1>6 DEF Stands
<1>8. Stands(e, omap', value', converted', DumpOf)
    BY <1>1, <1>7
<1> QED  BY <1>1, <1>5, <1>6, <1>8, RunningStep

---------------------------------------------------------------------------
(* conf_dump()                                                             *)

(* All blocks are out of memory, and none but those in pend in the old     *)
(* snapshot only.                                                          *)
Ready(e, pend) ==
    /\ Stands(e, pend, value, converted, DumpOf) /\ Writes(e, Now)
    /\ e.mem = [b \in Blocks |-> << >>] /\ e.mod = [b \in Blocks |-> "no"]

LEMMA ReadyIs ==
    ASSUME IInv, Running, NEW incr \in BOOLEAN, NEW r \in Orders(IF incr THEN {} ELSE omap),
           NEW q \in Orders(InMemory), NEW pend, pend = (IF incr THEN omap ELSE {}),
           NEW e, e = SwapOutAll(RestoreAll(Now, r), r, q)
    PROVE  Ready(e, pend)
<1> DEFINE g == RestoreAll(Now, r)
<1>1. Stands(Now, omap, value, converted, DumpOf) /\ omap \subseteq Blocks
    BY SoundStands DEF Running, Pending, IInv
<1>2. /\ r \in Seq(Blocks) /\ Len(r) \in Nat /\ \A k \in 1 .. Len(r) : r[k] \in omap
      /\ \A j, k \in 1 .. Len(r) : r[j] = r[k] => j = k
      /\ ~incr => \A a \in omap : \E k \in 1 .. Len(r) : r[k] = a
      /\ incr => \A k \in 1 .. Len(r) : FALSE
    <2> DEFINE S == IF incr THEN {} ELSE omap
    <2>1. S \in SUBSET Blocks /\ r \in Orders(S)
        BY <1>1
    <2> HIDE DEF S
    <2>2. /\ r \in Seq(Blocks) /\ \A k \in 1 .. Len(r) : r[k] \in S
          /\ \A j, k \in 1 .. Len(r) : r[j] = r[k] => j = k
          /\ \A x \in S : \E k \in 1 .. Len(r) : r[k] = x
        BY ONLY <2>1, OrdersIs
    <2> QED  BY <2>2 DEF S
<1>3. /\ q \in Seq(Blocks) /\ (\A k \in 1 .. Len(q) : q[k] \in InMemory)
      /\ \A x \in InMemory : \E k \in 1 .. Len(q) : q[k] = x
    <2>1. InMemory \in SUBSET Blocks /\ q \in Orders(InMemory)
        BY DEF InMemory
    <2> QED  BY ONLY <2>1, OrdersIs
<1>4. BackTo(g, Now, omap, value, converted, DumpOf, r, Len(r))
    <2>1. \A b \in omap : DumpOf[b] = Now.dev.dump
        BY <1>1, NowIs DEF DumpOf
    <2>2. g = RestoreAll(Now, r) /\ converted = converted
        OBVIOUS
    <2> HIDE DEF g
    <2> QED  BY <1>1, <1>2, <2>1, <2>2, RestoreAllIs
<1>5. Left(omap, r, Len(r)) = pend
    <2>1. \A t : t \in Left(omap, r, Len(r)) <=> t \in omap /\ \A j \in 1 .. Len(r) : r[j] # t
        BY DEF Left
    <2>2. \A t : t \in Left(omap, r, Len(r)) <=> t \in pend
        BY <1>2, <2>1
    <2> QED  BY <2>2
<1>6. e = SwapOutAll(g, r, q)
    OBVIOUS
<1> HIDE DEF g
<1>7. /\ Stands(g, pend, value, converted, DumpOf) /\ Writes(g, Now)
      /\ \A a \in Blocks : (\A j \in 1 .. Len(r) : r[j] # a) => g.mem[a] = mem[a]
    BY <1>4, <1>5, NowIs DEF BackTo
<1>8. \A k \in 1 .. Len(q) : q[k] \notin pend
    <2> TAKE k \in 1 .. Len(q)
    <2>1. q[k] \in Blocks /\ mem[q[k]] # << >>
        BY <1>3 DEF InMemory
    <2>2. q[k] \notin omap
        BY <2>1, NotPending
    <2> QED  BY <2>2
<1>9. \A k \in 1 .. Len(r) : r[k] \notin pend
    BY <1>2
<1>10. /\ Stands(e, pend, value, converted, DumpOf) /\ Writes(e, g)
       /\ \A k \in 1 .. Len(r) : e.mem[r[k]] = << >>
       /\ \A k \in 1 .. Len(q) : e.mem[q[k]] = << >>
       /\ \A a \in Blocks : e.mem[a] \in {<< >>, g.mem[a]}
    <2>1. /\ Stands(g, pend, value, converted, DumpOf)
          /\ r \in Seq(Blocks) /\ q \in Seq(Blocks)
          /\ (\A k \in 1 .. Len(r) : r[k] \notin pend) /\ (\A k \in 1 .. Len(q) : q[k] \notin pend)
          /\ e = SwapOutAll(g, r, q)
        BY <1>2, <1>3, <1>6, <1>7, <1>8, <1>9
    <2>2. OutOf(e, g, pend, value, converted, DumpOf, r, q)
        BY ONLY <2>1, AllOut
    <2> QED  BY <2>2 DEF OutOf
<1>11. \A a \in Blocks : e.mem[a] = << >>
    <2> TAKE a \in Blocks
    <2>1. CASE \E k \in 1 .. Len(r) : r[k] = a
        BY <1>10, <2>1
    <2>2. CASE a \in InMemory
        BY <1>3, <1>10, <2>2
    <2>3. CASE (\A k \in 1 .. Len(r) : r[k] # a) /\ a \notin InMemory
        BY <1>7, <1>10, <2>3 DEF InMemory
    <2> QED  BY <2>1, <2>2, <2>3
<1>12. \A a \in Blocks : e.mod[a] = "no"
    <2> TAKE a \in Blocks
    <2>1. CASE a \in pend
        BY <1>10, <2>1 DEF Stands, PendingIn
    <2>2. CASE a \notin pend
        BY <1>10, <1>11, <2>2 DEF Stands, BlockOk
    <2> QED  BY <2>1, <2>2
<1>13. e \in State
    BY <1>10 DEF Stands, AllOk
<1>14. Writes(e, Now)
    <2>1. Now.dev.swap \in Descriptor
        BY <1>1, DeviceFields DEF Stands, AllOk, State
    <2> QED  BY <1>7, <1>10, <2>1, WritesOn
<1>15. e.mem = [b \in Blocks |-> << >>] /\ e.mod = [b \in Blocks |-> "no"]
    BY <1>11, <1>12, <1>13 DEF State
<1> QED  BY <1>10, <1>14, <1>15 DEF Ready

(* sw_dump()                                                               *)
Dumped(g, pend) ==
    /\ Ready(g, pend) /\ g.dev.swap \in Files
    /\ ReadAt(g.disk, g.dev.swap, g.dev.ssectors) = MapSector
    /\ \A i \in Slots : ~g.dev.slot[i].dirty

LEMMA DumpedIs ==
    ASSUME IInv, NEW d, NEW pend, Ready(d, pend), NEW g, g = Mapped(Flush(Create(d)))
    PROVE  Dumped(g, pend)
<1>1. /\ Stands(d, pend, value, converted, DumpOf) /\ Writes(d, Now) /\ AllOk(d, pend)
      /\ d.mem = [b \in Blocks |-> << >>] /\ d.mod = [b \in Blocks |-> "no"]
    BY DEF Ready, Stands
<1>2. Dumps(g, d, pend)
    BY <1>1, SwDumpIs
<1>3. /\ AllOk(g, pend) /\ SameBlocks(g, d) /\ Writes(g, d)
      /\ Keeps(g, d, Held(d.vec, Blocks), Held(d.vec, pend))
      /\ g.dev.swap \in Files /\ ReadAt(g.disk, g.dev.swap, g.dev.ssectors) = MapSector
      /\ \A i \in Slots : ~g.dev.slot[i].dirty
    BY <1>2 DEF Dumps
<1>4. Stands(g, pend, value, converted, DumpOf)
    BY <1>1, <1>3, AllKept
<1>5. Writes(g, Now)
    <2>1. Now.dev.swap \in Descriptor
        BY SoundStands, DeviceFields DEF Stands, AllOk, State
    <2> QED  BY <1>1, <1>3, <2>1, WritesOn
<1> QED  BY <1>1, <1>3, <1>4, <1>5 DEF Ready, Dumped, SameBlocks

(* The files that have a name or a descriptor.                             *)
LEMMA RemainingReads ==
    ASSUME NEW k \in Disk, NEW S, NEW l, l = Remaining(k, S)
    PROVE  l \in Disk /\ \A f \in S : \A i : ReadAt(l, f, i) = ReadAt(k, f, i)
<1>1. /\ k = [g \in Files |-> k[g]]
      /\ \A g \in Files : /\ k[g] = [j \in DOMAIN k[g] |-> k[g][j]]
                          /\ DOMAIN k[g] \subseteq Nat
                          /\ \A j \in DOMAIN k[g] : k[g][j] \in Data
    BY DiskIs
<1>2. EmptyFile = [j \in {} |-> Junk]
    BY DEF EmptyFile
<1>3. /\ EmptyFile = [j \in DOMAIN EmptyFile |-> EmptyFile[j]]
      /\ DOMAIN EmptyFile = {}
    BY <1>2
<1>4. /\ l = [g \in Files |-> l[g]]
      /\ \A g \in Files : l[g] = IF g \in S THEN k[g] ELSE EmptyFile
    BY DEF Remaining
<1>5. \A g \in Files : /\ l[g] = [j \in DOMAIN l[g] |-> l[g][j]]
                       /\ DOMAIN l[g] \subseteq Nat
                       /\ \A j \in DOMAIN l[g] : l[g][j] \in Data
    BY <1>1, <1>3, <1>4
<1>6. l \in Disk
    BY ONLY <1>4, <1>5, DiskIs
<1>7. \A f \in S : \A i : ReadAt(l, f, i) = ReadAt(k, f, i)
    BY <1>4 DEF ReadAt
<1> QED  BY <1>6, <1>7

(* The device without a descriptor of the old snapshot, unless it is kept. *)
Parted(g, keep, S) ==
    [g EXCEPT !.dev.dump = IF keep THEN @ ELSE NoFile, !.disk = Remaining(@, S)]

IsParted(e, g, keep, S) ==
    /\ e \in State /\ e.vec = g.vec /\ e.mem = g.mem /\ e.mod = g.mod
    /\ e.disk = Remaining(g.disk, S)
    /\ e.dev = [g.dev EXCEPT !.dump = IF keep THEN @ ELSE NoFile]
    /\ e.dev.map = g.dev.map /\ e.dev.slot = g.dev.slot /\ e.dev.order = g.dev.order
    /\ e.dev.lfree = g.dev.lfree /\ e.dev.sfree = g.dev.sfree /\ e.dev.swap = g.dev.swap
    /\ e.dev.ssectors = g.dev.ssectors /\ e.dev.sbarrier = g.dev.sbarrier
    /\ e.dev.nsectors = g.dev.nsectors /\ e.dev.mfree = g.dev.mfree
    /\ e.dev.swapping = g.dev.swapping
    /\ e.dev.dump = IF keep THEN g.dev.dump ELSE NoFile

LEMMA PartedIs ==
    ASSUME NEW g \in State, NEW keep, NEW S, NEW e, e = Parted(g, keep, S)
    PROVE  IsParted(e, g, keep, S)
<1> DEFINE v == [g.dev EXCEPT !.dump = IF keep THEN @ ELSE NoFile]
           k == Remaining(g.disk, S)
<1>1. g.dev \in Device /\ g.disk \in Disk
    BY DEF State
<1>2. k \in Disk
    BY <1>1, RemainingReads
<1>3. /\ v \in Device
      /\ v.map = g.dev.map /\ v.slot = g.dev.slot /\ v.order = g.dev.order
      /\ v.lfree = g.dev.lfree /\ v.sfree = g.dev.sfree /\ v.swap = g.dev.swap
      /\ v.ssectors = g.dev.ssectors /\ v.sbarrier = g.dev.sbarrier
      /\ v.nsectors = g.dev.nsectors /\ v.mfree = g.dev.mfree /\ v.swapping = g.dev.swapping
      /\ v.dump = IF keep THEN g.dev.dump ELSE NoFile
    BY <1>1 DEF Device, Descriptor
<1>4. e.dev = v /\ e.disk = k /\ e.vec = g.vec /\ e.mem = g.mem /\ e.mod = g.mod
      /\ e = [g EXCEPT !.dev = v, !.disk = k]
    BY DEF Parted, State
<1> HIDE DEF v, k
<1>5. e \in State
    BY <1>2, <1>3, <1>4 DEF State
<1> QED  BY <1>3, <1>4, <1>5 DEF v, k, IsParted

(* The blocks are where they were.                                         *)
LEMMA LeftSound ==
    ASSUME NEW g, NEW pend, NEW x, NEW conv, NEW from, Stands(g, pend, x, conv, from),
           g.mem = [b \in Blocks |-> << >>], g.mod = [b \in Blocks |-> "no"],
           NEW keep, NEW S, g.dev.swap \in S,
           \A b \in pend : keep /\ from[b] = g.dev.dump /\ g.dev.dump \in S,
           NEW e, e = Parted(g, keep, S)
    PROVE  e \in State /\ Sound(e, pend, x, conv)
<1>1. /\ g \in State /\ Apart(g.vec) /\ pend \subseteq Blocks
      /\ Numbers(g.dev.nsectors, g.dev.mfree, Held(g.vec, Blocks))
      /\ Cache(g.dev, Held(g.vec, Blocks))
      /\ Places(g.dev, Held(g.vec, Blocks), Held(g.vec, pend))
    BY DEF Stands, AllOk, DeviceOk
<1>2. /\ e \in State /\ e.vec = g.vec /\ e.mem = g.mem /\ e.mod = g.mod
      /\ e.disk = Remaining(g.disk, S)
      /\ e.dev.map = g.dev.map /\ e.dev.slot = g.dev.slot /\ e.dev.order = g.dev.order
      /\ e.dev.lfree = g.dev.lfree /\ e.dev.sfree = g.dev.sfree /\ e.dev.swap = g.dev.swap
      /\ e.dev.ssectors = g.dev.ssectors /\ e.dev.sbarrier = g.dev.sbarrier
      /\ e.dev.nsectors = g.dev.nsectors /\ e.dev.mfree = g.dev.mfree
      /\ e.dev.dump = IF keep THEN g.dev.dump ELSE NoFile
    <2>1. IsParted(e, g, keep, S)
        BY <1>1, PartedIs
    <2> QED  BY <2>1 DEF IsParted
<1>3. \A f \in S : \A i : ReadAt(e.disk, f, i) = ReadAt(g.disk, f, i)
    <2>1. g.disk \in Disk
        BY <1>1 DEF State
    <2> QED  BY <1>2, <2>1, RemainingReads
<1>4. /\ \A t : InSlot(e.dev, t) <=> InSlot(g.dev, t)
      /\ \A t : PlaceOf(e.dev, t) = PlaceOf(g.dev, t)
    BY <1>2 DEF InSlot, PlaceOf
<1>5. Cache(e.dev, Held(g.vec, Blocks))
    BY <1>1, <1>2 DEF Cache
<1>6. Places(e.dev, Held(g.vec, Blocks), Held(g.vec, pend))
    <2> DEFINE H == Held(g.vec, Blocks)
               P == Held(g.vec, pend)
    <2>1. Places(g.dev, H, P)
        BY <1>1
    <2> HIDE DEF H, P
    <2>2. Places(e.dev, H, P)
        BY <1>2, <1>4, <2>1 DEF Places
    <2> QED  BY <2>2 DEF H, P
<1>7. \A t, c : Has(g, t, c) => Has(e, t, c)
    BY <1>2, <1>3, <1>4 DEF Has, Filed
<1>8. \A b \in pend : PendingOk(e, b, x[b], conv)
    <2> TAKE b \in pend
    <2>1. PendingIn(g, b, from[b], x[b], conv)
        BY DEF Stands
    <2>2. from[b] = g.dev.dump /\ e.dev.dump = g.dev.dump /\ g.dev.dump \in S
        BY <1>2
    <2>3. \A t, c : HasIn(g, from[b], t, c) => HasIn(e, e.dev.dump, t, c)
        BY <1>2, <1>3, <1>4, <2>2 DEF HasIn, Filed
    <2> QED  BY <1>2, <1>4, <2>1, <2>3 DEF PendingIn, PendingOk
<1>9. \A b \in Blocks \ pend : BlockOk(e, b, x[b])
    <2> TAKE b \in Blocks \ pend
    <2>1. BlockOk(g, b, x[b])
        BY DEF Stands
    <2> QED  BY <1>2, <1>7, <2>1 DEF BlockOk
<1> QED  BY <1>1, <1>2, <1>5, <1>6, <1>8, <1>9 DEF Sound

(* What becomes of the driver's variables.                                 *)
DumpsTo(e, g, pend, keep, S, incr) ==
    /\ Dumped(g, pend) /\ e = Parted(g, keep, S) /\ IsParted(e, g, keep, S)
    /\ Become(e) /\ names' = Names(e.dev) /\ S = {names'.snapshot, names'.old, e.dev.dump}
    /\ dumping' = << [incr |-> incr, omap |-> pend] >>
    /\ omap' = (IF incr THEN omap ELSE {b \in Blocks : e.vec[b] # << >>})
    /\ converted' = (converted \/ ~incr) /\ UNCHANGED << image, value >>
    /\ e.dev.ssectors + Extent(e.dev) <= MaxIndex
    /\ incr \in BOOLEAN /\ pend = (IF incr THEN omap ELSE {}) /\ keep = (incr /\ omap # {})

LEMMA DumpStartIs ==
    ASSUME IInv, NEW incr \in BOOLEAN, DumpStart(incr)
    PROVE  \E e, g, pend, keep, S : DumpsTo(e, g, pend, keep, S, incr)
<1>1. Running /\ converted' = (converted \/ ~incr) /\ UNCHANGED << image, value >>
    BY DEF DumpStart
<1>2. PICK r \in Orders(IF incr THEN {} ELSE omap), q \in Orders(InMemory) :
          Dump(SwDump(SwapOutAll(RestoreAll(Now, r), r, q), incr /\ omap # {}),
               incr, IF incr THEN omap ELSE {})
    BY DEF DumpStart
<1> DEFINE pend == IF incr THEN omap ELSE {}
           keep == incr /\ omap # {}
           d == SwapOutAll(RestoreAll(Now, r), r, q)
           g == Mapped(Flush(Create(d)))
           w == SwDump(d, keep)
           S == {Names(w.dev).snapshot, Names(w.dev).old, w.dev.dump}
           e == [w EXCEPT !.disk = Remaining(@, S)]
<1>3. Dump(w, incr, pend)
    BY <1>2
<1>4. Ready(d, pend)
    BY <1>1, ReadyIs
<1>5. keep \in BOOLEAN /\ g = Mapped(Flush(Create(d))) /\ w = SwDump(d, keep)
    OBVIOUS
<1> HIDE DEF d, g, w, pend, keep
<1>6. Dumped(g, pend)
    BY <1>4, <1>5, DumpedIs
<1>7. w = [g EXCEPT !.dev.dump = IF keep THEN @ ELSE NoFile]
    <2>1. AllOk(d, pend)
        BY <1>4 DEF Ready, Stands
    <2> QED  BY <1>5, <2>1, SwDumpIs
<1>8. g \in State
    BY <1>6 DEF Dumped, Ready, Stands, AllOk
<1>9. e = Parted(g, keep, S) /\ e.dev = w.dev /\ e.vec = w.vec
    <2> HIDE DEF S
    <2> QED  BY <1>7, <1>8 DEF Parted, State
<1>10. IsParted(e, g, keep, S)
    <2> HIDE DEF e, S
    <2> QED  BY <1>8, <1>9, PartedIs
<1>11. /\ w.dev.ssectors + Extent(w.dev) <= MaxIndex /\ Become(e) /\ names' = Names(w.dev)
       /\ dumping' = << [incr |-> incr, omap |-> pend] >>
       /\ omap' = IF incr THEN omap ELSE {b \in Blocks : w.vec[b] # << >>}
    BY <1>3 DEF Dump
<1>12. S = {names'.snapshot, names'.old, e.dev.dump}
    BY <1>9, <1>11
<1> HIDE DEF e, S
<1>13. pend = (IF incr THEN omap ELSE {}) /\ keep = (incr /\ omap # {})
    BY DEF pend, keep
<1>14. DumpsTo(e, g, pend, keep, S, incr)
    BY <1>1, <1>6, <1>9, <1>10, <1>11, <1>12, <1>13 DEF DumpsTo
<1> QED  BY <1>14

(* The swap file has the name of the snapshot now; the one before is the   *)
(* old one.                                                                *)
Renamed(e, g, keep) ==
    /\ dev' = e.dev /\ disk' = e.disk /\ vec' = e.vec /\ mem' = e.mem /\ mod' = e.mod
    /\ e.dev.swap = g.dev.swap /\ g.dev.swap \in Files
    /\ e.dev.swapping = dev.swapping /\ e.dev.sbarrier = dev.sbarrier
    /\ g.dev.dump = dev.dump /\ e.dev.dump = (IF keep THEN dev.dump ELSE NoFile)
    /\ names'.snapshot = g.dev.swap
    /\ names' = [snapshot |-> names'.snapshot, old |-> names'.old]
    /\ names.snapshot \in Descriptor /\ names.old \in Descriptor
    /\ dev.swapping => /\ names'.old = names.snapshot /\ g.dev.swap # names.snapshot
                       /\ keep => dev.dump = names.snapshot
    /\ ~dev.swapping => /\ names' = names /\ dev.swap = g.dev.swap /\ names.old # names.snapshot
                        /\ keep => dev.dump = names.old
    /\ keep => dev.dump \in Files
    /\ (Running' <=> FALSE)

LEMMA RenamedIs ==
    ASSUME IInv, Running, NEW e, NEW g, NEW pend, NEW keep, NEW S, NEW incr,
           DumpsTo(e, g, pend, keep, S, incr)
    PROVE  Renamed(e, g, keep)
<1>1. NamesOk /\ Pending = omap
    BY DEF IInv, Running, Pending
<1>2. /\ Dumped(g, pend) /\ IsParted(e, g, keep, S)
      /\ Become(e) /\ names' = Names(e.dev)
      /\ dumping' = << [incr |-> incr, omap |-> pend] >>
      /\ keep = (incr /\ omap # {}) /\ incr \in BOOLEAN
    BY DEF DumpsTo
<1>3. Writes(g, Now) /\ g.dev.swap \in Files
    BY <1>2 DEF Dumped, Ready
<1>4. /\ g.dev.sbarrier = dev.sbarrier /\ g.dev.swapping = dev.swapping /\ g.dev.dump = dev.dump
      /\ \/ g.dev.swap = dev.swap
         \/ dev.swap = NoFile /\ g.dev.swap \in Files \ {names.snapshot, names.old, dev.dump}
    BY <1>3, NowIs DEF Writes
<1>5. /\ e.dev.swap = g.dev.swap /\ e.dev.swapping = g.dev.swapping
      /\ e.dev.sbarrier = g.dev.sbarrier /\ e.dev.dump = IF keep THEN g.dev.dump ELSE NoFile
    BY <1>2 DEF IsParted
<1>6. /\ names = [snapshot |-> names.snapshot, old |-> names.old]
      /\ names.snapshot \in Descriptor /\ names.old \in Descriptor
      /\ names.snapshot = NoFile => names.old = NoFile
      /\ names.snapshot # NoFile => names.old # names.snapshot
      /\ IF dev.swapping THEN dev.swap = NoFile \/ dev.swap \notin {names.snapshot, names.old}
         ELSE dev.swap = names.snapshot /\ dev.swap # NoFile
      /\ omap # {} => /\ dev.dump = (IF dev.swapping THEN names.snapshot ELSE names.old)
                      /\ dev.dump # NoFile
    BY <1>1 DEF NamesOk, Running
<1>7. Running' <=> FALSE
    BY <1>2 DEF Running
<1>8. keep => omap # {}
    BY <1>2
<1>9. keep => dev.dump \in Files
    BY <1>6, <1>8 DEF Descriptor
<1>10. NoFile \notin Files
    BY ConstantsAre
<1>11. CASE dev.swapping
    <2>1. names' = [snapshot |-> g.dev.swap, old |-> names.snapshot]
        BY <1>2, <1>4, <1>5, <1>11 DEF Names
    <2>2. g.dev.swap # names.snapshot
        BY <1>3, <1>4, <1>6, <1>10, <1>11
    <2> QED  BY <1>2, <1>3, <1>4, <1>5, <1>6, <1>7, <1>8, <1>9, <1>11, <2>1, <2>2
                DEF Renamed, Become
<1>12. CASE ~dev.swapping
    <2>1. names' = names
        BY <1>2, <1>4, <1>5, <1>12 DEF Names
    <2>2. g.dev.swap = dev.swap /\ dev.swap = names.snapshot /\ names.old # names.snapshot
        BY <1>4, <1>6, <1>12
    <2> QED  BY <1>2, <1>3, <1>4, <1>5, <1>6, <1>7, <1>8, <1>9, <1>12, <2>1, <2>2
                DEF Renamed, Become
<1> QED  BY <1>11, <1>12

LEMMA DumpNames ==
    ASSUME IInv, Running, NEW e, NEW g, NEW pend, NEW keep, NEW S, NEW incr,
           DumpsTo(e, g, pend, keep, S, incr)
    PROVE  NamesOk'
<1>1. Renamed(e, g, keep)
    BY RenamedIs
<1>2. /\ dumping' = << [incr |-> incr, omap |-> pend] >>
      /\ pend = (IF incr THEN omap ELSE {}) /\ keep = (incr /\ omap # {})
    BY DEF DumpsTo
<1>3. Pending' = pend
    BY <1>2 DEF Pending
<1>4. pend # {} => keep
    BY <1>2
<1>5. /\ names'.snapshot \in Files /\ names'.old \in Descriptor /\ names'.old # names'.snapshot
      /\ names' = [snapshot |-> names'.snapshot, old |-> names'.old]
      /\ dev'.swap = names'.snapshot /\ ~Running'
      /\ dev'.dump \in {NoFile, names'.old}
      /\ keep => dev'.dump = names'.old /\ dev'.dump # NoFile
    BY <1>1, ConstantsAre DEF Renamed
<1> QED  BY <1>3, <1>4, <1>5, ConstantsAre DEF NamesOk, Descriptor

LEMMA DumpSound ==
    ASSUME IInv, Running, NEW e, NEW g, NEW pend, NEW keep, NEW S, NEW incr,
           DumpsTo(e, g, pend, keep, S, incr)
    PROVE  Sound(e, pend, value, converted) /\ Now' = e /\ dev'.ssectors <= MaxIndex
<1>1. Renamed(e, g, keep)
    BY RenamedIs
<1>2. /\ Ready(g, pend) /\ IsParted(e, g, keep, S) /\ Become(e)
      /\ S = {names'.snapshot, names'.old, e.dev.dump}
      /\ pend = (IF incr THEN omap ELSE {}) /\ keep = (incr /\ omap # {})
    BY DEF DumpsTo, Dumped
<1>3. /\ Stands(g, pend, value, converted, DumpOf)
      /\ g.mem = [b \in Blocks |-> << >>] /\ g.mod = [b \in Blocks |-> "no"]
    BY <1>2 DEF Ready
<1>4. omap \subseteq Blocks
    BY DEF IInv
<1>5. \A b \in pend : keep /\ DumpOf[b] = g.dev.dump /\ g.dev.dump \in S
    BY <1>1, <1>2, <1>4 DEF DumpOf, Renamed
<1>6. g.dev.swap \in S
    BY <1>1, <1>2 DEF Renamed
<1>7. e = Parted(g, keep, S)
    BY DEF DumpsTo
<1>8. e \in State /\ Sound(e, pend, value, converted)
    BY <1>3, <1>5, <1>6, <1>7, LeftSound
<1> QED  BY <1>2, <1>8, BecomeIs

LEMMA DumpFlushed ==
    ASSUME IInv, Running, NEW e, NEW g, NEW pend, NEW keep, NEW S, NEW incr,
           DumpsTo(e, g, pend, keep, S, incr)
    PROVE  Flushed'
<1>1. Renamed(e, g, keep)
    BY RenamedIs
<1>2. /\ Dumped(g, pend) /\ Ready(g, pend) /\ IsParted(e, g, keep, S)
      /\ S = {names'.snapshot, names'.old, e.dev.dump}
      /\ dumping' = << [incr |-> incr, omap |-> pend] >>
      /\ omap' = (IF incr THEN omap ELSE {b \in Blocks : e.vec[b] # << >>})
      /\ converted' = (converted \/ ~incr)
      /\ e.dev.ssectors + Extent(e.dev) <= MaxIndex
      /\ incr \in BOOLEAN /\ pend = (IF incr THEN omap ELSE {})
    BY DEF DumpsTo, Dumped
<1>3. /\ Head(dumping').incr = incr /\ Head(dumping').omap = pend
      /\ dumping' = << [incr |-> Head(dumping').incr, omap |-> Head(dumping').omap] >>
    <2> DEFINE h == [incr |-> incr, omap |-> pend]
    <2>1. h.incr = incr /\ h.omap = pend /\ h = [incr |-> h.incr, omap |-> h.omap]
        OBVIOUS
    <2>2. dumping' = << h >>
        BY <1>2
    <2> HIDE DEF h
    <2>3. Head(dumping') = h
        BY <2>2
    <2> QED  BY <2>1, <2>2, <2>3
<1>4. mem' = [b \in Blocks |-> << >>] /\ mod' = [b \in Blocks |-> "no"]
    BY <1>1, <1>2 DEF Ready, IsParted, Renamed
<1>5. \A i \in ToSet(dev'.order) : ~dev'.slot[i].dirty
    <2>1. g.dev.order \in Seq(Slots)
        BY <1>2, DeviceFields DEF Ready, Stands, AllOk, State
    <2>2. ToSet(g.dev.order) \subseteq Slots
        BY <2>1, ToSetIs
    <2>3. \A i \in Slots : ~g.dev.slot[i].dirty
        BY <1>2 DEF Dumped
    <2>4. dev'.order = g.dev.order /\ dev'.slot = g.dev.slot
        BY <1>1, <1>2 DEF Renamed, IsParted
    <2> QED  BY <2>2, <2>3, <2>4
<1>6. ReadAt(disk', dev'.swap, dev'.ssectors) = MapSector
    <2>1. /\ ReadAt(g.disk, g.dev.swap, g.dev.ssectors) = MapSector /\ g.disk \in Disk
          /\ e.disk = Remaining(g.disk, S) /\ e.dev.ssectors = g.dev.ssectors
        BY <1>2 DEF Dumped, IsParted, Ready, Stands, AllOk, State
    <2>2. g.dev.swap \in S /\ dev' = e.dev /\ disk' = e.disk /\ e.dev.swap = g.dev.swap
        BY <1>1, <1>2 DEF Renamed
    <2>3. ReadAt(e.disk, g.dev.swap, g.dev.ssectors) = ReadAt(g.disk, g.dev.swap, g.dev.ssectors)
        BY <2>1, <2>2, RemainingReads
    <2> QED  BY <2>1, <2>2, <2>3
<1>7. dev'.ssectors + Extent(dev') <= MaxIndex
    BY <1>1, <1>2 DEF Renamed
<1>8. IF incr THEN omap' = pend
      ELSE pend = {} /\ omap' = {b \in Blocks : vec'[b] # << >>} /\ converted'
    BY <1>1, <1>2 DEF Renamed
<1> QED  BY <1>2, <1>3, <1>4, <1>5, <1>6, <1>7, <1>8 DEF Flushed

LEMMA DumpImage ==
    ASSUME IInv, Running, NEW e, NEW g, NEW pend, NEW keep, NEW S, NEW incr,
           DumpsTo(e, g, pend, keep, S, incr), NEW s, ImageOk(s)
    PROVE  ImageOk(s)'
<1>1. Renamed(e, g, keep) /\ NamesOk
    BY RenamedIs DEF IInv
<1>2. /\ Ready(g, pend) /\ IsParted(e, g, keep, S) /\ S = {names'.snapshot, names'.old, e.dev.dump}
    BY DEF DumpsTo, Dumped
<1>3. /\ s.file = names.snapshot /\ s.secondary \in {NoFile, names.old} /\ s.file \in Files
      /\ s.omap # {} => s.secondary # NoFile
      /\ dev.swap = s.file =>
             s.at < dev.sbarrier /\ \A t \in Held(s.vec, Blocks \ s.omap) : s.map[t] < dev.sbarrier
    BY DEF ImageOk, Running
<1>4. Kept(s)
    <2>1. names.snapshot # NoFile
        BY <1>3, ConstantsAre
    <2> QED  BY <1>3 DEF Kept
<1>5. dev'.swap = s.file =>
          s.at < dev'.sbarrier /\ \A t \in Held(s.vec, Blocks \ s.omap) : s.map[t] < dev'.sbarrier
    BY <1>1, <1>3 DEF Renamed
<1>6. IF Running' \/ ~dev'.swapping
      THEN s.file = names'.snapshot /\ s.secondary \in {NoFile, names'.old}
      ELSE s.file = names'.old
    BY <1>1, <1>3 DEF Renamed
<1>7. Kept(s)' => HasAll(s, disk')
    <2> SUFFICES ASSUME Kept(s)' PROVE HasAll(s, disk')
        OBVIOUS
    <2>1. /\ s.file \in {names'.snapshot, names'.old}
          /\ s.secondary = NoFile \/ s.secondary = names'.old
        BY DEF Kept
    <2>2. s.file \in S /\ (s.omap # {} => s.secondary \in S)
        BY <1>2, <1>3, <2>1
    <2>3. SameReads(s, g.disk, disk)
        BY <1>1, <1>2, <1>4, ImageSame DEF Ready
    <2>4. HasAll(s, disk)
        BY <1>4 DEF ImageOk, HasAll
    <2>5. \A f \in S : \A i : ReadAt(disk', f, i) = ReadAt(g.disk, f, i)
        <3>1. g.disk \in Disk /\ e.disk = Remaining(g.disk, S) /\ disk' = e.disk
            BY <1>1, <1>2 DEF Renamed, IsParted, Ready, Stands, AllOk, State
        <3> QED  BY <3>1, RemainingReads
    <2> QED  BY <2>2, <2>3, <2>4, <2>5 DEF SameReads, HasAll
<1> QED  BY <1>5, <1>6, <1>7 DEF ImageOk, HasAll

LEMMA DumpStartStep ==
    ASSUME IInv, NEW incr \in BOOLEAN, DumpStart(incr)
    PROVE  IInv'
<1>1. PICK e, g, pend, keep, S : DumpsTo(e, g, pend, keep, S, incr)
    BY DumpStartIs
<1>2. Running /\ UNCHANGED << image, value >>
    BY DEF DumpStart
<1>3. /\ dumping' = << [incr |-> incr, omap |-> pend] >>
      /\ pend = (IF incr THEN omap ELSE {}) /\ e.vec \in [Blocks -> Seq(Sectors)]
      /\ omap' = (IF incr THEN omap ELSE {b \in Blocks : e.vec[b] # << >>})
      /\ converted' = (converted \/ ~incr)
    BY <1>1 DEF DumpsTo, IsParted, State
<1>4. /\ Sound(e, pend, value, converted) /\ Now' = e /\ dev'.ssectors <= MaxIndex
      /\ NamesOk' /\ Flushed'
    BY <1>1, <1>2, DumpSound, DumpNames, DumpFlushed
<1>5. Pending' = pend /\ omap' \subseteq Blocks /\ pend \subseteq Blocks
    BY <1>3 DEF Pending, IInv
<1>6. Sound(Now, Pending, value, converted)'
    <2>1. Sound(e, pend, value, converted')
        BY <1>3, <1>4 DEF Sound, PendingOk
    <2> QED  BY <1>2, <1>4, <1>5, <2>1
<1>7. image' # << >> => image' = << image'[1] >> /\ ImageOk(image[1])'
    <2> SUFFICES ASSUME image # << >> PROVE image' = << image'[1] >> /\ ImageOk(image[1])'
        BY <1>2
    <2>1. image = << image[1] >> /\ ImageOk(image[1])
        BY DEF IInv
    <2>2. PICK s : s = image[1]
        OBVIOUS
    <2>3. ImageOk(s)'
        BY <1>1, <1>2, <2>1, <2>2, DumpImage
    <2>4. image' = << s >> /\ image' = << image'[1] >>
        BY <1>2, <2>1, <2>2
    <2>5. ImageOk(image[1])'
        BY <2>3, <2>4
    <2> QED  BY <2>4, <2>5
<1>8. value' \in [Blocks -> Value \cup {NoValue}]
    BY <1>2 DEF IInv
<1> QED  BY <1>3, <1>4, <1>5, <1>6, <1>7, <1>8 DEF IInv

---------------------------------------------------------------------------
(* sw_dump2()                                                              *)

Seen(pend, b) == IF b \in pend THEN dev.dump ELSE dev.swap

(* Block b is in a file, below place n.                                    *)
FiledIn(d, f, b, x, n) ==
    /\ Len(d.vec[b]) = x.n
    /\ \A k \in 1 .. x.n : /\ HasIn(d, f, d.vec[b][k], Content(b, k, x))
                           /\ PlaceOf(d.dev, d.vec[b][k]) \in Nat
                           /\ PlaceOf(d.dev, d.vec[b][k]) < n

(* What is known of a snapshot that is being written.                      *)
Writing(pend, incr) ==
    /\ dumping = << [incr |-> incr, omap |-> pend] >> /\ Head(dumping).omap = pend
    /\ Head(dumping).incr = incr /\ incr \in BOOLEAN /\ pend \in SUBSET Blocks /\ ~Running
    /\ mem = [b \in Blocks |-> << >>] /\ mod = [b \in Blocks |-> "no"]
    /\ \A i \in ToSet(dev.order) : ~dev.slot[i].dirty
    /\ ReadAt(disk, dev.swap, dev.ssectors) = MapSector
    /\ dev.ssectors + Extent(dev) <= MaxIndex
    /\ IF incr THEN omap = pend
       ELSE pend = {} /\ omap = {b \in Blocks : vec[b] # << >>} /\ converted
    /\ Sound(Now, pend, value, converted) /\ value \in [Blocks -> AnyValue]
    /\ dev.swap = names.snapshot /\ dev.swap \in Files /\ dev.dump \in {NoFile, names.old}
    /\ names.old # names.snapshot /\ names.old \in Descriptor
    /\ names = [snapshot |-> names.snapshot, old |-> names.old]
    /\ pend # {} => dev.dump = names.old /\ names.old # NoFile

LEMMA WritingIs ==
    ASSUME IInv, dumping # << >>
    PROVE  Writing(Head(dumping).omap, Head(dumping).incr)
<1> DEFINE pend == Head(dumping).omap
           incr == Head(dumping).incr
<1>1. Flushed /\ NamesOk /\ ~Running /\ Pending = pend
    BY DEF IInv, Running, Pending
<1>2. /\ dumping = << [incr |-> incr, omap |-> pend] >> /\ incr \in BOOLEAN
      /\ mem = [b \in Blocks |-> << >>] /\ mod = [b \in Blocks |-> "no"]
      /\ \A i \in ToSet(dev.order) : ~dev.slot[i].dirty
      /\ ReadAt(disk, dev.swap, dev.ssectors) = MapSector
      /\ dev.ssectors + Extent(dev) <= MaxIndex
      /\ IF incr THEN omap = pend
         ELSE pend = {} /\ omap = {b \in Blocks : vec[b] # << >>} /\ converted
    BY <1>1 DEF Flushed
<1>3. /\ Sound(Now, pend, value, converted) /\ value \in [Blocks -> AnyValue]
      /\ pend \in SUBSET Blocks
    BY <1>1 DEF IInv, AnyValue
<1>4. Head(dumping).omap = pend /\ Head(dumping).incr = incr
    OBVIOUS
<1> HIDE DEF pend, incr
<1>5. /\ dev.swap = names.snapshot /\ dev.swap \in Files /\ dev.dump \in {NoFile, names.old}
      /\ names.old # names.snapshot /\ names.old \in Descriptor
      /\ names = [snapshot |-> names.snapshot, old |-> names.old]
      /\ pend # {} => dev.dump = names.old /\ names.old # NoFile
    BY <1>1 DEF NamesOk, Descriptor
<1>6. Writing(pend, incr)
    BY <1>1, <1>2, <1>3, <1>4, <1>5 DEF Writing
<1> QED  BY <1>6 DEF pend, incr

LEMMA AllFiled ==
    ASSUME NEW pend, NEW incr, Writing(pend, incr), NEW b \in Blocks
    PROVE  /\ FiledIn(Now, Seen(pend, b), b, value[b],
                      IF b \in pend THEN MaxIndex ELSE dev.ssectors)
           /\ b \in pend => value[b].n > 0
<1> DEFINE H == Held(vec, Blocks)
           P == Held(vec, pend)
           x == value[b]
<1>1. /\ Now \in State /\ Apart(vec) /\ Cache(dev, H) /\ Places(dev, H, P) /\ pend \subseteq Blocks
      /\ \A a \in pend : PendingOk(Now, a, value[a], converted)
      /\ \A a \in Blocks \ pend : BlockOk(Now, a, value[a])
      /\ x \in AnyValue
    BY NowIs DEF Writing, Sound
<1>2. x.n \in Nat
    BY <1>1, ValueIs
<1>3. vec \in [Blocks -> Seq(Sectors)] /\ dev \in Device
    BY <1>1, NowIs DEF State
<1>4. \A k \in 1 .. Len(vec[b]) : vec[b][k] \in Sectors /\ vec[b][k] \in ToSet(vec[b])
    BY <1>3, ToSetIs
<1>5. \A t \in Sectors : PlaceOf(dev, t) \in Place
    BY <1>3, DeviceFields DEF PlaceOf, InSlot
<1>6. CASE b \in pend
    <2>1. /\ x.n > 0 /\ Len(vec[b]) = x.n
          /\ \A k \in 1 .. x.n : HasIn(Now, dev.dump, vec[b][k], Content(b, k, x))
        BY <1>1, <1>6, NowIs DEF PendingOk
    <2>2. \A k \in 1 .. x.n : /\ PlaceOf(dev, vec[b][k]) \in Nat
                              /\ PlaceOf(dev, vec[b][k]) < MaxIndex
        <3> TAKE k \in 1 .. x.n
        <3>1. PlaceOf(dev, vec[b][k]) # UNUSED
            BY <2>1, NowIs DEF HasIn, Filed
        <3>2. vec[b][k] \in P /\ vec[b][k] \in Sectors
            BY <1>4, <1>6, <2>1 DEF Held
        <3>3. PlaceOf(dev, vec[b][k]) < MaxIndex
            BY <1>1, <3>2 DEF Places
        <3> QED  BY <1>5, <3>1, <3>2, <3>3 DEF Place
    <2> QED  BY <1>6, <2>1, <2>2, NowIs DEF FiledIn, Seen
<1>7. CASE b \notin pend
    <2>1. BlockOk(Now, b, x) /\ Now.mod[b] = "no"
        BY <1>1, <1>7, NowIs DEF Writing
    <2>2. /\ Len(vec[b]) = x.n
          /\ \A k \in 1 .. x.n : Has(Now, vec[b][k], Content(b, k, x))
        BY <2>1, NowIs DEF BlockOk
    <2>3. ASSUME NEW k \in 1 .. x.n
          PROVE  /\ HasIn(Now, dev.swap, vec[b][k], Content(b, k, x))
                 /\ PlaceOf(dev, vec[b][k]) \in Nat /\ PlaceOf(dev, vec[b][k]) < dev.ssectors
        <3> DEFINE t == vec[b][k]
                   c == Content(b, k, x)
        <3>1. /\ t \in Sectors /\ t \in ToSet(vec[b]) /\ Has(Now, t, c)
            BY <1>4, <2>2
        <3>2. t \in H /\ t \notin P
            BY <1>1, <1>7, <3>1 DEF Held, Apart
        <3> HIDE DEF t, c
        <3>3. InSlot(dev, t) => ~dev.slot[dev.map[t]].dirty
            <4> SUFFICES ASSUME InSlot(dev, t) PROVE ~dev.slot[dev.map[t]].dirty
                OBVIOUS
            <4>1. dev.map[t] \in Slots /\ dev.slot[dev.map[t]].sec = t
                BY DEF InSlot
            <4>2. dev.map[t] \in ToSet(dev.order)
                BY <1>1, <3>1, <4>1, ConstantsAre DEF Cache
            <4> QED  BY <4>2 DEF Writing
        <3>4. HasIn(Now, dev.swap, t, c)
            BY <3>1, <3>3, NowIs DEF Has, HasIn, PlaceOf
        <3>5. PlaceOf(dev, t) # UNUSED
            BY <3>4, NowIs DEF HasIn, Filed
        <3>6. PlaceOf(dev, t) < dev.ssectors
            BY <1>1, <3>2 DEF Places
        <3>7. PlaceOf(dev, t) \in Nat
            BY <1>5, <3>1, <3>5 DEF Place
        <3> QED  BY <3>4, <3>6, <3>7 DEF t, c
    <2> QED  BY <1>7, <2>2, <2>3, NowIs DEF FiledIn, Seen
<1> QED  BY <1>6, <1>7

(* The rest of the snapshot is written.                                    *)
EndDisk ==
    IF dev.swapping THEN disk
    ELSE [disk EXCEPT ![dev.swap] = Written(@, dev.ssectors + 1, MapSector)]

End(incr) ==
    [dev |-> SwDump2(dev, incr), disk |-> EndDisk, vec |-> vec, mem |-> mem, mod |-> mod]

LEMMA EndReads ==
    ASSUME NEW pend, NEW incr, Writing(pend, incr)
    PROVE  /\ EndDisk \in Disk
           /\ \A f, i : f # dev.swap => ReadAt(EndDisk, f, i) = ReadAt(disk, f, i)
           /\ \A i \in Nat : i <= dev.ssectors =>
                 ReadAt(EndDisk, dev.swap, i) = ReadAt(disk, dev.swap, i)
<1>1. /\ disk \in Disk /\ dev \in Device /\ dev.ssectors \in Nat /\ dev.swap \in Files
    BY NowIs, DeviceFields DEF Writing, Sound, State
<1>2. CASE dev.swapping
    BY <1>1, <1>2 DEF EndDisk
<1>3. CASE ~dev.swapping
    <2> DEFINE i == dev.ssectors + 1
               l == [disk EXCEPT ![dev.swap] = Written(@, i, MapSector)]
    <2>1. EndDisk = l
        BY <1>3 DEF EndDisk
    <2>2. i \in Nat /\ \A j \in Nat : j <= dev.ssectors => j # i
        BY <1>1
    <2> HIDE DEF i
    <2>3. /\ l = [g \in Files |-> l[g]] /\ l[dev.swap] = Written(disk[dev.swap], i, MapSector)
          /\ \A g \in Files : g # dev.swap => l[g] = disk[g]
        BY <1>1, DiskIs
    <2> HIDE DEF l
    <2>4. WritesTo(l, disk, dev.swap, i, MapSector)
        BY <1>1, <2>2, <2>3, ConstantsAre, WritesToIs
    <2> QED  BY <2>1, <2>2, <2>4 DEF ReadAt, WritesTo
<1> QED  BY <1>2, <1>3

EndIs(e, incr) ==
    /\ e \in State /\ e.disk = EndDisk /\ e.vec = vec /\ e.mem = mem /\ e.mod = mod
    /\ e.dev.map = dev.map /\ e.dev.slot = dev.slot /\ e.dev.order = dev.order
    /\ e.dev.lfree = dev.lfree /\ e.dev.nsectors = dev.nsectors /\ e.dev.mfree = dev.mfree
    /\ e.dev.sfree = << >>
    /\ IF incr
       THEN /\ e.dev.ssectors = dev.ssectors + Extent(dev) /\ e.dev.sbarrier = e.dev.ssectors
            /\ ~e.dev.swapping /\ e.dev.swap = dev.swap /\ e.dev.dump = dev.dump
       ELSE /\ e.dev.ssectors = 0 /\ e.dev.sbarrier = 0
            /\ e.dev.swapping /\ e.dev.swap = NoFile /\ e.dev.dump = dev.swap

LEMMA EndFields ==
    ASSUME NEW pend, NEW incr, Writing(pend, incr), NEW e, e = End(incr)
    PROVE  EndIs(e, incr)
<1> DEFINE v == SwDump2(dev, incr)
           end == dev.ssectors + Extent(dev)
<1>1. /\ dev \in Device /\ vec \in [Blocks -> Seq(Sectors)] /\ mem \in [Blocks -> Seq(Data)]
      /\ mod \in [Blocks -> {"no", "var", "all"}] /\ EndDisk \in Disk /\ incr \in BOOLEAN
    BY NowIs, EndReads DEF Writing, Sound, State
<1>2. end \in Nat
    BY <1>1, DeviceFields DEF Extent
<1>3. dev.swap \in Descriptor /\ NoFile \in Descriptor /\ << >> \in Seq(Nat)
    BY <1>1, DeviceFields DEF Descriptor
<1>4. CASE incr
    <2>1. v = [dev EXCEPT !.ssectors = end, !.sbarrier = end, !.sfree = << >>, !.swapping = FALSE]
        BY <1>4 DEF SwDump2
    <2> HIDE DEF end
    <2>2. /\ v \in Device /\ v.map = dev.map /\ v.slot = dev.slot /\ v.order = dev.order
          /\ v.lfree = dev.lfree /\ v.nsectors = dev.nsectors /\ v.mfree = dev.mfree
          /\ v.sfree = << >> /\ v.ssectors = end /\ v.sbarrier = end /\ v.swapping = FALSE
          /\ v.swap = dev.swap /\ v.dump = dev.dump
        BY <1>1, <1>2, <1>3, <2>1 DEF Device
    <2> HIDE DEF v
    <2>3. e = [dev |-> v, disk |-> EndDisk, vec |-> vec, mem |-> mem, mod |-> mod]
        BY DEF End, v
    <2>4. e \in State
        BY <1>1, <2>2, <2>3 DEF State
    <2>5. e.dev = v /\ e.disk = EndDisk /\ e.vec = vec /\ e.mem = mem /\ e.mod = mod
        BY <2>3
    <2> QED  BY <1>4, <2>2, <2>4, <2>5 DEF EndIs, end
<1>5. CASE ~incr
    <2>1. v = [dev EXCEPT !.dump = dev.swap, !.swap = NoFile, !.ssectors = 0, !.sbarrier = 0,
                          !.sfree = << >>, !.swapping = TRUE]
        BY <1>5 DEF SwDump2
    <2>2. /\ v \in Device /\ v.map = dev.map /\ v.slot = dev.slot /\ v.order = dev.order
          /\ v.lfree = dev.lfree /\ v.nsectors = dev.nsectors /\ v.mfree = dev.mfree
          /\ v.sfree = << >> /\ v.ssectors = 0 /\ v.sbarrier = 0 /\ v.swapping = TRUE
          /\ v.swap = NoFile /\ v.dump = dev.swap
        <3> HIDE DEF v
        <3>1. 0 \in Nat /\ TRUE \in BOOLEAN
            OBVIOUS
        <3> DEFINE f == dev.swap
                   q == << >>
        <3>2. f \in Descriptor /\ q \in Seq(Nat) /\ NoFile \in Descriptor
              /\ v = [dev EXCEPT !.dump = f, !.swap = NoFile, !.ssectors = 0, !.sbarrier = 0,
                                 !.sfree = q, !.swapping = TRUE]
            BY <1>3, <2>1
        <3> HIDE DEF f, q
        <3>3. /\ v \in Device /\ v.map = dev.map /\ v.slot = dev.slot /\ v.order = dev.order
              /\ v.lfree = dev.lfree /\ v.nsectors = dev.nsectors /\ v.mfree = dev.mfree
              /\ v.sfree = q /\ v.ssectors = 0 /\ v.sbarrier = 0 /\ v.swapping = TRUE
              /\ v.swap = NoFile /\ v.dump = f
            BY <1>1, <3>1, <3>2 DEF Device
        <3> QED  BY <3>3 DEF f, q
    <2> HIDE DEF v
    <2>3. e = [dev |-> v, disk |-> EndDisk, vec |-> vec, mem |-> mem, mod |-> mod]
        BY DEF End, v
    <2>4. e \in State
        BY <1>1, <2>2, <2>3 DEF State
    <2>5. e.dev = v /\ e.disk = EndDisk /\ e.vec = vec /\ e.mem = mem /\ e.mod = mod
        BY <2>3
    <2> QED  BY <1>5, <2>2, <2>4, <2>5 DEF EndIs
<1> QED  BY <1>1, <1>4, <1>5

LEMMA EndFiled ==
    ASSUME NEW pend, NEW incr, Writing(pend, incr), NEW e, EndIs(e, incr), NEW b \in Blocks
    PROVE  FiledIn(e, Seen(pend, b), b, value[b], IF b \in pend THEN MaxIndex ELSE dev.ssectors)
<1> DEFINE f == Seen(pend, b)
           n == IF b \in pend THEN MaxIndex ELSE dev.ssectors
           x == value[b]
<1>1. FiledIn(Now, f, b, x, n)
    BY AllFiled
<1>2. /\ \A t : InSlot(e.dev, t) <=> InSlot(dev, t)
      /\ \A t : PlaceOf(e.dev, t) = PlaceOf(dev, t)
      /\ e.vec = vec /\ e.dev.slot = dev.slot /\ e.dev.map = dev.map /\ e.disk = EndDisk
    BY DEF EndIs, InSlot, PlaceOf
<1>3. \A i \in Nat : i < n => ReadAt(e.disk, f, i) = ReadAt(disk, f, i)
    <2>1. dev.ssectors \in Nat
        BY NowIs, DeviceFields DEF Writing, Sound, State
    <2>2. CASE b \in pend
        <3>1. f # dev.swap
            BY <2>2 DEF Seen, Writing
        <3> QED  BY <1>2, <3>1, EndReads
    <2>3. CASE b \notin pend
        <3>1. f = dev.swap /\ n = dev.ssectors
            BY <2>3 DEF Seen
        <3> HIDE DEF f, n
        <3> QED  BY <1>2, <2>1, <3>1, EndReads
    <2> QED  BY <2>2, <2>3
<1> HIDE DEF f, n, x
<1>4. Len(vec[b]) = x.n
    BY <1>1, NowIs DEF FiledIn
<1>5. ASSUME NEW k \in 1 .. x.n
      PROVE  /\ HasIn(e, f, vec[b][k], Content(b, k, x))
             /\ PlaceOf(dev, vec[b][k]) \in Nat /\ PlaceOf(dev, vec[b][k]) < n
    <2>1. /\ HasIn(Now, f, vec[b][k], Content(b, k, x))
          /\ PlaceOf(dev, vec[b][k]) \in Nat /\ PlaceOf(dev, vec[b][k]) < n
        BY <1>1, NowIs DEF FiledIn
    <2> QED  BY <1>2, <1>3, <2>1, NowIs DEF HasIn, Filed
<1>6. FiledIn(e, f, b, x, n)
    BY <1>2, <1>4, <1>5 DEF FiledIn
<1> QED  BY <1>6 DEF f, n, x

(* The blocks are in the snapshot, and are copied from it or stay there.   *)
LEMMA EndSound ==
    ASSUME NEW pend, NEW incr, Writing(pend, incr), NEW e, EndIs(e, incr)
    PROVE  Sound(e, omap, value, converted)
<1> DEFINE H == Held(vec, Blocks)
           P == Held(vec, pend)
<1>1. /\ Apart(vec) /\ Numbers(dev.nsectors, dev.mfree, H) /\ Cache(dev, H) /\ Places(dev, H, P)
      /\ \A a \in pend : PendingOk(Now, a, value[a], converted)
      /\ \A a \in Blocks : value[a] \in AnyValue
      /\ vec \in [Blocks -> Seq(Sectors)] /\ dev \in Device
    BY NowIs DEF Writing, Sound, State
<1>2. /\ e \in State /\ e.vec = vec /\ e.mem = mem /\ e.mod = mod
      /\ e.dev.map = dev.map /\ e.dev.slot = dev.slot /\ e.dev.order = dev.order
      /\ e.dev.lfree = dev.lfree /\ e.dev.nsectors = dev.nsectors /\ e.dev.mfree = dev.mfree
      /\ e.dev.sfree = << >>
    BY DEF EndIs
<1>3. /\ \A t : InSlot(e.dev, t) <=> InSlot(dev, t)
      /\ \A t : PlaceOf(e.dev, t) = PlaceOf(dev, t)
    BY <1>2 DEF InSlot, PlaceOf
<1>4. Cache(e.dev, H)
    BY <1>1, <1>2 DEF Cache
<1>5. \A a \in Blocks : mem[a] = << >> /\ mod[a] = "no"
    BY DEF Writing
<1>6. \A a \in Blocks : value[a].n \in Nat /\ value[a].n <= MaxVec
    BY <1>1, ValueIs
<1>7. /\ \A a \in Blocks : /\ Len(vec[a]) = value[a].n
                           /\ \A k \in 1 .. value[a].n :
                                  HasIn(e, Seen(pend, a), vec[a][k], Content(a, k, value[a]))
      /\ \A a \in pend : value[a].n > 0
    BY <1>2, EndFiled, AllFiled DEF FiledIn, Writing
<1>8. << >> \in Seq(Nat) /\ ToSet(<< >>) = {} /\ IsInjective(<< >>)
    BY EmptyElem
<1>9. dev.ssectors \in Nat /\ Extent(dev) \in {1, 2} /\ dev.ssectors < MaxIndex
    <2>1. dev.ssectors \in Nat /\ Extent(dev) \in {1, 2} /\ dev.ssectors + Extent(dev) <= MaxIndex
        BY <1>1, DeviceFields DEF Writing, Extent
    <2> QED  BY <2>1, ConstantsAre
<1>10. \A a \in Blocks : \A f :
          f = e.dev.swap /\ a \notin omap /\ (value[a].n > 0 => f = Seen(pend, a))
              => BlockOk(e, a, value[a])
    <2> TAKE a \in Blocks
    <2> TAKE f
    <2> HAVE f = e.dev.swap /\ a \notin omap /\ (value[a].n > 0 => f = Seen(pend, a))
    <2>1. \A k \in 1 .. value[a].n : Has(e, vec[a][k], Content(a, k, value[a]))
        <3> TAKE k \in 1 .. value[a].n
        <3>1. value[a].n > 0
            BY <1>6
        <3>2. HasIn(e, e.dev.swap, vec[a][k], Content(a, k, value[a]))
            BY <1>7, <3>1
        <3> QED  BY <3>2 DEF HasIn, Has, PlaceOf
    <2> QED  BY <1>2, <1>5, <1>6, <1>7, <2>1 DEF BlockOk
<1>11. CASE incr
    <2>1. /\ omap = pend /\ e.dev.ssectors = dev.ssectors + Extent(dev)
          /\ e.dev.sbarrier = e.dev.ssectors /\ e.dev.swap = dev.swap /\ e.dev.dump = dev.dump
          /\ dev.swap \in Files
        BY <1>11 DEF Writing, EndIs
    <2>2. Places(e.dev, H, P)
        <3>1. \A s \in H \ P : PlaceOf(dev, s) < dev.ssectors /\ PlaceOf(dev, s) \in Place
            <4>1. \A s \in H : s \in Sectors
                BY <1>1, ToSetIs DEF Held
            <4> QED  BY <1>1, <4>1, DeviceFields DEF Places, PlaceOf, InSlot
        <3>2. \A s \in H \ P : PlaceOf(dev, s) < e.dev.ssectors
            BY <1>9, <2>1, <3>1, ConstantsAre DEF Place
        <3> HIDE DEF H, P
        <3> QED  BY <1>1, <1>2, <1>3, <1>8, <1>9, <2>1, <3>2, ConstantsAre DEF Places
    <2>3. \A a \in pend : PendingOk(e, a, value[a], converted)
        <3> TAKE a \in pend
        <3>1. PendingOk(Now, a, value[a], converted) /\ a \in Blocks
            BY <1>1 DEF Writing
        <3>2. Seen(pend, a) = e.dev.dump
            BY <2>1 DEF Seen
        <3> QED  BY <1>2, <1>3, <1>5, <1>7, <3>1, <3>2, NowIs DEF PendingOk
    <2>4. \A a \in Blocks \ pend : BlockOk(e, a, value[a])
        BY <1>10, <2>1 DEF Seen
    <2> QED  BY <1>1, <1>2, <1>4, <2>1, <2>2, <2>3, <2>4 DEF Sound
<1>12. CASE ~incr
    <2>1. /\ pend = {} /\ omap = {b \in Blocks : vec[b] # << >>} /\ converted
          /\ e.dev.ssectors = 0 /\ e.dev.sbarrier = 0 /\ e.dev.swap = NoFile
          /\ e.dev.dump = dev.swap /\ omap \subseteq Blocks
        BY <1>12 DEF Writing, EndIs
    <2>2. Held(vec, omap) = H
        <3>1. \A a \in Blocks : a \notin omap => ToSet(vec[a]) = {}
            BY <1>8, <2>1
        <3> QED  BY <2>1, <3>1 DEF Held
    <2>3. Places(e.dev, H, H)
        <3>1. ASSUME NEW t \in H
              PROVE  /\ PlaceOf(e.dev, t) < MaxIndex
                     /\ InSlot(e.dev, t) => ~e.dev.slot[e.dev.map[t]].dirty
            <4>1. PICK a \in Blocks : t \in ToSet(vec[a])
                BY DEF Held
            <4>2. PICK k \in 1 .. Len(vec[a]) : vec[a][k] = t
                BY <1>1, <4>1, ToSetIs
            <4>3. FiledIn(e, dev.swap, a, value[a], dev.ssectors)
                BY <2>1, EndFiled DEF Seen
            <4>4. /\ HasIn(e, dev.swap, t, Content(a, k, value[a]))
                  /\ PlaceOf(e.dev, t) \in Nat /\ PlaceOf(e.dev, t) < dev.ssectors
                BY <1>2, <4>2, <4>3 DEF FiledIn
            <4> QED  BY <1>9, <4>4, ConstantsAre DEF HasIn
        <3> HIDE DEF H
        <3> QED  BY <1>2, <1>8, <2>1, <3>1 DEF Places
    <2>4. \A a \in omap : PendingOk(e, a, value[a], converted)
        <3> TAKE a \in omap
        <3>1. a \in Blocks /\ vec[a] # << >> /\ Seen(pend, a) = e.dev.dump
            BY <2>1 DEF Seen
        <3>2. value[a].n > 0
            BY <1>1, <1>7, <3>1
        <3> QED  BY <1>2, <1>5, <1>7, <2>1, <3>1, <3>2 DEF PendingOk
    <2>5. \A a \in Blocks \ omap : BlockOk(e, a, value[a])
        <3> TAKE a \in Blocks \ omap
        <3>1. vec[a] = << >>
            BY <2>1
        <3>2. ~(value[a].n > 0)
            BY <1>7, <3>1, EmptyElem
        <3> QED  BY <1>10, <2>1, <3>2
    <2> QED  BY <1>1, <1>2, <1>4, <2>2, <2>3, <2>4, <2>5 DEF Sound
<1>13. incr \in BOOLEAN
    BY DEF Writing
<1> QED  BY <1>11, <1>12, <1>13

LEMMA ResolvedIs ==
    ASSUME NEW t \in Sectors
    PROVE  Resolved(dev)[t] = PlaceOf(dev, t)
BY DEF Resolved, PlaceOf

LEMMA SnapshotIs ==
    ASSUME NEW pend, NEW s, s = Snapshot(dev, pend)
    PROVE  /\ s = [file |-> s.file, secondary |-> s.secondary, map |-> s.map, at |-> s.at,
                   nsectors |-> s.nsectors, mfree |-> s.mfree, vec |-> s.vec, omap |-> s.omap,
                   value |-> s.value]
           /\ s.file = dev.swap /\ s.secondary = (IF pend = {} THEN NoFile ELSE names.old)
           /\ s.map = Resolved(dev) /\ s.at = dev.ssectors /\ s.nsectors = dev.nsectors
           /\ s.mfree = dev.mfree /\ s.vec = vec /\ s.omap = pend /\ s.value = value
BY DEF Snapshot

(* The snapshot that has been written can be restored.                     *)
LEMMA EndImage ==
    ASSUME NEW pend, NEW incr, Writing(pend, incr), NEW e, EndIs(e, incr),
           NEW s, s = Snapshot(dev, pend), dev' = e.dev, disk' = e.disk, names' = names,
           dumping' = << >>
    PROVE  ImageOk(s)'
<1> DEFINE H == Held(vec, Blocks)
           P == Held(vec, pend)
<1>1. /\ Apart(vec) /\ Numbers(dev.nsectors, dev.mfree, H) /\ Cache(dev, H)
      /\ vec \in [Blocks -> Seq(Sectors)] /\ dev \in Device /\ value \in [Blocks -> AnyValue]
      /\ pend \subseteq Blocks /\ dev.swap \in Files /\ dev.swap = names.snapshot
      /\ names.old \in Descriptor /\ (pend # {} => names.old # NoFile /\ dev.dump = names.old)
    BY NowIs DEF Writing, Sound, State
<1>2. /\ s = [file |-> s.file, secondary |-> s.secondary, map |-> s.map, at |-> s.at,
              nsectors |-> s.nsectors, mfree |-> s.mfree, vec |-> s.vec, omap |-> s.omap,
              value |-> s.value]
      /\ s.file = dev.swap /\ s.secondary = (IF pend = {} THEN NoFile ELSE names.old)
      /\ s.map = Resolved(dev) /\ s.at = dev.ssectors /\ s.nsectors = dev.nsectors
      /\ s.mfree = dev.mfree /\ s.vec = vec /\ s.omap = pend /\ s.value = value
    BY SnapshotIs
<1>3. \A t \in Sectors : s.map[t] = PlaceOf(dev, t)
    BY <1>2, ResolvedIs
<1>4. s.map \in [Sectors -> Place]
    BY <1>1, <1>2, DeviceFields DEF Resolved, InSlot
<1>5. /\ \A b \in Blocks : /\ Len(vec[b]) = value[b].n
                           /\ \A k \in 1 .. value[b].n :
                                  HasIn(e, Seen(pend, b), vec[b][k], Content(b, k, value[b]))
      /\ \A b \in Blocks : \A k \in 1 .. value[b].n :
             /\ PlaceOf(dev, vec[b][k]) \in Nat
             /\ PlaceOf(dev, vec[b][k]) < IF b \in pend THEN MaxIndex ELSE dev.ssectors
      /\ \A b \in pend : value[b].n > 0
    BY <1>1, NowIs, EndFiled, AllFiled DEF FiledIn, EndIs
<1>6. dev.ssectors \in Nat /\ Extent(dev) \in {1, 2} /\ dev.ssectors < MaxIndex
    <2>1. dev.ssectors \in Nat /\ Extent(dev) \in {1, 2} /\ dev.ssectors + Extent(dev) <= MaxIndex
        BY <1>1, DeviceFields DEF Writing, Extent
    <2> QED  BY <2>1, ConstantsAre
<1>7. \A b \in Blocks : \A t \in ToSet(vec[b]) :
          t \in Sectors /\ \E k \in 1 .. value[b].n : vec[b][k] = t
    BY <1>1, <1>5, ToSetIs
<1>8. \A t \in Sectors : IF t \in H THEN s.map[t] # UNUSED /\ s.map[t] < MaxIndex
                         ELSE s.map[t] = UNUSED
    <2> TAKE t \in Sectors
    <2>1. CASE t \in H
        <3>1. PICK b \in Blocks : t \in ToSet(vec[b])
            BY <2>1 DEF Held
        <3>2. PICK k \in 1 .. value[b].n : vec[b][k] = t
            BY <1>7, <3>1
        <3>3. /\ PlaceOf(dev, t) \in Nat
              /\ PlaceOf(dev, t) < IF b \in pend THEN MaxIndex ELSE dev.ssectors
            BY <1>5, <3>2
        <3>4. PlaceOf(dev, t) < MaxIndex
            BY <1>6, <3>3, ConstantsAre
        <3> QED  BY <1>3, <2>1, <3>3, <3>4, ConstantsAre
    <2>2. CASE t \notin H
        <3>1. dev.map[t] = UNUSED
            BY <1>1, <2>2 DEF Cache
        <3> QED  BY <1>3, <2>2, <3>1, ConstantsAre DEF PlaceOf, InSlot
    <2> QED  BY <2>1, <2>2
<1>9. dev'.swap = s.file =>
          s.at < dev'.sbarrier /\ \A t \in Held(s.vec, Blocks \ s.omap) : s.map[t] < dev'.sbarrier
    <2> SUFFICES ASSUME e.dev.swap = dev.swap
                 PROVE  dev.ssectors < e.dev.sbarrier /\
                        \A t \in Held(vec, Blocks \ pend) : s.map[t] < e.dev.sbarrier
        BY <1>2
    <2>1. e.dev.sbarrier = dev.ssectors + Extent(dev)
        BY <1>1, ConstantsAre DEF EndIs
    <2>2. ASSUME NEW t \in Held(vec, Blocks \ pend)
          PROVE  s.map[t] \in Nat /\ s.map[t] < dev.ssectors
        <3>1. PICK b \in Blocks \ pend : t \in ToSet(vec[b])
            BY DEF Held
        <3>2. PICK k \in 1 .. value[b].n : vec[b][k] = t
            BY <1>7, <3>1
        <3> QED  BY <1>3, <1>5, <1>7, <3>1, <3>2
    <2>3. dev.ssectors < e.dev.sbarrier /\ e.dev.sbarrier \in Nat
        BY <1>6, <2>1
    <2>4. \A t \in Held(vec, Blocks \ pend) : s.map[t] < e.dev.sbarrier
        BY <1>6, <2>2, <2>3
    <2> QED  BY <2>3, <2>4
<1>10. s.file = names'.snapshot /\ s.secondary \in {NoFile, names'.old} /\ Running'
    BY <1>1, <1>2 DEF Running
<1>11. HasAll(s, disk')
    <2>1. ReadAt(disk', s.file, s.at) = MapSector
        BY <1>2, <1>6, EndReads DEF Writing, EndIs
    <2>2. ASSUME NEW b \in Blocks, NEW k \in DOMAIN s.vec[b]
          PROVE  ReadAt(disk', IF b \in s.omap THEN s.secondary ELSE s.file, s.map[s.vec[b][k]])
                     = Content(b, k, s.value[b])
        <3>1. k \in 1 .. value[b].n /\ vec[b][k] \in Sectors
            BY <1>1, <1>2, <1>5, ToSetIs
        <3>2. HasIn(e, Seen(pend, b), vec[b][k], Content(b, k, value[b]))
            BY <1>5, <3>1
        <3>3. (IF b \in s.omap THEN s.secondary ELSE s.file) = Seen(pend, b)
            BY <1>1, <1>2 DEF Seen
        <3>4. PlaceOf(e.dev, vec[b][k]) = PlaceOf(dev, vec[b][k])
            BY DEF EndIs, PlaceOf, InSlot
        <3> QED  BY <1>2, <1>3, <3>1, <3>2, <3>3, <3>4 DEF HasIn, Filed
    <2> QED  BY <2>1, <2>2 DEF HasAll
<1>12. s.nsectors \in Nat /\ s.mfree \in Seq(Sectors) /\ s.at \in Nat
    BY <1>1, <1>2, DeviceFields
<1>13. s.omap # {} => s.secondary # NoFile
    BY <1>1, <1>2
<1>14. s.file \in Files /\ s.secondary \in Descriptor /\ s.omap \subseteq Blocks
    BY <1>1, <1>2 DEF Descriptor
<1>15. /\ s.vec \in [Blocks -> Seq(Sectors)] /\ s.value \in [Blocks -> Value \cup {NoValue}]
       /\ Apart(s.vec) /\ Numbers(s.nsectors, s.mfree, Held(s.vec, Blocks))
       /\ \A b \in Blocks : Len(s.vec[b]) = s.value[b].n
       /\ \A b \in s.omap : s.value[b].n > 0
    BY <1>1, <1>2, <1>5 DEF AnyValue
<1>16. \A t \in Sectors : IF t \in Held(s.vec, Blocks) THEN s.map[t] # UNUSED /\ s.map[t] < MaxIndex
                          ELSE s.map[t] = UNUSED
    BY <1>2, <1>8
<1> HIDE DEF H, P
<1> QED  BY <1>2, <1>4, <1>9, <1>10, <1>11, <1>12, <1>13, <1>14, <1>15, <1>16 DEF ImageOk, HasAll

LEMMA EndNames ==
    ASSUME NEW pend, NEW incr, Writing(pend, incr), NEW e, EndIs(e, incr),
           dev' = e.dev, names' = names, dumping' = << >>, omap' = omap
    PROVE  NamesOk'
<1>1. /\ dev.swap = names.snapshot /\ dev.swap \in Files /\ dev.dump \in {NoFile, names.old}
      /\ names.old # names.snapshot /\ names.old \in Descriptor
      /\ names = [snapshot |-> names.snapshot, old |-> names.old]
      /\ pend # {} => dev.dump = names.old /\ names.old # NoFile
    BY DEF Writing
<1>2. Running' /\ Pending' = omap
    BY DEF Running, Pending
<1>3. CASE incr
    <2>1. /\ ~dev'.swapping /\ dev'.swap = dev.swap /\ dev'.dump = dev.dump /\ omap = pend
        BY <1>3 DEF EndIs, Writing
    <2> QED  BY <1>1, <1>2, <2>1, ConstantsAre DEF NamesOk, Descriptor
<1>4. CASE ~incr
    <2>1. dev'.swapping /\ dev'.swap = NoFile /\ dev'.dump = dev.swap
        BY <1>4 DEF EndIs
    <2> QED  BY <1>1, <1>2, <2>1, ConstantsAre DEF NamesOk, Descriptor
<1> QED  BY <1>3, <1>4 DEF Writing

LEMMA DumpFinishStep ==
    ASSUME IInv, DumpFinish
    PROVE  IInv'
<1> DEFINE pend == Head(dumping).omap
           incr == Head(dumping).incr
           e == End(incr)
           s == Snapshot(dev, pend)
<1>1. /\ dumping # << >> /\ image' = << s >> /\ dev' = SwDump2(dev, incr) /\ disk' = EndDisk
      /\ dumping' = << >> /\ UNCHANGED << vec, mem, mod, omap, converted, names, value >>
    BY DEF DumpFinish, EndDisk, block
<1>2. Writing(pend, incr)
    BY <1>1, WritingIs
<1>3. e = End(incr) /\ s = Snapshot(dev, pend)
    OBVIOUS
<1>4. Now' = e
    BY <1>1 DEF Now, End
<1> HIDE DEF pend, incr, e, s
<1>5. EndIs(e, incr)
    BY <1>2, <1>3, EndFields
<1>6. dev' = e.dev /\ disk' = e.disk
    BY <1>1, <1>4, <1>5 DEF Now, EndIs
<1>7. NamesOk'
    BY <1>1, <1>2, <1>5, <1>6, EndNames
<1>8. Sound(e, omap, value, converted)
    BY <1>2, <1>5, EndSound
<1>9. Pending' = omap' /\ omap' \subseteq Blocks /\ Pending' \subseteq Blocks
    BY <1>1 DEF Pending, IInv
<1>10. Sound(Now, Pending, value, converted)'
    BY <1>1, <1>4, <1>8, <1>9
<1>11. dev'.ssectors <= MaxIndex
    <2>1. dev.ssectors + Extent(dev) <= MaxIndex /\ incr \in BOOLEAN
        BY <1>2 DEF Writing
    <2>2. e.dev.ssectors = dev.ssectors + Extent(dev) \/ e.dev.ssectors = 0
        BY <1>5 DEF EndIs
    <2> QED  BY <1>6, <2>1, <2>2, ConstantsAre
<1>12. image' = << image'[1] >> /\ ImageOk(image[1])'
    <2>1. PICK t : t = s
        OBVIOUS
    <2>2. ImageOk(t)'
        BY <1>1, <1>2, <1>3, <1>5, <1>6, <2>1, EndImage
    <2>3. image' = << t >> /\ image' = << image'[1] >>
        BY <1>1, <2>1
    <2> QED  BY <2>2, <2>3
<1>13. value' \in [Blocks -> Value \cup {NoValue}]
    BY <1>1 DEF IInv
<1> QED  BY <1>1, <1>7, <1>9, <1>10, <1>11, <1>12, <1>13 DEF IInv

---------------------------------------------------------------------------
(* conf_restore()                                                          *)

(* The file that has a block.                                              *)
Where(s) == [b \in Blocks |-> IF b \in s.omap THEN s.secondary ELSE s.file]
Saved2(s) == {b \in Blocks : s.vec[b] # << >>}

LEMMA EmptyDeviceIs ==
    /\ EmptyDevice \in Device /\ IsInjective(EmptyDevice.order) /\ IsInjective(EmptyDevice.lfree)
    /\ ToSet(EmptyDevice.order) = {} /\ ToSet(EmptyDevice.lfree) = Slots
    /\ \A i \in Slots : /\ EmptyDevice.slot[i].sec = UNUSED /\ EmptyDevice.slot[i].swap = UNUSED
                        /\ ~EmptyDevice.slot[i].dirty
    /\ EmptyDevice.sfree = << >> /\ EmptyDevice.ssectors = 0 /\ EmptyDevice.sbarrier = 0
    /\ EmptyDevice.swapping /\ EmptyDevice.swap = NoFile /\ EmptyDevice.dump = NoFile
    /\ EmptyDevice.nsectors = 0 /\ EmptyDevice.mfree = << >>
    /\ \A t \in Sectors : EmptyDevice.map[t] = UNUSED
<1> DEFINE l == [i \in 1 .. CACHESIZE |-> i - 1]
           m == [t \in Sectors |-> UNUSED]
           q == [i \in Slots |-> EmptySlot]
           n == << >>
<1>1. EmptyDevice = [map |-> m, nsectors |-> 0, mfree |-> n, slot |-> q, order |-> n,
                     lfree |-> l, sfree |-> n, ssectors |-> 0, sbarrier |-> 0,
                     swapping |-> TRUE, swap |-> NoFile, dump |-> NoFile]
    BY DEF EmptyDevice
<1>2. CACHESIZE \in Nat /\ Slots = 0 .. CACHESIZE - 1
    BY ConstantsAre DEF Slots
<1>3. l \in Seq(Slots) /\ Len(l) = CACHESIZE /\ \A i \in 1 .. Len(l) : l[i] = i - 1
    BY <1>2
<1>4. m \in [Sectors -> Place] /\ \A t \in Sectors : m[t] = UNUSED
    BY DEF Place
<1>5. /\ q \in [Slots -> Slot]
      /\ \A i \in Slots : q[i].sec = UNUSED /\ q[i].swap = UNUSED /\ ~q[i].dirty
    BY ConstantsAre DEF EmptySlot, Slot, Place
<1>6. /\ n \in Seq(Slots) /\ n \in Seq(Nat) /\ n \in Seq(Sectors)
      /\ ToSet(n) = {} /\ IsInjective(n) /\ n = << >>
    BY EmptyElem
<1> HIDE DEF l, n
<1>7. IsInjective(l) /\ ToSet(l) = Slots
    <2>1. \A j, k \in 1 .. Len(l) : l[j] = l[k] => j = k
        BY <1>2, <1>3
    <2>2. \A x \in Slots : x + 1 \in 1 .. Len(l) /\ l[x + 1] = x
        BY <1>2, <1>3
    <2>3. /\ ToSet(l) \subseteq Slots /\ \A x : x \in ToSet(l) <=> \E k \in 1 .. Len(l) : l[k] = x
          /\ IsInjective(l) <=> \A j, k \in 1 .. Len(l) : l[j] = l[k] => j = k
        BY <1>3, ToSetIs
    <2>4. \A x \in Slots : x \in ToSet(l)
        BY <2>2, <2>3
    <2> QED  BY <2>1, <2>3, <2>4
<1> HIDE DEF m, q
<1>8. NoFile \in Descriptor
    BY DEF Descriptor
<1>9. EmptyDevice \in Device
    BY <1>1, <1>3, <1>4, <1>5, <1>6, <1>8 DEF Device
<1> QED  BY <1>1, <1>4, <1>5, <1>6, <1>7, <1>9

LEMMA ShelfIs ==
    ASSUME IInv, NEW s, ImageOk(s), Kept(s)
    PROVE  /\ s.file \in Files /\ s.file \in {names.snapshot, names.old}
           /\ s.secondary # NoFile => /\ s.secondary \in Files /\ s.secondary = names.old
                                      /\ s.file = names.snapshot /\ s.secondary # s.file
           /\ s.omap # {} => s.secondary # NoFile
           /\ s.omap \subseteq Saved2(s) /\ Saved2(s) \subseteq Blocks
           /\ \A b \in Saved2(s) : s.value[b].n > 0
           /\ \A b \in Blocks : b \notin Saved2(s) => s.value[b].n = 0
<1>1. /\ s.file \in Files /\ s.secondary \in Descriptor /\ s.omap \subseteq Blocks
      /\ s.omap # {} => s.secondary # NoFile
      /\ s.vec \in [Blocks -> Seq(Sectors)]
      /\ \A b \in Blocks : Len(s.vec[b]) = s.value[b].n
      /\ \A b \in s.omap : s.value[b].n > 0
    BY DEF ImageOk
<1>2. names.old # NoFile => names.old # names.snapshot
    BY DEF IInv, NamesOk
<1>3. \A b \in Blocks : s.vec[b] = << >> <=> s.value[b].n = 0
    BY <1>1
<1>4. \A b \in Blocks : s.value[b].n \in Nat
    BY <1>1, LenProperties
<1> QED  BY <1>1, <1>2, <1>3, <1>4 DEF Kept, Descriptor, Saved2

StartIs(d, s) ==
    /\ d \in State /\ d.vec = s.vec /\ d.mem = [b \in Blocks |-> << >>]
    /\ d.mod = [b \in Blocks |-> "no"]
    /\ d.dev.map = s.map /\ d.dev.nsectors = s.nsectors /\ d.dev.mfree = s.mfree
    /\ d.dev.dump = s.file /\ d.dev.swap = NoFile /\ d.dev.swapping
    /\ d.dev.ssectors = 0 /\ d.dev.sbarrier = 0 /\ d.dev.sfree = << >>
    /\ IsInjective(d.dev.order) /\ IsInjective(d.dev.lfree)
    /\ ToSet(d.dev.order) = {} /\ ToSet(d.dev.lfree) = Slots
    /\ \A i \in Slots : d.dev.slot[i].sec = UNUSED /\ d.dev.slot[i].swap = UNUSED
    /\ \A f, i : f \in {s.file, s.secondary} => ReadAt(d.disk, f, i) = ReadAt(disk, f, i)

LEMMA RestoredIs ==
    ASSUME IInv, NEW s, ImageOk(s), NEW d, d = Restored(s)
    PROVE  StartIs(d, s)
<1> DEFINE z == EmptyDevice
           v == [z EXCEPT !.map = s.map, !.nsectors = s.nsectors,
                          !.mfree = s.mfree, !.dump = s.file]
           k == Remaining(disk, {s.file, s.secondary})
           m == [b \in Blocks |-> << >>]
           u == [b \in Blocks |-> "no"]
<1>1. d = [dev |-> v, disk |-> k, vec |-> s.vec, mem |-> m, mod |-> u]
    BY DEF Restored
<1>2. /\ z \in Device /\ IsInjective(z.order) /\ IsInjective(z.lfree)
      /\ ToSet(z.order) = {} /\ ToSet(z.lfree) = Slots
      /\ \A i \in Slots : z.slot[i].sec = UNUSED /\ z.slot[i].swap = UNUSED
      /\ z.sfree = << >> /\ z.ssectors = 0 /\ z.sbarrier = 0 /\ z.swapping /\ z.swap = NoFile
    BY EmptyDeviceIs
<1>3. /\ s.file \in Descriptor /\ s.map \in [Sectors -> Place] /\ s.nsectors \in Nat
      /\ s.mfree \in Seq(Sectors) /\ s.vec \in [Blocks -> Seq(Sectors)]
    BY DEF ImageOk, Descriptor
<1> HIDE DEF z
<1>4. /\ v \in Device /\ v.map = s.map /\ v.nsectors = s.nsectors /\ v.mfree = s.mfree
      /\ v.dump = s.file /\ v.order = z.order /\ v.lfree = z.lfree /\ v.slot = z.slot
      /\ v.sfree = z.sfree /\ v.ssectors = z.ssectors /\ v.sbarrier = z.sbarrier
      /\ v.swapping = z.swapping /\ v.swap = z.swap
    BY <1>2, <1>3 DEF Device
<1>5. k \in Disk /\ \A f \in {s.file, s.secondary} : \A i : ReadAt(k, f, i) = ReadAt(disk, f, i)
    <2>1. disk \in Disk
        BY NowIs DEF IInv, Sound, State
    <2> QED  BY <2>1, RemainingReads
<1>6. m \in [Blocks -> Seq(Data)] /\ u \in [Blocks -> {"no", "var", "all"}]
    OBVIOUS
<1> HIDE DEF v, k, m, u
<1>7. d \in State
    BY <1>1, <1>3, <1>4, <1>5, <1>6 DEF State
<1>8. d.dev = v /\ d.disk = k /\ d.vec = s.vec /\ d.mem = m /\ d.mod = u
    BY <1>1
<1>9. d.mem = [b \in Blocks |-> << >>] /\ d.mod = [b \in Blocks |-> "no"]
    BY <1>8 DEF m, u
<1>10. \A f, i : f \in {s.file, s.secondary} => ReadAt(d.disk, f, i) = ReadAt(disk, f, i)
    BY <1>5, <1>8
<1>11. /\ d.dev.map = s.map /\ d.dev.nsectors = s.nsectors /\ d.dev.mfree = s.mfree
       /\ d.dev.dump = s.file /\ d.dev.swap = NoFile /\ d.dev.swapping
       /\ d.dev.ssectors = 0 /\ d.dev.sbarrier = 0 /\ d.dev.sfree = << >>
    BY ONLY <1>2, <1>4, <1>8
<1>12. /\ IsInjective(d.dev.order) /\ IsInjective(d.dev.lfree)
       /\ ToSet(d.dev.order) = {} /\ ToSet(d.dev.lfree) = Slots
       /\ \A i \in Slots : d.dev.slot[i].sec = UNUSED /\ d.dev.slot[i].swap = UNUSED
    BY ONLY <1>2, <1>4, <1>8
<1> QED  BY ONLY <1>7, <1>8, <1>9, <1>10, <1>11, <1>12 DEF StartIs

LEMMA RestoredStands ==
    ASSUME IInv, NEW s, ImageOk(s), Kept(s), NEW d, d = Restored(s)
    PROVE  Stands(d, Saved2(s), s.value, FALSE, Where(s))
<1> DEFINE H == Held(s.vec, Blocks)
           pend == Saved2(s)
<1>1. StartIs(d, s)
    BY RestoredIs
<1>2. /\ d \in State /\ d.vec = s.vec /\ d.mem = [b \in Blocks |-> << >>]
      /\ d.mod = [b \in Blocks |-> "no"]
      /\ d.dev.map = s.map /\ d.dev.nsectors = s.nsectors /\ d.dev.mfree = s.mfree
      /\ d.dev.dump = s.file /\ d.dev.swap = NoFile /\ d.dev.swapping
      /\ d.dev.ssectors = 0 /\ d.dev.sbarrier = 0 /\ d.dev.sfree = << >>
      /\ IsInjective(d.dev.order) /\ IsInjective(d.dev.lfree)
      /\ ToSet(d.dev.order) = {} /\ ToSet(d.dev.lfree) = Slots
      /\ \A i \in Slots : d.dev.slot[i].sec = UNUSED /\ d.dev.slot[i].swap = UNUSED
      /\ \A f, i : f \in {s.file, s.secondary} => ReadAt(d.disk, f, i) = ReadAt(disk, f, i)
    BY <1>1 DEF StartIs
<1>3. /\ s.file \in Files /\ s.file \in {names.snapshot, names.old}
      /\ s.secondary # NoFile => s.secondary \in Files /\ s.secondary = names.old
      /\ s.omap # {} => s.secondary # NoFile
      /\ s.omap \subseteq pend /\ pend \subseteq Blocks
      /\ \A b \in pend : s.value[b].n > 0
      /\ \A b \in Blocks : b \notin pend => s.value[b].n = 0
    BY ShelfIs
<1>4. /\ s.vec \in [Blocks -> Seq(Sectors)] /\ s.value \in [Blocks -> AnyValue]
      /\ Apart(s.vec) /\ Numbers(s.nsectors, s.mfree, H) /\ s.map \in [Sectors -> Place]
      /\ \A t \in Sectors : IF t \in H THEN s.map[t] # UNUSED /\ s.map[t] < MaxIndex
                            ELSE s.map[t] = UNUSED
      /\ \A b \in Blocks : Len(s.vec[b]) = s.value[b].n
      /\ HasAll(s, disk)
    BY DEF ImageOk, HasAll, AnyValue
<1>5. H \subseteq Sectors /\ Held(s.vec, pend) = H
    <2>1. \A b \in Blocks : ToSet(s.vec[b]) \subseteq Sectors
        BY <1>4, ToSetIs
    <2>2. \A b \in Blocks : b \notin pend => ToSet(s.vec[b]) = {}
        BY EmptyElem DEF Saved2
    <2> QED  BY <1>3, <2>1, <2>2 DEF Held
<1> HIDE DEF H, pend
<1>6. \A t \in Sectors : ~InSlot(d.dev, t) /\ PlaceOf(d.dev, t) = s.map[t]
    <2>1. \A t \in Sectors : UNUSED # t
        BY ConstantsAre DEF Sectors, UNUSED
    <2>2. ASSUME NEW t \in Sectors  PROVE  ~InSlot(d.dev, t)
        BY ONLY <1>2, <2>1, <2>2 DEF InSlot
    <2>3. ASSUME NEW t \in Sectors  PROVE  PlaceOf(d.dev, t) = s.map[t]
        BY ONLY <1>2, <2>2, <2>3 DEF PlaceOf
    <2> QED  BY <2>2, <2>3
<1>7. Cache(d.dev, H)
    BY <1>2, <1>4 DEF Cache
<1>8. Places(d.dev, H, H)
    <2>1. << >> \in Seq(Nat) /\ ToSet(<< >>) = {} /\ IsInjective(<< >>)
        BY EmptyElem
    <2> QED  BY <1>2, <1>4, <1>5, <1>6, <2>1 DEF Places
<1>9. DeviceOk(d, H, H)
    BY <1>2, <1>3, <1>5, <1>7, <1>8, ConstantsAre DEF DeviceOk
<1>10. \A b \in Blocks : Len(s.vec[b]) <= MaxVec /\ s.value[b].n \in Nat
    BY <1>4, ValueIs
<1>11. AllOk(d, pend)
    BY <1>2, <1>3, <1>4, <1>5, <1>9, <1>10 DEF AllOk, H
<1>12. ASSUME NEW b \in pend
       PROVE  PendingIn(d, b, Where(s)[b], s.value[b], FALSE)
    <2> DEFINE f == Where(s)[b]
               x == s.value[b]
    <2>1. f = (IF b \in s.omap THEN s.secondary ELSE s.file)
        BY <1>3 DEF Where
    <2>2. f \in Files /\ f \in {names.snapshot, names.old} /\ f \in {s.file, s.secondary}
        BY <1>3, <2>1
    <2>3. b \in Blocks /\ x.n > 0 /\ x.n \in Nat /\ Len(s.vec[b]) = x.n
        BY <1>3, <1>4, <1>10
    <2> HIDE DEF f
    <2>4. ASSUME NEW k \in 1 .. x.n
          PROVE  HasIn(d, f, s.vec[b][k], Content(b, k, x)) /\ ~InSlot(d.dev, s.vec[b][k])
        <3>1. /\ s.vec[b][k] \in Sectors /\ s.vec[b][k] \in ToSet(s.vec[b]) /\ k \in DOMAIN s.vec[b]
            BY <1>4, <2>3, ToSetIs
        <3>2. s.map[s.vec[b][k]] # UNUSED
            BY <1>4, <2>3, <3>1 DEF Held, H
        <3>3. ReadAt(disk, f, s.map[s.vec[b][k]]) = Content(b, k, x)
            BY <1>4, <2>1, <2>3, <3>1 DEF HasAll
        <3> QED  BY <1>2, <1>6, <2>2, <3>1, <3>2, <3>3 DEF HasIn, Filed
    <2> QED  BY <1>2, <2>2, <2>3, <2>4, ConstantsAre DEF PendingIn, f
<1>13. ASSUME NEW b \in Blocks \ pend
       PROVE  BlockOk(d, b, s.value[b])
    <2>1. s.value[b].n = 0 /\ Len(s.vec[b]) = 0
        BY <1>3, <1>4
    <2> QED  BY <1>2, <1>10, <2>1 DEF BlockOk
<1> QED  BY <1>4, <1>11, <1>12, <1>13 DEF Stands, pend

(* Where the blocks are after that.                                        *)
RestartTo(r, s) ==
    /\ Sound(r, Saved2(s) \ s.omap, s.value, FALSE)
    /\ r.dev.swapping /\ r.dev.dump = s.file /\ r.dev.sbarrier = 0
    /\ r.dev.swap = NoFile \/ r.dev.swap \in Files \ {s.file, s.secondary}
    /\ HasAll(s, r.disk)

LEMMA RestartIs ==
    ASSUME IInv, NEW s, ImageOk(s), Kept(s), NEW order \in Orders(s.omap),
           NEW r, r = Restore2All(Restored(s), order, s.secondary)
    PROVE  RestartTo(r, s)
<1> DEFINE d == Restored(s)
           pend == Saved2(s)
           n == Len(order)
           rest == Left(pend, order, n)
<1>1. d = Restored(s)
    OBVIOUS
<1>2. s.omap \subseteq Blocks /\ s.omap \subseteq pend /\ s.file \in Files
    BY ShelfIs
<1>3. /\ order \in Seq(Blocks) /\ \A k \in 1 .. n : order[k] \in s.omap
      /\ \A j, k \in 1 .. n : order[j] = order[k] => j = k
      /\ \A b \in s.omap : \E k \in 1 .. n : order[k] = b
    BY <1>2, OrdersIs
<1>4. rest = pend \ s.omap
    BY <1>2, <1>3 DEF Left
<1> HIDE DEF d, pend, n, rest
<1>5. Stands(d, pend, s.value, FALSE, Where(s)) /\ StartIs(d, s)
    BY <1>1, RestoredStands, RestoredIs DEF pend
<1>6. BackTo(r, d, pend, s.value, FALSE, Where(s), order, n)
    <2>1. \A k \in 1 .. n : order[k] \in pend /\ Where(s)[order[k]] = s.secondary
        BY <1>2, <1>3 DEF Where
    <2>2. r = Restore2All(d, order, s.secondary)
        BY <1>1
    <2> QED  BY ONLY <1>3, <1>5, <2>1, <2>2, Restore2AllIs DEF n
<1>7. Stands(r, rest, s.value, FALSE, Where(s)) /\ Writes(r, d)
    BY <1>6 DEF BackTo, rest
<1>8. /\ d.dev.dump = s.file /\ d.dev.swapping /\ d.dev.sbarrier = 0 /\ d.dev.swap = NoFile
      /\ \A f, i : f \in {s.file, s.secondary} => ReadAt(d.disk, f, i) = ReadAt(disk, f, i)
    BY <1>5 DEF StartIs
<1>9. /\ r.dev.dump = s.file /\ r.dev.swapping /\ r.dev.sbarrier = 0
      /\ \/ r.dev.swap = NoFile
         \/ r.dev.swap \in Files \ {names.snapshot, names.old, s.file}
      /\ \A f \in Files : f # r.dev.swap => r.disk[f] = d.disk[f]
    BY <1>7, <1>8 DEF Writes
<1>10. r.dev.swap = NoFile \/ r.dev.swap \in Files \ {s.file, s.secondary}
    BY <1>9, ShelfIs, ConstantsAre
<1>11. Sound(r, rest, s.value, FALSE)
    <2>1. \A b \in rest : Where(s)[b] = r.dev.dump
        BY <1>2, <1>4, <1>9, ShelfIs DEF Where, pend
    <2> QED  BY ONLY <1>7, <2>1, StandsSound
<1>12. HasAll(s, r.disk)
    <2>1. \A f, i : f \in {s.file, s.secondary} /\ f \in Files =>
                        ReadAt(r.disk, f, i) = ReadAt(disk, f, i)
        BY <1>8, <1>9, <1>10, ConstantsAre DEF ReadAt
    <2>2. \A b \in s.omap : s.secondary \in Files
        BY ShelfIs
    <2>3. HasAll(s, disk)
        BY DEF ImageOk, HasAll
    <2> QED  BY <1>2, <2>1, <2>2, <2>3 DEF HasAll
<1> QED  BY <1>4, <1>9, <1>10, <1>11, <1>12 DEF RestartTo, pend

LEMMA RestartNames ==
    ASSUME IInv, NEW s, ImageOk(s), Kept(s), NEW r, RestartTo(r, s),
           dev' = r.dev, names' = [snapshot |-> s.file, old |-> s.secondary],
           dumping' = << >>
    PROVE  NamesOk'
<1>1. /\ s.file \in Files /\ s.secondary \in Descriptor /\ s.secondary # s.file
    BY ShelfIs, ConstantsAre DEF Descriptor
<1>2. /\ names'.snapshot = s.file /\ names'.old = s.secondary /\ Running'
    BY DEF Running
<1>3. /\ dev'.swapping /\ dev'.dump = s.file
      /\ dev'.swap = NoFile \/ dev'.swap \notin {s.file, s.secondary}
    BY DEF RestartTo
<1> QED  BY <1>1, <1>2, <1>3, ConstantsAre DEF NamesOk, Descriptor

LEMMA RestartImage ==
    ASSUME IInv, NEW s, ImageOk(s), Kept(s), NEW r, RestartTo(r, s),
           dev' = r.dev, disk' = r.disk, names' = [snapshot |-> s.file, old |-> s.secondary],
           dumping' = << >>
    PROVE  ImageOk(s)'
<1>1. names'.snapshot = s.file /\ names'.old = s.secondary /\ Running'
    BY DEF Running
<1>2. s.file \in Files /\ dev'.swap # s.file
    BY ShelfIs, ConstantsAre DEF RestartTo
<1>3. HasAll(s, disk')
    BY DEF RestartTo
<1> QED  BY <1>1, <1>2, <1>3 DEF ImageOk, HasAll

LEMMA RestartStep ==
    ASSUME IInv, Restart
    PROVE  IInv'
<1>1. image # << >> /\ Kept(image[1])
    BY DEF Restart
<1>2. PICK s : s = image[1]
    OBVIOUS
<1>3. image = << s >> /\ ImageOk(s) /\ Kept(s)
    BY <1>1, <1>2 DEF IInv
<1>4. PICK order \in Orders(s.omap) :
          /\ Become(Restore2All(Restored(s), order, s.secondary))
          /\ names' = [snapshot |-> s.file, old |-> s.secondary]
          /\ omap' = {b \in Blocks : s.vec[b] # << >>} \ s.omap
          /\ value' = s.value
    BY <1>2 DEF Restart
<1>5. converted' = FALSE /\ dumping' = << >> /\ image' = image
    BY DEF Restart
<1> DEFINE r == Restore2All(Restored(s), order, s.secondary)
<1>6. RestartTo(r, s)
    BY <1>3, <1>4, RestartIs
<1>7. Become(r)
    BY <1>4
<1> HIDE DEF r
<1>8. omap' = Saved2(s) \ s.omap /\ Pending' = omap' /\ omap' \subseteq Blocks
    BY <1>4, <1>5 DEF Saved2, Pending
<1>9. Sound(r, omap', s.value, FALSE)
    BY <1>6, <1>8 DEF RestartTo
<1>10. Now' = r /\ dev'.ssectors <= MaxIndex
    BY <1>7, <1>9, BecomeIs DEF Sound
<1>11. Sound(Now, Pending, value, converted)'
    BY <1>4, <1>5, <1>8, <1>9, <1>10
<1>12. dev' = r.dev /\ disk' = r.disk
    BY <1>7 DEF Become
<1>13. NamesOk'
    BY <1>3, <1>4, <1>5, <1>6, <1>12, RestartNames
<1>14. ImageOk(s)'
    BY <1>3, <1>4, <1>5, <1>6, <1>12, RestartImage
<1>15. image' = << image'[1] >> /\ ImageOk(image[1])'
    <2>1. image' = << s >> /\ image' = << image'[1] >>
        BY <1>3, <1>5
    <2> QED  BY <1>14, <2>1
<1>16. value' \in [Blocks -> Value \cup {NoValue}]
    BY <1>3, <1>4 DEF ImageOk
<1>17. dumping' = << >>
    BY <1>5
<1> QED  BY <1>8, <1>10, <1>11, <1>13, <1>15, <1>16, <1>17 DEF IInv

---------------------------------------------------------------------------
(* The invariant is one.                                                   *)

LEMMA InitIInv ==
    ASSUME Init
    PROVE  IInv
<1> DEFINE z == << >>
           x == NoValue
<1>1. /\ dev = EmptyDevice /\ disk = [f \in Files |-> EmptyFile] /\ vec = [b \in Blocks |-> z]
      /\ mem = [b \in Blocks |-> z] /\ mod = [b \in Blocks |-> "no"] /\ omap = {} /\ converted
      /\ names = [snapshot |-> NoFile, old |-> NoFile] /\ image = z /\ dumping = z
      /\ value = [b \in Blocks |-> x]
    BY DEF Init
<1>2. /\ EmptyDevice \in Device /\ IsInjective(dev.order) /\ IsInjective(dev.lfree)
      /\ ToSet(dev.order) = {} /\ ToSet(dev.lfree) = Slots
      /\ \A i \in Slots : dev.slot[i].sec = UNUSED /\ dev.slot[i].swap = UNUSED
      /\ dev.sfree = z /\ dev.ssectors = 0 /\ dev.sbarrier = 0
      /\ dev.swapping /\ dev.swap = NoFile /\ dev.dump = NoFile
      /\ dev.nsectors = 0 /\ dev.mfree = z
      /\ \A t \in Sectors : dev.map[t] = UNUSED
    BY <1>1, EmptyDeviceIs
<1>3. /\ z \in Seq(Sectors) /\ z \in Seq(Data) /\ ToSet(z) = {} /\ IsInjective(z) /\ Len(z) = 0
      /\ DOMAIN z = {}
    BY EmptyElem
<1>4. x \in AnyValue /\ x.n = 0 /\ x.n \in Nat
    BY DEF NoValue, AnyValue
<1>5. disk \in Disk
    <2>1. /\ DOMAIN EmptyFile = {} /\ EmptyFile = [i \in DOMAIN EmptyFile |-> EmptyFile[i]]
        BY <1>3 DEF EmptyFile
    <2> QED  BY <1>1, <2>1, DiskIs
<1> HIDE DEF z, x
<1>6. /\ \A b \in Blocks : vec[b] = z /\ mem[b] = z /\ mod[b] = "no" /\ value[b] = x
      /\ Now \in State /\ value \in [Blocks -> AnyValue]
    BY <1>1, <1>2, <1>3, <1>4, <1>5 DEF Now, State
<1>7. Held(vec, Blocks) = {} /\ Held(vec, {}) = {}
    BY <1>3, <1>6 DEF Held
<1>8. Apart(vec)
    BY <1>3, <1>6 DEF Apart
<1>9. Numbers(dev.nsectors, dev.mfree, {})
    BY <1>2, <1>3, ConstantsAre DEF Numbers
<1>10. Cache(dev, {})
    BY <1>2 DEF Cache
<1>11. Places(dev, {}, {})
    BY <1>2, <1>3 DEF Places
<1>12. ASSUME NEW b \in Blocks  PROVE BlockOk(Now, b, value[b])
    <2>1. mem[b] = << >> /\ mod[b] = "no" /\ value[b] = x /\ Len(vec[b]) = 0
        BY <1>3, <1>6 DEF z
    <2> QED  BY <1>4, <2>1, NowIs, ConstantsAre DEF BlockOk
<1>13. Pending = {} /\ Running
    BY <1>1 DEF Pending, Running, z
<1>14. Sound(Now, {}, value, converted)
    BY <1>6, <1>7, <1>8, <1>9, <1>10, <1>11, <1>12, NowIs DEF Sound
<1>15. NamesOk
    BY <1>1, <1>2, <1>13 DEF NamesOk, Descriptor
<1>16. dev.ssectors <= MaxIndex /\ omap \subseteq Blocks
    BY <1>1, <1>2, ConstantsAre
<1>17. dumping = << >> /\ image = << >>
    BY <1>1 DEF z
<1> QED  BY <1>6, <1>13, <1>14, <1>15, <1>16, <1>17 DEF IInv, AnyValue

LEMMA SameStep ==
    ASSUME IInv, UNCHANGED vars
    PROVE  IInv'
<1>1. /\ dev' = dev /\ disk' = disk /\ vec' = vec /\ mem' = mem /\ mod' = mod
      /\ omap' = omap /\ converted' = converted /\ names' = names /\ image' = image
      /\ dumping' = dumping /\ value' = value
    BY DEF vars, block
<1>2. Now' = Now /\ Pending' = Pending
    BY <1>1 DEF Now, Pending
<1>3. (NamesOk)' /\ (dumping # << >> => Flushed)'
    BY <1>1 DEF IInv, NamesOk, Flushed, Pending, Running, Extent
<1>4. (image # << >> => image = << image[1] >> /\ ImageOk(image[1]))'
    BY <1>1 DEF IInv, ImageOk, Kept, Running
<1> QED  BY <1>1, <1>2, <1>3, <1>4 DEF IInv

LEMMA NextStep ==
    ASSUME IInv, [Next]_vars
    PROVE  IInv'
<1>1. ASSUME NEW b \in Blocks, NEW n \in 1 .. MaxVec, Change(b, n)  PROVE IInv'
    BY <1>1, ChangeStep
<1>2. ASSUME NEW b \in Blocks, ChangeVar(b)  PROVE IInv'
    BY <1>2, ChangeVarStep
<1>3. ASSUME NEW b \in Blocks, Get(b)  PROVE IInv'
    BY <1>3, GetStep
<1>4. ASSUME NEW b \in Blocks, PutOut(b)  PROVE IInv'
    BY <1>4, PutOutStep
<1>5. ASSUME NEW b \in Blocks, Collect(b)  PROVE IInv'
    BY <1>5, CollectStep
<1>6. ASSUME NEW b \in Blocks, Destruct(b)  PROVE IInv'
    BY <1>6, DestructStep
<1>7. CASE Copied
    BY <1>7, CopiedStep
<1>8. ASSUME NEW incr \in BOOLEAN, DumpStart(incr)  PROVE IInv'
    BY <1>8, DumpStartStep
<1>9. CASE DumpFinish
    BY <1>9, DumpFinishStep
<1>10. CASE Restart
    BY <1>10, RestartStep
<1>11. CASE UNCHANGED vars
    BY <1>11, SameStep
<1> QED  BY <1>1, <1>2, <1>3, <1>4, <1>5, <1>6, <1>7, <1>8, <1>9, <1>10, <1>11 DEF Next

LEMMA Invariance ==
    Spec => []IInv
<1>1. Init => IInv
    BY InitIInv
<1>2. IInv /\ [Next]_vars => IInv'
    BY NextStep
<1> QED  BY <1>1, <1>2, PTL DEF Spec

---------------------------------------------------------------------------
(* What it says of the device.                                             *)

LEMMA OneList ==
    ASSUME NEW T, NEW s \in Seq(T), NEW t \in Seq(T), IsInjective(s), IsInjective(t),
           ToSet(s) \cap ToSet(t) = {}
    PROVE  /\ IsInjective(s \o t) /\ ToSet(s \o t) = ToSet(s) \cup ToSet(t)
<1> DEFINE r == s \o t
           m == Len(s)
           n == Len(t)
<1>1. m \in Nat /\ n \in Nat
    BY ToSetIs
<1>2. /\ r \in Seq(T) /\ Len(r) = m + n /\ \A k \in 1 .. m : r[k] = s[k]
      /\ \A k \in 1 .. n : r[m + k] = t[k]
    BY ConcatElem
<1>3. /\ \A k \in 1 .. m : s[k] \in ToSet(s)
      /\ \A k \in 1 .. n : t[k] \in ToSet(t)
      /\ \A j, k \in 1 .. m : s[j] = s[k] => j = k
      /\ \A j, k \in 1 .. n : t[j] = t[k] => j = k
      /\ \A x : x \in ToSet(s) <=> \E k \in 1 .. m : s[k] = x
      /\ \A x : x \in ToSet(t) <=> \E k \in 1 .. n : t[k] = x
    BY ToSetIs
<1> HIDE DEF r, m, n
<1>4. \A k \in 1 .. m + n : k \in 1 .. m \/ (k - m \in 1 .. n /\ m + (k - m) = k)
    BY <1>1
<1>5. \A k \in 1 .. m + n : IF k \in 1 .. m THEN r[k] = s[k] /\ r[k] \in ToSet(s)
                            ELSE /\ k - m \in 1 .. n /\ r[k] = t[k - m] /\ r[k] \in ToSet(t)
    BY <1>2, <1>3, <1>4
<1>6. ASSUME NEW j \in 1 .. m + n, NEW k \in 1 .. m + n, r[j] = r[k]  PROVE j = k
    <2>1. CASE j \in 1 .. m /\ k \in 1 .. m
        BY <1>3, <1>5, <1>6, <2>1
    <2>2. CASE j \notin 1 .. m /\ k \notin 1 .. m
        <3>1. j - m = k - m
            BY <1>3, <1>5, <1>6, <2>2
        <3> QED  BY <1>1, <3>1
    <2>3. CASE ~(j \in 1 .. m <=> k \in 1 .. m)
        BY <1>5, <1>6, <2>3
    <2> QED  BY <2>1, <2>2, <2>3
<1>7. IsInjective(r)
    BY <1>2, <1>6, ToSetIs
<1>8. \A x : x \in ToSet(r) <=> \E k \in 1 .. m + n : r[k] = x
    BY <1>2, ToSetIs
<1>9. ToSet(r) = ToSet(s) \cup ToSet(t)
    <2>1. \A x \in ToSet(r) : x \in ToSet(s) \cup ToSet(t)
        BY <1>5, <1>8
    <2>2. \A k \in 1 .. m : k \in 1 .. m + n
        BY <1>1
    <2>3. \A x \in ToSet(s) : x \in ToSet(r)
        BY <1>2, <1>3, <1>8, <2>2
    <2>4. \A k \in 1 .. n : m + k \in 1 .. m + n
        BY <1>1
    <2>5. \A x \in ToSet(t) : x \in ToSet(r)
        BY <1>2, <1>3, <1>8, <2>4
    <2> QED  BY <2>1, <2>3, <2>5
<1> QED  BY <1>7, <1>9 DEF r

LEMMA SoundDevice ==
    ASSUME IInv
    PROVE  /\ dev \in Device /\ Held(vec, Blocks) \subseteq Sectors
           /\ Cache(dev, Held(vec, Blocks)) /\ Apart(vec)
           /\ Places(dev, Held(vec, Blocks), Held(vec, Pending))
           /\ Numbers(dev.nsectors, dev.mfree, Held(vec, Blocks))
           /\ \A b \in Blocks : vec[b] \in Seq(Sectors) /\ Len(vec[b]) <= MaxVec
<1>1. AllOk(Now, Pending)
    BY SoundStands DEF Stands
<1> QED  BY <1>1, NowIs DEF AllOk, DeviceOk, State

LEMMA TypesAre ==
    ASSUME IInv
    PROVE  TypeOK
<1> DEFINE H == Held(vec, Blocks)
           P == Held(vec, Pending)
           In(i) == i \in Indices \cup {UNUSED}
<1>1. /\ dev \in Device /\ H \subseteq Sectors /\ Cache(dev, H) /\ Places(dev, H, P)
      /\ dev.nsectors <= SWAPSIZE /\ dev.ssectors <= MaxIndex /\ NamesOk
    BY SoundDevice DEF IInv, Numbers
<1>2. /\ dev.map \in [Sectors -> Place] /\ dev.slot \in [Slots -> Slot]
      /\ dev.nsectors \in Nat /\ dev.ssectors \in Nat /\ dev.sbarrier \in Nat
      /\ dev.swap \in Descriptor /\ dev.dump \in Descriptor
    BY <1>1, DeviceFields
<1>3. \A i \in Place : i < MaxIndex => In(i)
    BY ConstantsAre DEF Place, Indices
<1>4. UNUSED < dev.ssectors /\ In(UNUSED) /\ UNUSED \notin Slots
    BY <1>2, ConstantsAre
<1> HIDE DEF H, P, In
<1>5. ASSUME NEW t \in Sectors  PROVE In(PlaceOf(dev, t)) /\ (InSlot(dev, t) => t \in H)
    <2>1. PlaceOf(dev, t) \in Place
        BY <1>2 DEF PlaceOf, InSlot, Slot
    <2>2. CASE t \in H \ P
        <3>1. PlaceOf(dev, t) < dev.ssectors
            BY <1>1, <2>2 DEF Places
        <3>2. \A i \in Place : i < dev.ssectors => i < MaxIndex
            BY <1>1, <1>2, ConstantsAre DEF Place
        <3> QED  BY <1>3, <2>1, <2>2, <3>1, <3>2
    <2>3. CASE t \in P
        <3>1. P \subseteq H
            BY DEF P, H, Held, IInv
        <3> QED  BY <1>1, <1>3, <2>1, <2>3, <3>1 DEF Places
    <2>4. CASE t \notin H
        <3>1. dev.map[t] = UNUSED
            BY <1>1, <2>4 DEF Cache
        <3> QED  BY <1>4, <3>1 DEF PlaceOf, InSlot
    <2> QED  BY <2>2, <2>3, <2>4
<1>6. ASSUME NEW t \in Sectors  PROVE dev.map[t] \in Indices \cup Slots \cup {UNUSED}
    BY <1>5 DEF PlaceOf, InSlot, In
<1>7. ASSUME NEW i \in Slots  PROVE dev.slot[i] \in SlotType
    <2>1. dev.slot[i] \in Slot
        BY <1>2
    <2>2. In(dev.slot[i].swap)
        <3>1. CASE i \in ToSet(dev.order)
            <4>1. dev.slot[i].sec \in Sectors /\ dev.map[dev.slot[i].sec] = i
                BY <1>1, <3>1 DEF Cache
            <4>2. InSlot(dev, dev.slot[i].sec)
                BY <4>1 DEF InSlot
            <4>3. PlaceOf(dev, dev.slot[i].sec) = dev.slot[i].swap
                BY <4>1, <4>2 DEF PlaceOf
            <4> QED  BY <1>5, <4>1, <4>3
        <3>2. CASE i \in ToSet(dev.lfree)
            BY <1>1, <1>4, <3>2 DEF Cache
        <3> QED  BY <1>1, <3>1, <3>2 DEF Cache
    <2> QED  BY <2>1, <2>2 DEF Slot, SlotType, Data, In
<1>8. dev.map \in [Sectors -> Indices \cup Slots \cup {UNUSED}] /\ dev.slot \in [Slots -> SlotType]
    BY <1>2, <1>6, <1>7
<1>9. dev.sbarrier <= dev.ssectors
    BY <1>1 DEF Places
<1>10. /\ names.snapshot \in Descriptor /\ names.old \in Descriptor
       /\ dev.swapping \/ dev.swap = names.snapshot
    BY <1>1 DEF NamesOk
<1> QED  BY <1>1, <1>2, <1>8, <1>9, <1>10, ConstantsAre DEF TypeOK, Descriptor

LEMMA SectorsAre ==
    ASSUME IInv
    PROVE  SectorsApart
<1> DEFINE owned == {o \in Blocks \X (1 .. MaxVec) : o[2] \in DOMAIN vec[o[1]]}
           Sec(o) == vec[o[1]][o[2]]
           H == Held(vec, Blocks)
<1>1. /\ Apart(vec) /\ Numbers(dev.nsectors, dev.mfree, H)
      /\ \A b \in Blocks : vec[b] \in Seq(Sectors) /\ Len(vec[b]) <= MaxVec
    BY SoundDevice
<1>2. \A b \in Blocks : \A k \in DOMAIN vec[b] : vec[b][k] \in ToSet(vec[b]) /\ k \in 1 .. MaxVec
    <2> TAKE b \in Blocks
    <2>1. /\ Len(vec[b]) \in Nat /\ DOMAIN vec[b] = 1 .. Len(vec[b])
          /\ \A k \in 1 .. Len(vec[b]) : vec[b][k] \in ToSet(vec[b])
        BY <1>1, ToSetIs
    <2> QED  BY <1>1, <2>1, ConstantsAre
<1>3. \A o \in owned : o[1] \in Blocks /\ o[2] \in DOMAIN vec[o[1]] /\ o = << o[1], o[2] >>
    OBVIOUS
<1>4. ASSUME NEW o \in owned, NEW p \in owned, Sec(o) = Sec(p)  PROVE o = p
    <2>1. o[1] = p[1]
        <3>1. Sec(o) \in ToSet(vec[o[1]]) /\ Sec(p) \in ToSet(vec[p[1]])
            BY <1>2, <1>3
        <3>2. o[1] \in Blocks /\ p[1] \in Blocks
            BY <1>3
        <3> HIDE DEF Sec
        <3> QED  BY <1>1, <1>4, <3>1, <3>2 DEF Apart
    <2>2. o[2] = p[2]
        BY <1>1, <1>3, <1>4, <2>1 DEF Apart
    <2> QED  BY <1>3, <2>1, <2>2
<1>5. {Sec(o) : o \in owned} = H
    <2>1. ASSUME NEW o \in owned  PROVE Sec(o) \in H
        BY <1>2, <1>3 DEF Held
    <2>2. ASSUME NEW t \in H  PROVE \E o \in owned : Sec(o) = t
        <3>1. PICK b \in Blocks : t \in ToSet(vec[b])
            BY DEF Held
        <3>2. PICK k \in DOMAIN vec[b] : vec[b][k] = t
            BY <3>1 DEF ToSet
        <3>3. << b, k >> \in owned /\ Sec(<< b, k >>) = t
            BY <1>2, <3>2
        <3> QED  BY <3>3
    <2> QED  BY <2>1, <2>2
<1> HIDE DEF H
<1>6. /\ IsInjective(dev.mfree) /\ H \cap ToSet(dev.mfree) = {}
      /\ H \cup ToSet(dev.mfree) = Ids(dev)
    BY <1>1 DEF Numbers, Ids
<1> QED  BY <1>4, <1>5, <1>6 DEF SectorsApart

LEMMA PlacesAre ==
    ASSUME IInv
    PROVE  PlacesApart
<1> DEFINE here == UNION {ToSet(vec[b]) : b \in Blocks \ omap}
           place == Resolved(dev)
           H == Held(vec, Blocks)
           P == Held(vec, Pending)
<1>1. /\ Apart(vec) /\ H \subseteq Sectors /\ Places(dev, H, P)
    BY SoundDevice
<1>2. here \subseteq H \ P
    <2>1. CASE Pending = omap
        BY <1>1, <2>1 DEF Held, Apart, IInv
    <2>2. CASE Pending # omap
        <3>1. dumping # << >> /\ Flushed /\ Pending = Head(dumping).omap
            BY <2>2 DEF IInv, Pending
        <3>2. omap = {b \in Blocks : vec[b] # << >>}
            BY <2>2, <3>1 DEF Flushed
        <3>3. \A b \in Blocks \ omap : ToSet(vec[b]) = {}
            BY <3>2, EmptyElem
        <3> QED  BY <3>3
    <2> QED  BY <2>1, <2>2
<1>3. \A s \in here : place[s] = PlaceOf(dev, s)
    BY <1>1, <1>2 DEF Resolved, PlaceOf
<1> HIDE DEF here, place, H, P
<1>4. \A s, t \in here : place[s] = place[t] /\ place[s] # UNUSED => s = t
    BY <1>1, <1>2, <1>3 DEF Places
<1>5. \A s \in here : place[s] < dev.ssectors /\ place[s] \notin ToSet(dev.sfree)
    BY <1>1, <1>2, <1>3 DEF Places
<1>6. IsInjective(dev.sfree) /\ ToSet(dev.sfree) \subseteq dev.sbarrier .. dev.ssectors - 1
    BY <1>1 DEF Places
<1> QED  BY <1>4, <1>5, <1>6 DEF PlacesApart, here, place

LEMMA CacheIs ==
    ASSUME IInv
    PROVE  CacheSound
<1> DEFINE H == Held(vec, Blocks)
<1>1. /\ dev \in Device /\ Cache(dev, H) /\ Numbers(dev.nsectors, dev.mfree, H)
    BY SoundDevice
<1>2. dev.order \in Seq(Slots) /\ dev.lfree \in Seq(Slots)
    BY <1>1, DeviceFields
<1> HIDE DEF H
<1>3. /\ IsInjective(dev.order) /\ IsInjective(dev.lfree)
      /\ ToSet(dev.order) \cap ToSet(dev.lfree) = {}
      /\ ToSet(dev.order) \cup ToSet(dev.lfree) = Slots
      /\ \A i \in ToSet(dev.order) : dev.slot[i].sec \in H /\ dev.map[dev.slot[i].sec] = i
    BY <1>1 DEF Cache
<1>4. IsInjective(dev.order \o dev.lfree) /\ ToSet(dev.order \o dev.lfree) = Slots
    <2>1. /\ IsInjective(dev.order \o dev.lfree)
          /\ ToSet(dev.order \o dev.lfree) = ToSet(dev.order) \cup ToSet(dev.lfree)
        BY ONLY <1>2, <1>3, OneList
    <2> QED  BY <1>3, <2>1
<1>5. H \subseteq Ids(dev) \ ToSet(dev.mfree)
    BY <1>1 DEF Numbers, Ids
<1> QED  BY <1>3, <1>4, <1>5 DEF CacheSound

---------------------------------------------------------------------------
(* What it says of the data.                                               *)

(* What is read of a block is what it was given.                           *)
LEMMA ReadIs ==
    ASSUME IInv, Running, NEW b \in Blocks
    PROVE  Read(b) = Contents(b, value[b])
<1> DEFINE x == value[b]
           From(sec) ==
               IF b \in omap /\ ~converted THEN ReadAt(disk, dev.dump, dev.map[sec])
               ELSE IF InSlot(dev, sec) THEN DataOf(Now, sec)
               ELSE ReadAt(disk, IF b \in omap THEN dev.dump ELSE dev.swap, dev.map[sec])
<1>1. /\ Sound(Now, omap, value, converted)
    BY DEF IInv, Running, Pending
<1>2. CASE mem[b] # << >>
    <2>1. b \notin omap
        BY <1>1, <1>2, NowIs DEF Sound, PendingOk
    <2>2. mem[b] = Contents(b, x)
        BY <1>1, <1>2, <2>1, NowIs DEF Sound, BlockOk
    <2> QED  BY <1>2, <2>2 DEF Read
<1>3. CASE mem[b] = << >>
    <2>1. Len(vec[b]) = x.n /\ \A k \in 1 .. x.n : From(vec[b][k]) = Content(b, k, x)
        <3>1. CASE b \in omap
            <4>1. PendingOk(Now, b, x, converted)
                BY <1>1, <3>1 DEF Sound
            <4>2. /\ Len(vec[b]) = x.n
                  /\ \A k \in 1 .. x.n : /\ HasIn(Now, dev.dump, vec[b][k], Content(b, k, x))
                                         /\ ~converted => ~InSlot(dev, vec[b][k])
                BY <4>1, NowIs DEF PendingOk
            <4>3. ASSUME NEW k \in 1 .. x.n  PROVE From(vec[b][k]) = Content(b, k, x)
                <5> DEFINE t == vec[b][k]
                           c == Content(b, k, x)
                <5>1. HasIn(Now, dev.dump, t, c) /\ (~converted => ~InSlot(dev, t))
                    BY <4>2
                <5> HIDE DEF t, c
                <5>2. From(t) = c
                    <6>1. CASE InSlot(dev, t)
                        BY <3>1, <5>1, <6>1, NowIs DEF HasIn, DataOf
                    <6>2. CASE ~InSlot(dev, t)
                        BY <3>1, <5>1, <6>2, NowIs DEF HasIn, Filed, PlaceOf
                    <6> QED  BY <6>1, <6>2
                <5> QED  BY <5>2 DEF t, c
            <4> QED  BY <4>2, <4>3
        <3>2. CASE b \notin omap
            <4>1. BlockOk(Now, b, x)
                BY <1>1, <3>2 DEF Sound
            <4>2. /\ Len(vec[b]) = x.n
                  /\ \A k \in 1 .. x.n : Has(Now, vec[b][k], Content(b, k, x))
                BY <1>3, <4>1, NowIs DEF BlockOk
            <4>3. ASSUME NEW k \in 1 .. x.n  PROVE From(vec[b][k]) = Content(b, k, x)
                <5> DEFINE t == vec[b][k]
                           c == Content(b, k, x)
                <5>1. Has(Now, t, c)
                    BY <4>2
                <5> HIDE DEF t, c
                <5>2. From(t) = c
                    <6>1. CASE InSlot(dev, t)
                        BY <3>2, <5>1, <6>1, NowIs DEF Has, DataOf
                    <6>2. CASE ~InSlot(dev, t)
                        BY <3>2, <5>1, <6>2, NowIs DEF Has, Filed
                    <6> QED  BY <6>1, <6>2
                <5> QED  BY <5>2 DEF t, c
            <4> QED  BY <4>2, <4>3
        <3> QED  BY <3>1, <3>2
    <2>2. Read(b) = [k \in 1 .. Len(vec[b]) |-> From(vec[b][k])]
        BY <1>3 DEF Read
    <2> HIDE DEF From, x
    <2>3. Read(b) = [k \in 1 .. x.n |-> Content(b, k, x)]
        BY <2>1, <2>2
    <2> QED  BY <2>3 DEF Contents, x
<1> QED  BY <1>2, <1>3

LEMMA ImageIs ==
    ASSUME IInv, NEW s \in ToSet(image)
    PROVE  ImageOk(s)
<1>1. image # << >>
    BY EmptyElem
<1>2. image = << image[1] >> /\ ImageOk(image[1])
    BY <1>1 DEF IInv
<1>3. PICK u : u = image[1]
    OBVIOUS
<1>4. image = << u >> /\ ImageOk(u)
    BY <1>2, <1>3
<1>5. s = u
    BY <1>4 DEF ToSet
<1> QED  BY <1>4, <1>5

LEMMA KeptIs ==
    ASSUME IInv
    PROVE  SnapshotKept
<1> SUFFICES ASSUME NEW s \in ToSet(image)
             PROVE  Kept(s) \/ (dumping # << >> /\ s.secondary # NoFile)
    BY DEF SnapshotKept
<1>1. ImageOk(s)
    BY ImageIs
<1>2. IF Running \/ ~dev.swapping
      THEN s.file = names.snapshot /\ s.secondary \in {NoFile, names.old}
      ELSE s.file = names.old
    BY <1>1 DEF ImageOk
<1> QED  BY <1>2 DEF Kept, Running

LEMMA IntactIs ==
    ASSUME IInv
    PROVE  SnapshotIntact
<1> SUFFICES ASSUME NEW s \in ToSet(image), Kept(s)
             PROVE  /\ ReadAt(disk, s.file, s.at) = MapSector
                    /\ \A b \in Blocks :
                        [k \in 1 .. Len(s.vec[b]) |->
                            ReadAt(disk, IF b \in s.omap THEN s.secondary ELSE s.file,
                                   s.map[s.vec[b][k]])]
                          = Contents(b, s.value[b])
    BY DEF SnapshotIntact
<1>1. ImageOk(s)
    BY ImageIs
<1>2. HasAll(s, disk) /\ s.vec \in [Blocks -> Seq(Sectors)]
    BY <1>1 DEF ImageOk, HasAll
<1>3. ASSUME NEW b \in Blocks
      PROVE  [k \in 1 .. Len(s.vec[b]) |->
                 ReadAt(disk, IF b \in s.omap THEN s.secondary ELSE s.file,
                        s.map[s.vec[b][k]])]
                = Contents(b, s.value[b])
    <2> DEFINE f == IF b \in s.omap THEN s.secondary ELSE s.file
               q == s.vec[b]
               x == s.value[b]
    <2>1. Len(q) = x.n /\ DOMAIN q = 1 .. Len(q)
        BY <1>1, <1>2, ToSetIs DEF ImageOk
    <2>2. \A k \in 1 .. x.n : ReadAt(disk, f, s.map[q[k]]) = Content(b, k, x)
        BY <1>2, <2>1 DEF HasAll
    <2> HIDE DEF f, q, x
    <2>3. [k \in 1 .. Len(q) |-> ReadAt(disk, f, s.map[q[k]])]
             = [k \in 1 .. x.n |-> Content(b, k, x)]
        BY <2>1, <2>2
    <2> QED  BY <2>3 DEF Contents, f, q, x
<1> QED  BY <1>2, <1>3 DEF HasAll

---------------------------------------------------------------------------
(* The theorems.                                                           *)

(* However many sectors, slots and objects there are, and whatever is      *)
(* grown, shrunk, deleted, evicted, trimmed, copied and restored: every    *)
(* sector, every place in the swap file that is in use and every slot of   *)
(* the cache has one owner (sw_newv(), sw_wipev(), sw_delv(), sw_load(),   *)
(* sw_trim() and sw_restore() in swap.c).                                  *)
THEOREM DeviceIsSound == Spec => []DeviceSound
<1>1. IInv => DeviceSound
    BY TypesAre, SectorsAre, PlacesAre, CacheIs DEF DeviceSound
<1> QED  BY <1>1, Invariance, PTL

(* What is read of an object is what it was last given, wherever its       *)
(* sectors are and whichever snapshot they have to come from: d_swapout(), *)
(* o_copy() and o_restore() of object.c, through swap.c.                   *)
THEOREM DataAreFaithful == Spec => []Faithful
<1>1. IInv => Faithful
    BY ReadIs DEF Faithful
<1> QED  BY <1>1, Invariance, PTL

(* The driver can be stopped at any moment and be restored from the last   *)
(* snapshot that was finished: its files are there, and nothing of them    *)
(* has been overwritten (sw_dump(), sw_dump2() and the barrier).           *)
THEOREM SnapshotIsRestorable == Spec => []Restorable
<1>1. IInv => Restorable
    BY KeptIs, IntactIs DEF Restorable
<1> QED  BY <1>1, Invariance, PTL

===========================================================================
