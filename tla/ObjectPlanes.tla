--------------------------- MODULE ObjectPlanes ----------------------------
(***************************************************************************)
(* The table of objects in atomic code (src/src/object.c).  Each level of  *)
(* it has a plane; an object that is changed gets a patch, a copy that     *)
(* belongs to the plane and hides the object of the planes below.  The     *)
(* patches of a plane are copied down when the code ends and dropped when  *)
(* it fails.  Names are found in hash tables, one of the base plane and    *)
(* one that all others share, and the entries of these are the objects and *)
(* the patches themselves: a patch that takes the place of another must    *)
(* take its place in the chain as well.                                    *)
(*                                                                         *)
(* Without inheritance and upgrades, which are in ObjectTable.             *)
(***************************************************************************)
EXTENDS Integers, FiniteSets, SequencesExt

CONSTANTS
    Names,          \* names of masters
    NoName,
    OTABSZ,         \* size of the table
    HTABSZ,         \* buckets of the table of patches
    MaxLevel,       \* bound: levels of atomic code
    Renamed         \* FALSE if a name is not given to a new object by code
                    \* that destructed the object of that name, unless their
                    \* patches are met in the reverse order

ASSUME PlanesAssumption ==
    /\ NoName \notin Names
    /\ OTABSZ \in Nat \ {0}
    /\ HTABSZ \in Nat \ {0}
    /\ MaxLevel \in Nat
    /\ Renamed \in BOOLEAN

VARIABLE tab
vars == tab

OBJ_NONE == -1
Index == 0 .. OTABSZ - 1
Link == Index \cup {OBJ_NONE}
Bucket(i) == i % HTABSZ

(* A pointer to an object is its index and how many patches there are up   *)
(* to it; 0 is the object itself.  On the list of objects to clean a link  *)
(* is the index alone.                                                     *)
Null == << >>
Ptr == Index \X (0 .. MaxLevel)
HashLink == Ptr \cup {Null}
CleanLink == {<< i >> : i \in Index} \cup {Null}

Object == [index : Link, name : Names \cup {NoName}, master : BOOLEAN,
           count : 0 .. 1, ref : Nat, cref : Nat \cup Link, prev : Link,
           next : HashLink \cup CleanLink, data : BOOLEAN]

Plane == [clean : CleanLink, destruct : Link, free : Link,
          nobjects : 0 .. OTABSZ, nfreeobjs : 0 .. OTABSZ]

Table == [base : [Index -> Object],
          patch : [Index -> Seq([plane : 1 .. MaxLevel, obj : Object])],
          bucket : [0 .. HTABSZ - 1 -> Seq(Ptr)],
          htab : [Names -> HashLink],     \* baseplane.htab
          ahtab : [Names -> HashLink],    \* oplane->htab in atomic code
          planes : Seq(Plane)]

Blank == [index |-> 0, name |-> NoName, master |-> FALSE, count |-> 0, ref |-> 0,
          cref |-> 0, prev |-> 0, next |-> Null, data |-> FALSE]

NoNames == [n \in Names |-> Null]

Init ==
    tab = [base |-> [i \in Index |-> Blank],
           patch |-> [i \in Index |-> << >>],
           bucket |-> [b \in 0 .. HTABSZ - 1 |-> << >>],
           htab |-> NoNames, ahtab |-> NoNames,
           planes |-> << [clean |-> Null, destruct |-> OBJ_NONE, free |-> OBJ_NONE,
                          nobjects |-> 0, nfreeobjs |-> 0] >>]

---------------------------------------------------------------------------
(* Objects of the table t.                                                 *)

Level(t) == Len(t.planes) - 1
Oplane(t) == t.planes[Len(t.planes)]
SetPlane(t, field, value) == [t EXCEPT !.planes[Len(t.planes)][field] = value]

At(t, p) == IF p[2] = 0 THEN t.base[p[1]] ELSE t.patch[p[1]][p[2]].obj
Put(t, p, o) ==
    IF p[2] = 0 THEN [t EXCEPT !.base[p[1]] = o] ELSE [t EXCEPT !.patch[p[1]][p[2]].obj = o]

Newest(t, i) == << i, Len(t.patch[i]) >>
Objr(t, i) == At(t, Newest(t, i))

(* The chain of a name: every name has a bucket to itself.                 *)
Htab(t) == IF Level(t) = 0 THEN t.htab ELSE t.ahtab
SetHtab(t, n, link) ==
    IF Level(t) = 0 THEN [t EXCEPT !.htab[n] = link] ELSE [t EXCEPT !.ahtab[n] = link]

(* o_owrite(): a patch of this plane, unless there is one.                 *)
Named(o) == o.name # NoName /\ o.count # 0

PutName(t, p, o) ==
    IF ~Named(o) THEN t
    ELSE IF p[2] = 1
    THEN [Put(t, p, [o EXCEPT !.next = t.ahtab[o.name]]) EXCEPT !.ahtab[o.name] = p]
    ELSE [t EXCEPT !.ahtab[o.name] = p]

OpNew(t, p, o) ==
    PutName([t EXCEPT !.patch[p[1]] = Append(@, [plane |-> Level(t), obj |-> o]),
                      !.bucket[Bucket(p[1])] = << p >> \o @],
            p, o)

IsPatched(t, i) == t.patch[i] # << >> /\ Last(t.patch[i]).plane = Level(t)

Owrite(t, i) ==
    IF Level(t) = 0 \/ IsPatched(t, i) THEN t
    ELSE OpNew(t, << i, Len(t.patch[i]) + 1 >>, Objr(t, i))

Changed(t, p, Change(_)) == Put(t, p, Change(At(t, p)))
Write(t, i, Change(_)) == LET w == Owrite(t, i) IN Changed(w, Newest(w, i), Change)

(* o_alloc(): the index, and the table with the entry in use.              *)
Space(t) == Oplane(t).free # OBJ_NONE \/ Oplane(t).nobjects # OTABSZ
NewIndex(t) == IF Oplane(t).free # OBJ_NONE THEN Oplane(t).free ELSE Oplane(t).nobjects

TakenFree(t, i) ==
    SetPlane(SetPlane(Owrite(t, i), "free", Objr(t, i).prev), "nfreeobjs", Oplane(t).nfreeobjs - 1)

Taken(t, i) ==
    IF Oplane(t).free # OBJ_NONE THEN TakenFree(t, i)
    ELSE Owrite(SetPlane(t, "nobjects", i + 1), i)

Alloc(t, i) ==
    Write([Taken(t, i) EXCEPT !.base[i].index = OBJ_NONE], i,
          LAMBDA o : [o EXCEPT !.index = i, !.data = FALSE])

(* o_new()                                                                 *)
PutNew(t, i, n) ==
    SetHtab(Write(t, i, LAMBDA o : [o EXCEPT !.name = n, !.next = Htab(t)[n], !.master = TRUE,
                                             !.cref = 0, !.prev = OBJ_NONE, !.count = 1,
                                             !.ref = 1]),
            n, Newest(t, i))

(* o_clone(), with the master for writing                                  *)
PutClone(t, i, m) ==
    Write(t, i, LAMBDA o : [o EXCEPT !.name = NoName, !.master = FALSE, !.count = 1,
                                     !.ref = m])

Referred(t, m) == Write(t, m, LAMBDA o : [o EXCEPT !.cref = @ + 1, !.ref = @ + 1])

(* o_delete()                                                              *)
Delete(t, m) ==
    IF Objr(t, m).ref # 0 THEN t
    ELSE SetPlane(Write(t, m, LAMBDA o : [o EXCEPT !.cref = Oplane(t).destruct]), "destruct", m)

(* o_del()                                                                 *)
DelMaster(t, i) ==
    Delete(Write(SetHtab(t, Objr(t, i).name, Objr(t, i).next), i,
                 LAMBDA o : [o EXCEPT !.count = 0, !.ref = @ - 1]), i)

DelClone(t, i, m) ==
    Delete(Write(Write(t, i, LAMBDA o : [o EXCEPT !.count = 0]), m,
                 LAMBDA o : [o EXCEPT !.cref = @ - 1, !.ref = @ - 1]), m)

OnCleanList(t, i) ==
    SetPlane(Write(t, i, LAMBDA o : [o EXCEPT !.next = Oplane(t).clean]), "clean", << i >>)

Del(t, i) ==
    OnCleanList(IF Objr(t, i).master THEN DelMaster(Owrite(t, i), i)
                ELSE DelClone(Owrite(t, i), i, Objr(t, i).ref), i)

(* o_find() of a master                                                    *)
FoundInBase(t, n) ==
    IF t.htab[n] # Null /\ Objr(t, t.htab[n][1]).count # 0 THEN t.htab[n][1] ELSE OBJ_NONE

Find(t, n) == IF Htab(t)[n] # Null THEN Htab(t)[n][1] ELSE FoundInBase(t, n)

---------------------------------------------------------------------------
(* What a thread does.                                                     *)

Live(i) == Objr(tab, i).count # 0
Dead(t, n) == {i \in Index : Objr(t, i).name = n /\ Objr(t, i).count = 0}

Compile(n) ==
    /\ Find(tab, n) = OBJ_NONE
    /\ Space(tab)
    /\ Renamed \/ \A i \in Dead(tab, n) : Bucket(i) >= Bucket(NewIndex(tab))
    /\ tab' = PutNew(Alloc(tab, NewIndex(tab)), NewIndex(tab), n)

Clone(n) ==
    /\ Find(tab, n) # OBJ_NONE
    /\ Space(tab)
    /\ tab' = Referred(PutClone(Alloc(Owrite(tab, Find(tab, n)), NewIndex(tab)),
                                NewIndex(tab), Find(tab, n)),
                       Find(tab, n))

(* The first call of an object gives it a dataspace.                       *)
Touch(i) ==
    /\ Live(i)
    /\ ~Objr(tab, i).data
    /\ tab' = Write(tab, i, LAMBDA o : [o EXCEPT !.data = TRUE])

Destruct(i) ==
    /\ Live(i)
    /\ tab' = Del(tab, i)

(* o_new_plane()                                                           *)
Enter ==
    /\ Level(tab) < MaxLevel
    /\ tab' = [tab EXCEPT !.planes = Append(@, Oplane(tab))]

---------------------------------------------------------------------------
(* The patches of the plane, in the order of the buckets; those of lower   *)
(* planes come after them.                                                 *)
FromFront(t, ptrs) ==
    SubSeq(ptrs, 1, SelectInSeq(ptrs \o << Null >>,
                        LAMBDA p : p = Null \/ t.patch[p[1]][p[2]].plane # Level(t)) - 1)

Patches(t) ==
    FlattenSeq([b \in 1 .. HTABSZ |-> FromFront(t, t.bucket[b - 1])])

Lower(p) == << p[1], p[2] - 1 >>

OpDel(t, p) ==
    [t EXCEPT !.patch[p[1]] = SubSeq(@, 1, p[2] - 1),
              !.bucket[Bucket(p[1])] = SelectSeq(@, LAMBDA q : q # p)]

(* o_commit_plane(), to the base plane                                     *)
NewName(t, p, o) ==
    IF o.count = 0 THEN Put(t, Lower(p), o)
    ELSE Put([t EXCEPT !.htab[o.name] = Lower(p)], Lower(p), [o EXCEPT !.next = t.htab[o.name]])

(* Mutant: the first of the chain is taken for the object.                 *)
UnlinkedFirst(t, p, obj) == [t EXCEPT !.htab[obj.name] = obj.next]

(* "new object was compiled also"                                          *)
Unlinked(t, p, obj) ==
    IF t.htab[obj.name] = p THEN [t EXCEPT !.htab[obj.name] = obj.next]
    ELSE [t EXCEPT !.base[t.htab[obj.name][1]].next = obj.next]

SameName(t, p, o, obj) ==
    IF o.count # 0 THEN Put(t, Lower(p), [o EXCEPT !.next = obj.next])
    ELSE Put(IF obj.count # 0 THEN Unlinked(t, Lower(p), obj) ELSE t, Lower(p), o)

ToBase(t, p, o, obj) ==
    IF o.name = NoName THEN Put(t, Lower(p), o)
    ELSE IF obj.name = NoName THEN NewName(t, p, o)
    ELSE SameName(t, p, o, obj)

(* to another one                                                          *)
MoveDown(t, p) == [t EXCEPT !.patch[p[1]][p[2]].plane = @ - 1]

CopyDown(t, p, o) ==
    OpDel(Put(IF Named(o) THEN [t EXCEPT !.ahtab[o.name] = Lower(p)] ELSE t, Lower(p), o), p)

(* Mutant: the previous patch is not looked for.                           *)
HasLowerNever(t, p) == FALSE

HasLower(t, p) == p[2] > 1 /\ t.patch[p[1]][p[2] - 1].plane = Level(t) - 1

CommitPatch(t, p) ==
    IF Level(t) = 1 THEN OpDel(ToBase(t, p, At(t, p), At(t, Lower(p))), p)
    ELSE IF HasLower(t, p) THEN CopyDown(t, p, At(t, p)) ELSE MoveDown(t, p)

(* The names of atomic code are forgotten when it is left altogether.      *)
LeftTo(t, planes) ==
    [t EXCEPT !.planes = planes, !.ahtab = IF Len(planes) = 1 THEN NoNames ELSE @]

PlanesBelow(t) == SubSeq(t.planes, 1, Level(t))

Committed(t) == LeftTo(t, [PlanesBelow(t) EXCEPT ![Level(t)] = Oplane(t)])

Commit ==
    /\ Level(tab) > 0
    /\ tab' = Committed(FoldLeft(CommitPatch, tab, Patches(tab)))

(* o_discard_plane()                                                       *)
RemoveName(t, o) == IF o.count # 0 THEN [t EXCEPT !.ahtab[o.name] = o.next] ELSE t

(* "move name to previous plane", "put name back in hashtable"             *)
RestoreName(t, p, o, obj) ==
    IF o.count # 0 \/ obj.count # 0
    THEN Put([t EXCEPT !.ahtab[obj.name] = Lower(p)], Lower(p),
             [obj EXCEPT !.next = IF o.count # 0 THEN o.next ELSE t.ahtab[obj.name]])
    ELSE t

DiscardName(t, p, o, obj) ==
    IF o.name = NoName THEN t
    ELSE IF obj.name = NoName \/ p[2] = 1 THEN RemoveName(t, o)
    ELSE RestoreName(t, p, o, obj)

(* Mutant: no data is passed on.                                           *)
PassOnNone(obj, o) ==
    IF obj.index = OBJ_NONE THEN [obj EXCEPT !.index = o.index] ELSE obj

(* A new object is discarded with its data, the data of others passed on.  *)
PassOn(obj, o) ==
    IF obj.index = OBJ_NONE THEN [obj EXCEPT !.index = o.index] ELSE [obj EXCEPT !.data = o.data]

DiscardPatch(t, p) ==
    OpDel(Changed(DiscardName(t, p, At(t, p), At(t, Lower(p))), Lower(p),
                  LAMBDA obj : PassOn(obj, At(t, p))), p)

Discarded(t) == LeftTo(t, PlanesBelow(t))

Discard ==
    /\ Level(tab) > 0
    /\ tab' = Discarded(FoldLeft(DiscardPatch, tab, Patches(tab)))

---------------------------------------------------------------------------
(* o_clean(), between threads                                              *)

Followed(link, After(_)) ==
    LET f[k \in 1 .. OTABSZ] ==
            IF k = 1 THEN link ELSE IF f[k - 1] = OBJ_NONE THEN OBJ_NONE ELSE After(f[k - 1])
    IN SelectSeq(f, LAMBDA j : j # OBJ_NONE)

IndexOf(link) == IF link = Null THEN OBJ_NONE ELSE link[1]

CleanList(t) == Followed(IndexOf(Oplane(t).clean), LAMBDA j : IndexOf(Objr(t, j).next))
DestructList(t) == Followed(Oplane(t).destruct, LAMBDA j : Objr(t, j).cref)
FreeList(t) == Followed(Oplane(t).free, LAMBDA j : Objr(t, j).prev)

Free(t, i) ==
    SetPlane(SetPlane([t EXCEPT !.base[i] = [Blank EXCEPT !.index = i, !.prev = Oplane(t).free]],
                      "free", i),
             "nfreeobjs", Oplane(t).nfreeobjs + 1)

CleanOne(t, i) ==
    IF t.base[i].master THEN [t EXCEPT !.base[i].data = FALSE, !.base[i].next = Null] ELSE Free(t, i)

Cleaned(t) ==
    FoldLeft(Free,
             FoldLeft(CleanOne, SetPlane(SetPlane(t, "clean", Null), "destruct", OBJ_NONE),
                      CleanList(t)),
             DestructList(t))

Clean ==
    /\ Level(tab) = 0
    /\ tab' = Cleaned(tab)

Next ==
    \/ \E n \in Names : Compile(n) \/ Clone(n)
    \/ \E i \in Index : Touch(i) \/ Destruct(i)
    \/ Enter \/ Commit \/ Discard \/ Clean

Spec == Init /\ [][Next]_vars

---------------------------------------------------------------------------
(* Properties.                                                             *)

(* The object i as it is seen at a level.                                  *)
UpTo(t, i, l) ==
    At(t, << i, Len(SelectSeq(t.patch[i], LAMBDA op : op.plane <= l)) >>)

(* Every variable keeps its type.                                          *)
TypeOK == tab \in Table

(* "find an object by name": at every level the one that is there.         *)
Found ==
    \A n \in Names :
        LET live == {i \in Index : Live(i) /\ Objr(tab, i).name = n}
        IN IF live = {} THEN Find(tab, n) = OBJ_NONE ELSE live = {Find(tab, n)}

(* Patches of higher planes hide those of lower ones, and come first in    *)
(* their buckets, where commit and discard look for them.                  *)
Stacked ==
    /\ \A i \in Index : \A k \in 1 .. Len(tab.patch[i]) :
          /\ tab.patch[i][k].plane <= Level(tab)
          /\ k > 1 => tab.patch[i][k - 1].plane < tab.patch[i][k].plane
    /\ \A b \in DOMAIN tab.bucket :
          LET plane(k) == tab.patch[tab.bucket[b][k][1]][tab.bucket[b][k][2]].plane
          IN \A k \in 2 .. Len(tab.bucket[b]) : plane(k - 1) >= plane(k)
    /\ \A i \in Index : \A k \in 1 .. Len(tab.patch[i]) :
          Contains(tab.bucket[Bucket(i)], << i, k >>)

(* The entries that were never used.                                       *)
Unused == Oplane(tab).nobjects .. OTABSZ - 1

(* Every entry is free, live, or on its way to be freed, and is that once. *)
Reclaimed ==
    LET free == FreeList(tab)
        dying == ToSet(CleanList(tab)) \cup ToSet(DestructList(tab))
        kept == {i \in Index : Objr(tab, i).master /\ Objr(tab, i).ref > 0}
        live == {i \in Index : Live(i)}
    IN /\ Len(free) = Oplane(tab).nfreeobjs
       /\ IsInjective(free)
       /\ (ToSet(free) \cup Unused) \cap (live \cup dying \cup kept) = {}
       /\ Index = ToSet(free) \cup Unused \cup live \cup dying \cup kept

(* "ref count (if master object)": the object and its clones.              *)
Counted ==
    \A m \in Index :
        Objr(tab, m).master =>
            Objr(tab, m).ref = Objr(tab, m).count
                + Cardinality({i \in Index : Live(i) /\ ~Objr(tab, i).master /\ Objr(tab, i).ref = m})

(* The patches and counts that commit and discard work on, and the lists   *)
(* that they pass on: no entry is lost or in two of them, at any level.    *)
PlanesSound == TypeOK /\ Stacked /\ Counted /\ Reclaimed

(* The table as it is seen at a level.                                     *)
FreeAt(l, plane) ==
    (plane.nobjects .. OTABSZ - 1)
        \cup ToSet(Followed(plane.free, LAMBDA j : UpTo(tab, j, l).prev))

Seen(free, o, data) ==
    [life |-> IF free THEN "free" ELSE IF o.count # 0 THEN "live" ELSE "dead",
     name |-> IF free THEN NoName ELSE o.name,
     of |-> IF free \/ o.master THEN OBJ_NONE ELSE o.ref,
     refs |-> IF free THEN 0 ELSE IF o.master THEN o.ref ELSE 1,
     data |-> ~free /\ data]

SeenAt(l, free) ==
    [i \in Index |-> Seen(i \in free, UpTo(tab, i, l), Objr(tab, i).data)]

AtomicTables ==
    INSTANCE AtomicObjects WITH
        level <- Level(tab),
        tables <- [l \in 0 .. Level(tab) |-> SeenAt(l, FreeAt(l, tab.planes[l + 1]))]

(* Atomic code works on a table of its own, which becomes that of the      *)
(* outer level, or is dropped, as a whole (AtomicObjects).                 *)
ImplementsAtomicObjects == AtomicTables!Spec
===========================================================================
