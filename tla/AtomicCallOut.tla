-------------------------- MODULE AtomicCallOut --------------------------
(***************************************************************************)
(* Callouts in atomic code (src/src/data.c).  An atomic function runs one  *)
(* level up from its caller; every object it touches gets a dataplane of   *)
(* that level.  A callout started or removed in an object changes its      *)
(* dataspace at once, but not the callout table: a patch on the plane      *)
(* remembers what to do when the function succeeds, and what to restore    *)
(* when it does not.  Levels nest through catch.                           *)
(*                                                                         *)
(* All of this happens within one thread, so that time stands still: it is *)
(* the table's timestamp.  A plane has at most one patch for a handle, and *)
(* its chains are walked in the order of the handles (there are fewer than *)
(* COPATCHHTABSZ of them).                                                 *)
(***************************************************************************)
EXTENDS CallOutTable

CONSTANTS
    Objects,        \* objects
    MaxHandle,      \* bound: callouts that an object has at once
    MaxLevel,       \* bound: depth of atomic calls
    Delays,         \* delays that are asked for
    Vals            \* functions and arguments that are called

Handles == 1 .. MaxHandle

ASSUME AtomicAssumption ==
    /\ Callouts \subseteq Objects \X Handles
    /\ IsFiniteSet(Objects)
    /\ MaxHandle \in Nat /\ MaxLevel \in Nat
    /\ Delays \subseteq Nat
    /\ "free" \notin Vals

VARIABLES
    tab,            \* the callout table
    callouts,       \* data->callouts: the dcallouts of each object
    fcallouts,      \* data->fcallouts: the list of its free handles
    level,          \* f->level of the running code
    plist,          \* the dataplanes above level 0, the newest first
    ncallout        \* # callouts added - # removed, not in the table yet

avars == << tab, callouts, fcallouts, level, plist, ncallout >>

Free == [t |-> 0, m |-> NoMsec, val |-> "free"]
Dcallout == [t : Nat, m : Msecs \cup {NoMsec}, val : Vals]

Patch == [type : {"ADD", "REMOVE", "REPLACE"},
          aco : Dcallout \cup {Free}, rco : Dcallout \cup {Free},
          t : Nat, m : Msecs \cup {NoMsec}, q : Lists \cup {Queue}]
IsPlane(p) ==
    /\ p.obj \in Objects /\ p.level \in 1 .. MaxLevel
    /\ DOMAIN p.cop \subseteq Handles
    /\ \A h \in DOMAIN p.cop : p.cop[h] \in Patch

With(cop, h, p) == [x \in DOMAIN cop \cup {h} |-> IF x = h THEN p ELSE cop[x]]
Without(cop, h) == [x \in DOMAIN cop \ {h} |-> cop[x]]

AInit ==
    /\ tab = EmptyTable
    /\ callouts = [o \in Objects |-> << >>]
    /\ fcallouts = [o \in Objects |-> << >>]
    /\ level = 0
    /\ plist = << >>
    /\ ncallout = 0

---------------------------------------------------------------------------
(* The dataspace of one object, as a pair of its callouts and free list.   *)

(* d_alloc_call_out() without a handle: the first free one, or the second  *)
(* if that is lower, or a new one.                                         *)
NewHandle(d) ==
    IF d.free = << >> THEN Len(d.co) + 1
    ELSE IF Len(d.free) = 1 \/ d.free[2] > d.free[1] THEN d.free[1]
    ELSE d.free[2]

(* Mutant: the handle stays in the free list.                              *)
AllocCallOutListed(d, h, c) ==
    IF h > Len(d.co) THEN [d EXCEPT !.co = Append(@, c)]
    ELSE [d EXCEPT !.co[h] = c]

(* d_alloc_call_out() of handle h.                                         *)
AllocCallOut(d, h, c) ==
    IF h > Len(d.co) THEN [d EXCEPT !.co = Append(@, c)]
    ELSE [co |-> [d.co EXCEPT ![h] = c],
          free |-> RemoveAt(d.free, CHOOSE k \in DOMAIN d.free : d.free[k] = h)]

FreeCallOut(d, h) ==
    [co |-> [d.co EXCEPT ![h] = Free], free |-> << h >> \o d.free]

Data(o) == [co |-> callouts[o], free |-> fcallouts[o]]

SetData(o, d) ==
    /\ callouts' = [callouts EXCEPT ![o] = d.co]
    /\ fcallouts' = [fcallouts EXCEPT ![o] = d.free]

---------------------------------------------------------------------------
(* The planes.                                                             *)

PlanesOf(o, l) == {k \in DOMAIN plist : plist[k].obj = o /\ plist[k].level = l}

(* Code of o runs at this level: the call has brought its dataspace there. *)
WithPlane(o) ==
    IF level = 0 \/ PlanesOf(o, level) # {} THEN plist
    ELSE << [obj |-> o, level |-> level, cop |-> << >>] >> \o plist

Top(ps, o) == CHOOSE k \in DOMAIN ps :
                 ps[k].obj = o /\ \A j \in DOMAIN ps : ps[j].obj = o => k <= j

Uindex(n) == n % UindexRange

(* Call an atomic function of o.                                           *)
EnterAtomic(o) ==
    /\ level < MaxLevel
    /\ level' = level + 1
    /\ plist' = << [obj |-> o, level |-> level + 1, cop |-> << >>] >> \o plist
    /\ UNCHANGED << tab, callouts, fcallouts, ncallout >>

(* cop_release(): a replacement is a removal again.                        *)
Released(cop) == [cop EXCEPT !.type = "REMOVE", !.aco = Free,
                             !.t = 0, !.m = 0, !.q = Queue]

(* d_new_call_out()                                                        *)
NewCallOut(o, val, delay, mdelay) ==
    LET due == Due(tab, [t |-> tab.timestamp, m |-> 0], delay, mdelay)
        h == NewHandle(Data(o))
        co == [t |-> due.t, m |-> due.m, val |-> val]
        ps == WithPlane(o)
        k == Top(ps, o)
        patch == IF h \in DOMAIN ps[k].cop
                 THEN [ps[k].cop[h] EXCEPT !.type = "REPLACE", !.aco = co,
                                           !.t = due.t, !.m = due.m, !.q = due.q]
                 ELSE [type |-> "ADD", aco |-> co, rco |-> Free,
                       t |-> due.t, m |-> due.m, q |-> due.q]
    IN /\ h \in Handles /\ <<o, h>> \in Callouts
       /\ ~TooMany(tab, ncallout)
       /\ SetData(o, AllocCallOut(Data(o), h, co))
       /\ IF level = 0
          THEN /\ \E i \in NewIndices(tab) : tab' = CoNew(tab, << o, h >>, due, i)
               /\ UNCHANGED << plist, ncallout >>
          ELSE /\ plist' = [ps EXCEPT ![k].cop = With(@, h, patch)]
               /\ ncallout' = Uindex(ncallout + 1)
               /\ UNCHANGED tab
       /\ UNCHANGED level

(* d_del_call_out()                                                        *)
DelCallOut(o, h) ==
    LET co == callouts[o][h]
        ps == WithPlane(o)
        k == Top(ps, o)
        cop == ps[k].cop
        remove == [type |-> "REMOVE", aco |-> Free, rco |-> co,
                   t |-> 0, m |-> 0, q |-> Queue]
    IN /\ h \in DOMAIN callouts[o]
       /\ co # Free
       /\ IF level = 0
          THEN /\ tab' = CoDel(tab, << o, h >>, co.t, co.m)
               /\ UNCHANGED << plist, ncallout >>
          ELSE /\ plist' = [ps EXCEPT ![k].cop =
                               IF h \notin DOMAIN cop THEN With(cop, h, remove)
                               ELSE IF cop[h].type = "REPLACE"
                               THEN [cop EXCEPT ![h] = Released(@)]
                               ELSE Without(cop, h)]
               /\ ncallout' = Uindex(ncallout - 1)
               /\ UNCHANGED tab
       /\ SetData(o, FreeCallOut(Data(o), h))
       /\ UNCHANGED level

---------------------------------------------------------------------------
(* d_commit_plane()                                                        *)

(* The planes of the current level, which come first, and those below it.  *)
InLevel ==
    CHOOSE n \in 0 .. Len(plist) :
        /\ \A k \in 1 .. n : plist[k].level = level
        /\ n < Len(plist) => plist[n + 1].level # level

Current == SubSeq(plist, 1, InLevel)
Below == SubSeq(plist, InLevel + 1, Len(plist))

(* commit_callouts() to the last plane: what the patch of handle h does to *)
(* the table, where s is the table with ncallout.                          *)
ApplyPatch(s, o, h, p) ==
    LET i == CHOOSE x \in NewIndices(s.tab) : TRUE
        due == [t |-> p.t, m |-> p.m, q |-> p.q]
        deleted == CoDel(s.tab, << o, h >>, p.rco.t, p.rco.m)
    IN CASE p.type = "ADD" ->
               [tab |-> CoNew(s.tab, << o, h >>, due, i), n |-> Uindex(s.n - 1)]
         [] p.type = "REMOVE" -> [tab |-> deleted, n |-> Uindex(s.n + 1)]
         [] p.type = "REPLACE" ->
               [tab |-> CoNew(deleted, << o, h >>, due,
                              CHOOSE x \in NewIndices(deleted) : TRUE), n |-> s.n]

ApplyPlane(s, plane) ==
    LET after[h \in 0 .. MaxHandle] ==
          IF h = 0 THEN s
          ELSE IF h \in DOMAIN plane.cop
          THEN ApplyPatch(after[h - 1], plane.obj, h, plane.cop[h])
          ELSE after[h - 1]
    IN after[MaxHandle]

Applied ==
    LET after[k \in 0 .. Len(Current)] ==
          IF k = 0 THEN [tab |-> tab, n |-> ncallout]
          ELSE ApplyPlane(after[k - 1], Current[k])
    IN after[Len(Current)]

(* commit_callouts() to a previous plane that has a patch for the handle.  *)
Merge(old, new) ==
    CASE new.type = "ADD" \/ (old.type = "REPLACE" /\ new.type = "REPLACE") ->
             [new EXCEPT !.type = "REPLACE", !.rco = old.rco]
      [] new.type = "REMOVE" -> Released(old)
      [] OTHER -> [new EXCEPT !.type = "ADD", !.rco = Free]

(* An addition and its removal leave no patch.                             *)
MergePatches(old, new) ==
    LET both == DOMAIN old \cap DOMAIN new
        gone == {h \in both : new[h].type = "REMOVE" /\ old[h].type # "REPLACE"}
    IN [h \in (DOMAIN old \cup DOMAIN new) \ gone |->
            IF h \in both THEN Merge(old[h], new[h]) ELSE IF h \in DOMAIN old THEN old[h] ELSE new[h]]

HasPrevious(o) == PlanesOf(o, level - 1) # {}

(* Those that have no plane of the level below become one.                 *)
MovedDown ==
    LET after[k \in 0 .. Len(Current)] ==
          IF k = 0 THEN << >>
          ELSE IF HasPrevious(Current[k].obj) THEN after[k - 1]
          ELSE Append(after[k - 1], [Current[k] EXCEPT !.level = level - 1])
    IN after[Len(Current)]

Merged ==
    [k \in DOMAIN Below |->
        IF Below[k].level = level - 1 /\ PlanesOf(Below[k].obj, level) # {}
        THEN [Below[k] EXCEPT !.cop =
                MergePatches(@, plist[CHOOSE j \in PlanesOf(Below[k].obj, level) : TRUE].cop)]
        ELSE Below[k]]

Commit ==
    /\ level > 0
    /\ level' = level - 1
    /\ IF level = 1
       THEN tab' = Applied.tab /\ ncallout' = Applied.n /\ plist' = << >>
       ELSE plist' = MovedDown \o Merged /\ UNCHANGED << tab, ncallout >>
    /\ UNCHANGED << callouts, fcallouts >>

---------------------------------------------------------------------------
(* d_discard_plane(): an error that is not caught within the function.     *)

(* Mutant: a replaced callout is not restored.                             *)
UndoReplaced(d, h, p) ==
    CASE p.type = "ADD" -> FreeCallOut(d, h)
      [] p.type = "REMOVE" -> AllocCallOut(d, h, p.rco)
      [] p.type = "REPLACE" -> d

(* discard_callouts(), for the patch of handle h on dataspace d.           *)
Undo(d, h, p) ==
    CASE p.type = "ADD" -> FreeCallOut(d, h)
      [] p.type = "REMOVE" -> AllocCallOut(d, h, p.rco)
      [] p.type = "REPLACE" -> AllocCallOut(FreeCallOut(d, h), h, p.rco)

(* s has the dataspaces and ncallout.                                      *)
UndoPatch(s, o, h, p) ==
    LET d == Undo([co |-> s.co[o], free |-> s.free[o]], h, p)
    IN [co |-> [s.co EXCEPT ![o] = d.co], free |-> [s.free EXCEPT ![o] = d.free],
        n |-> CASE p.type = "ADD" -> Uindex(s.n - 1)
                [] p.type = "REMOVE" -> Uindex(s.n + 1)
                [] p.type = "REPLACE" -> s.n]

UndoPlane(s, plane) ==
    LET after[h \in 0 .. MaxHandle] ==
          IF h = 0 THEN s
          ELSE IF h \in DOMAIN plane.cop
          THEN UndoPatch(after[h - 1], plane.obj, h, plane.cop[h])
          ELSE after[h - 1]
    IN after[MaxHandle]

Undone ==
    LET after[k \in 0 .. Len(Current)] ==
          IF k = 0 THEN [co |-> callouts, free |-> fcallouts, n |-> ncallout]
          ELSE UndoPlane(after[k - 1], Current[k])
    IN after[Len(Current)]

Discard ==
    /\ level > 0
    /\ level' = level - 1
    /\ callouts' = Undone.co /\ fcallouts' = Undone.free /\ ncallout' = Undone.n
    /\ plist' = Below
    /\ UNCHANGED tab

ANext ==
    \/ \E o \in Objects :
          \/ EnterAtomic(o)
          \/ \E v \in Vals, d \in Delays : NewCallOut(o, v, d, NoMsec)
          \/ \E h \in Handles : DelCallOut(o, h)
    \/ Commit
    \/ Discard

ASpec == AInit /\ [][ANext]_avars

---------------------------------------------------------------------------
(* Properties.                                                             *)

(* Every variable keeps its type.                                          *)
ATypeOK ==
    /\ tab \in Table
    /\ callouts \in [Objects -> Seq(Dcallout \cup {Free})]
    /\ fcallouts \in [Objects -> Seq(Handles)]
    /\ level \in 0 .. MaxLevel
    /\ \A k \in 1 .. Len(plist) : IsPlane(plist[k])
    /\ ncallout \in 0 .. UindexRange - 1

InTable(c) == Holds(tab.queue, c) \/ \E l \in Lists : Holds(tab.list[l], c)
Live(c) == c[2] \in DOMAIN callouts[c[1]] /\ callouts[c[1]][c[2]] # Free

(* The free list of an object holds exactly its free handles.              *)
FreeHandles ==
    \A o \in Objects :
        /\ ToSet(fcallouts[o]) = {h \in DOMAIN callouts[o] : callouts[o][h] = Free}
        /\ IsInjective(fcallouts[o])

(* ncallout is the number of callouts that the dataspaces have and the     *)
(* table has not yet: co_check() counts on it.                             *)
NetCount ==
    ncallout = Uindex(Cardinality({c \in Callouts : Live(c)})
                          - Cardinality({c \in Callouts : InTable(c)}))

(* Planes are stacked: newer ones are not of a lower level, none is above  *)
(* the running code, and an object has at most one of each level.          *)
Stacked ==
    /\ \A k \in DOMAIN plist : plist[k].level <= level
    /\ \A j, k \in DOMAIN plist :
          j < k => /\ plist[j].level >= plist[k].level
                   /\ << plist[j].obj, plist[j].level >> # << plist[k].obj, plist[k].level >>

(* The handles, the planes and the counts that commit and discard work on. *)
AtomicSound == ATypeOK /\ FreeHandles /\ NetCount /\ Stacked

(* enqueue() never needs an entry when the array is full: the assertion    *)
(* "if (queuebrk == cycbrk) fatal(...)".                                   *)
QueueFits == Len(tab.queue) <= tab.cycbrk

(* What atomic code promises, in AtomicContract: the state of the          *)
(* dataspaces to go back to, at each level, is what the patches of that    *)
(* level and those above would restore.                                    *)
Before(c, l) ==
    LET ks == {k \in DOMAIN plist :
                 /\ plist[k].obj = c[1] /\ plist[k].level >= l
                 /\ c[2] \in DOMAIN plist[k].cop}
    IN IF ks # {} THEN plist[CHOOSE k \in ks : \A j \in ks : j <= k].cop[c[2]].rco
       ELSE IF Live(c) THEN callouts[c[1]][c[2]] ELSE Free

(* The time for which the table has callout c; immediate is 0.             *)
TimeIn(c) ==
    IF Holds(tab.queue, c) THEN tab.queue[Position(tab.queue, c)].t
    ELSE (CHOOSE l \in Lists : Holds(tab.list[l], c)) % Immediate

Contract ==
    INSTANCE AtomicContract
        WITH current <- [c \in Callouts |-> Before(c, MaxLevel + 1)],
             saved <- [l \in 1 .. level |-> [c \in Callouts |-> Before(c, l)]],
             table <- [c \in {x \in Callouts : InTable(x)} |-> TimeIn(c)],
             None <- Free

(* Atomic code is all or nothing: the table is changed by committed code   *)
(* only, and then it agrees with the dataspaces; an error restores every   *)
(* callout that was there.                                                 *)
ImplementsAtomic == Contract!Spec

===========================================================================
