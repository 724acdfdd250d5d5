----------------------------- MODULE Dataspace -----------------------------
(***************************************************************************)
(* The values of objects (src/src/data.c, src/src/array.c and              *)
(* src/src/sdata.c): variables and arrays, which are counted, loaded from  *)
(* the saved dataspace piece by piece, put back by atomic code that fails, *)
(* shared by objects during a thread, taken apart at its end, and saved    *)
(* again, as a whole or only what has changed.                             *)
(*                                                                         *)
(* Every array belongs to the dataspace of one object.  Its primary        *)
(* reference is either the slot of the array in the saved dataspace, with  *)
(* a count of references from there, or "alocal" of a plane: an array that *)
(* is not saved yet.  Code at each level of atomic code has a plane in the *)
(* dataspaces that it changes.                                             *)
(*                                                                         *)
(* Arrays have one element and values are nil or an array: strings, which  *)
(* are counted like arrays but cannot change, mappings, and callouts       *)
(* (AtomicCallOut) are left out.  How a dataspace is laid out in sectors   *)
(* is in Swap.                                                             *)
(***************************************************************************)
EXTENDS Integers, FiniteSets, SequencesExt, FiniteSetsExt, TLC

CONSTANTS
    Objects,
    Vars,           \* variables of each object
    MaxArrays,      \* bound: arrays of an object, and of all when one is made
    Lists,          \* lists in saved dataspaces: how long, and the slot at the end
    MaxEntered,     \* bound: levels of atomic code
    MaxOps,         \* bound: operations of all threads
    Fragment        \* "swap_fragment" is not 0

ASSUME DataspaceAssumption == {MaxArrays, MaxEntered, MaxOps} \subseteq Nat /\ Fragment \in BOOLEAN

VARIABLES
    data,           \* dataspaces, in memory and saved
    thread          \* how far it is, and what its atomic code must put back

vars == << data, thread >>

Nil == 0            \* a value is nil or an array
Unloaded == -1      \* an element that is yet to be loaded

Flags == {"VARIABLE", "ARRAY", "ARRAYREF", "SAVE"}

(* arrref: the array of a slot, the plane that changed it last, references *)
(* from the dataspace, and ARR_MOD.                                        *)
Arrref == [arr : Nat, plane : 0 .. MaxEntered, ref : Nat, mod : BOOLEAN]
NoArr == [arr |-> Nil, plane |-> 0, ref |-> 0, mod |-> FALSE]

Arrbak == [arr : Nat, elt : Nat, plane : 0 .. MaxEntered]

Variables == [Vars -> Nat]
NoVariables == << >>

Plane == [level : 0 .. MaxEntered, flags : SUBSET Flags, achange : Nat, imports : Nat,
          original : Variables \cup {NoVariables}, arrays : Seq(Arrref),
          achunk : Seq(Arrbak)]

Array == [home : Objects, slot : Nat, plane : 0 .. MaxEntered, elt : Nat \cup {Unloaded}]

(* svalues: an array is a slot.                                            *)
Saved == [variables : Variables, elts : Seq(Nat), refs : Seq(Nat)]

Base == [level |-> 0, flags |-> {}, achange |-> 0, imports |-> 0,
         original |-> NoVariables, arrays |-> << >>, achunk |-> << >>]

(* References to each slot from the variables and the elements.            *)
Counts(variables, elts) ==
    [s \in DOMAIN elts |-> Cardinality({x \in DOMAIN variables : variables[x] = s})
                               + Cardinality({t \in DOMAIN elts : elts[t] = s})]

(* A list of n arrays, the last of which has nil or an array of the list.  *)
SavedList(n, last) ==
    LET variables == [x \in Vars |-> IF n = 0 THEN 0 ELSE 1]
        elts == [s \in 1 .. n |-> IF s < n THEN s + 1 ELSE last]
    IN [variables |-> variables, elts |-> elts, refs |-> Counts(variables, elts)]

(* Some objects are new, the others have been swapped out.                 *)
Init ==
    /\ \E new \in SUBSET Objects :
       \E disk \in [Objects -> {<< SavedList(p[1], p[2]) >> : p \in Lists} \cup {<< >>}],
          ring \in SetToSeqs(new) :
          /\ \A o \in Objects : o \in new <=> disk[o] = << >>
          /\ data = [variables |-> [o \in Objects |-> NoVariables],
                     arr |-> << >>,
                     gc |-> ring,                       \* objects in memory
                     planes |-> [o \in Objects |->
                         << IF o \in new THEN [Base EXCEPT !.flags = {"VARIABLE"}] ELSE Base >>],
                     image |-> [o \in Objects |-> << >>],   \* svalues in memory
                     disk |-> disk,                     \* and on the swap device
                     ifirst |-> << >>,
                     stack |-> << {} >>]                \* arrays on the stack
    /\ thread = [running |-> FALSE, ops |-> 0, entered |-> 0, before |-> << >>]

---------------------------------------------------------------------------
(* A sequence, evaluated by TLC at once: it may be changed with EXCEPT.    *)
Tuple(f) == SubSeq(f, 1, Len(f))

Level(d) == Len(d.stack) - 1
Top(d, o) == Last(d.planes[o])
Depth(d, o) == Len(d.planes[o])

PlaneOf(d, i) ==
    IF d.arr[i].slot = 0 THEN d.arr[i].plane
    ELSE Top(d, d.arr[i].home).arrays[d.arr[i].slot].plane

NewId(d) == Min((1 .. Cardinality(DOMAIN d.arr) + 1) \ DOMAIN d.arr)

Push(d, v) == IF v = Nil THEN d ELSE [d EXCEPT !.stack[Len(d.stack)] = @ \cup {v}]

(* What refers to an array.                                                *)
Refs(d, i) ==
    {<< o, x >> \in Objects \X Vars : d.variables[o] # NoVariables /\ d.variables[o][x] = i}
    \cup {<< j >> : j \in {j \in DOMAIN d.arr : d.arr[j].elt = i}}

Held(d) ==
    UNION Range(d.stack)
    \cup UNION {UNION {Range(p.original), {p.arrays[s].arr : s \in DOMAIN p.arrays},
                       UNION {{b.arr, b.elt} : b \in Range(p.achunk)}} :
                    p \in UNION {Range(d.planes[o]) : o \in Objects}}

Roots(d) == Held(d) \cup UNION {Range(d.variables[o]) : o \in Objects}

(* arr_del(): what nothing refers to is freed.                             *)
Without(d, set) == [d EXCEPT !.arr = [i \in DOMAIN d.arr \ set |-> d.arr[i]]]

RECURSIVE Left(_, _, _)
Left(d, roots, set) ==
    LET left == {i \in set : i \in roots \/ \E j \in set : d.arr[j].elt = i}
    IN IF left = set THEN set ELSE Left(d, roots, left)

Freed(d) == Without(d, DOMAIN d.arr \ Left(d, Roots(d), DOMAIN d.arr))

---------------------------------------------------------------------------
(* Loading.                                                                *)

(* d_get_array(): the slot of all planes.                                  *)
GetArray(d, o, s) ==
    IF s = 0 \/ Top(d, o).arrays[s].arr # Nil THEN d
    ELSE LET i == NewId(d)
             a == [arr |-> i, plane |-> 0, ref |-> d.image[o][1].refs[s], mod |-> FALSE]
         IN [d EXCEPT !.arr = @ @@ (i :> [home |-> o, slot |-> s, plane |-> 0, elt |-> Unloaded]),
                      !.planes[o] = Tuple([k \in DOMAIN @ |-> [@[k] EXCEPT !.arrays[s] = a]])]

(* d_get_values()                                                          *)
Loaded(d, o, s) == IF s = 0 THEN Nil ELSE Top(d, o).arrays[s].arr

GetElts(d, i) ==
    IF d.arr[i].elt # Unloaded THEN d
    ELSE LET o == d.arr[i].home
             s == d.image[o][1].elts[d.arr[i].slot]
             e == GetArray(d, o, s)
         IN [e EXCEPT !.arr[i].elt = Loaded(e, o, s)]

NoArrays(d, o, n) ==
    [d EXCEPT !.planes[o] =
        Tuple([k \in DOMAIN @ |-> [@[k] EXCEPT !.arrays = Tuple([s \in 1 .. n |-> NoArr])]])]

(* o_dataspace() and load_dataspace(), with get_variables() and            *)
(* get_arrays().                                                           *)
InMemory(d, o) == Contains(d.gc, o)

Load(d, o) ==
    IF InMemory(d, o) THEN d
    ELSE NoArrays([d EXCEPT !.gc = Append(@, o), !.image[o] = d.disk[o]],
                  o, Len(d.disk[o][1].refs))

(* d_get_variable()                                                        *)
GetVariables(d, o) ==
    IF d.variables[o] # NoVariables THEN d
    ELSE IF d.image[o] = << >> THEN [d EXCEPT !.variables[o] = [x \in Vars |-> Nil]]
    ELSE LET sv == d.image[o][1].variables
             e == FoldLeft(LAMBDA f, x : GetArray(f, o, sv[x]), d, SetToSeq(Vars))
         IN [e EXCEPT !.variables[o] = [x \in Vars |-> Loaded(e, o, sv[x])]]

---------------------------------------------------------------------------
(* Counting.                                                               *)

Achange(d, o, n) == [d EXCEPT !.planes[o][Depth(d, o)].achange = @ + n]

(* An array of another object is to be imported at the end of the thread.  *)
RefImport(d, o) ==
    [d EXCEPT !.planes[o][Depth(d, o)].imports = @ + 1,
              !.ifirst = IF Top(d, o).imports = 0 /\ ~Contains(@, o) THEN << o >> \o @ ELSE @]

IsImport(d, o, v) == v # Nil /\ d.arr[v].home # o

(* ref_rhs()                                                               *)
RefRhs(d, o, v) ==
    IF v = Nil THEN d
    ELSE IF IsImport(d, o, v) THEN Achange(RefImport(d, o), o, 1)
    ELSE IF d.arr[v].slot = 0 THEN Achange(d, o, 1)
    ELSE [d EXCEPT !.planes[o][Depth(d, o)].arrays[d.arr[v].slot].ref = @ + 1,
                   !.planes[o][Depth(d, o)].flags = @ \cup {"ARRAYREF"}]

(* Mutant: the dataspace counts as unchanged.                              *)
DroppedUncounted(d, o, v) ==
    LET e == GetElts(d, v)
    IN [e EXCEPT !.planes[o][Depth(d, o)].arrays[d.arr[v].slot] = NoArr,
                 !.arr[v].slot = 0,
                 !.arr[v].plane = PlaneOf(d, v)]

(* The last reference from the dataspace: the array leaves its slot.       *)
Dropped(d, o, v) ==
    LET e == GetElts(d, v)
    IN Achange([e EXCEPT !.planes[o][Depth(d, o)].arrays[d.arr[v].slot] = NoArr,
                         !.arr[v].slot = 0,
                         !.arr[v].plane = PlaneOf(d, v)], o, 1)

DelRef(d, o, v) ==
    IF Top(d, o).arrays[d.arr[v].slot].ref = 0 THEN Dropped(d, o, v) ELSE d

(* del_lhs()                                                               *)
DelLhs(d, o, v) ==
    IF v = Nil THEN d
    ELSE IF IsImport(d, o, v)
    THEN Achange([d EXCEPT !.planes[o][Depth(d, o)].imports = @ - 1], o, -1)
    ELSE IF d.arr[v].slot = 0 THEN Achange(d, o, -1)
    ELSE DelRef([d EXCEPT !.planes[o][Depth(d, o)].arrays[d.arr[v].slot].ref = @ - 1,
                          !.planes[o][Depth(d, o)].flags = @ \cup {"ARRAYREF"}], o, v)

---------------------------------------------------------------------------
(* Planes.                                                                 *)

(* d_new_plane()                                                           *)
NewPlane(d, o, level) ==
    [d EXCEPT !.planes[o] = Append(@, [Top(d, o) EXCEPT !.level = level,
                                                        !.original = NoVariables,
                                                        !.achunk = << >>])]

(* i_funcall(): code of an object that runs at a level has a plane there.  *)
AtLevel(d, o) == IF Top(d, o).level = Level(d) THEN d ELSE NewPlane(d, o, Level(d))

In(d, o) == AtLevel(Load(d, o), o)

(* d_assign_var()                                                          *)
BackUp(d, o) ==
    IF Level(d) = 0 \/ Top(d, o).original # NoVariables THEN d
    ELSE [d EXCEPT !.planes[o][Depth(d, o)].original = d.variables[o]]

AssignVar(d, o, x, v) ==
    LET e == DelLhs(RefRhs(BackUp(d, o), o, v), o, d.variables[o][x])
    IN [e EXCEPT !.planes[o][Depth(d, o)].flags = @ \cup {"VARIABLE"},
                 !.variables[o][x] = v]

(* d_assign_elt(), in the dataspace of the array.                          *)
ArrBackup(d, o, i) ==
    IF PlaneOf(d, i) = Level(d) THEN d
    ELSE LET e == [d EXCEPT !.planes[o][Depth(d, o)].achunk =
                        Append(@, [arr |-> i, elt |-> d.arr[i].elt, plane |-> PlaneOf(d, i)])]
         IN IF d.arr[i].slot = 0 THEN [e EXCEPT !.arr[i].plane = Level(d)]
            ELSE [e EXCEPT !.planes[o][Depth(d, o)].arrays[d.arr[i].slot].plane = Level(d)]

(* Mutant: which array is changed is not kept.                             *)
SetModFlag(d, o, s) == [d EXCEPT !.planes[o][Depth(d, o)].flags = @ \cup {"ARRAY"}]

SetMod(d, o, s) ==
    IF Top(d, o).arrays[s].mod THEN d
    ELSE [d EXCEPT !.planes[o][Depth(d, o)].arrays[s].mod = TRUE,
                   !.planes[o][Depth(d, o)].flags = @ \cup {"ARRAY"}]

Unimport(d, o, v) ==
    IF IsImport(d, o, v) THEN [d EXCEPT !.planes[o][Depth(d, o)].imports = @ - 1] ELSE d

RefElt(d, o, i, v) ==
    IF d.arr[i].slot # 0
    THEN DelLhs(RefRhs(SetMod(d, o, d.arr[i].slot), o, v), o, d.arr[i].elt)
    ELSE Unimport(IF IsImport(d, o, v) THEN RefImport(d, o) ELSE d, o, d.arr[i].elt)

AssignElt(d, i, v) ==
    LET o == d.arr[i].home
    IN [RefElt(ArrBackup(AtLevel(d, o), o, i), o, i, v) EXCEPT !.arr[i].elt = v]

(* Mutant: the elements are not looked at.                                 *)
ArrNewOnly(d, o, v) ==
    LET i == NewId(d)
    IN Push([d EXCEPT !.arr = @ @@ (i :> [home |-> o, slot |-> 0, plane |-> Level(d), elt |-> v])], i)

(* arr_new() and d_ref_imports()                                           *)
ArrNew(d, o, v) ==
    LET i == NewId(d)
        e == IF IsImport(d, o, v) THEN RefImport(d, o) ELSE d
    IN Push([e EXCEPT !.arr = @ @@ (i :> [home |-> o, slot |-> 0, plane |-> Level(d), elt |-> v])], i)

---------------------------------------------------------------------------
(* Commit and discard.                                                     *)

InPlane(d) == {o \in Objects : Top(d, o).level = Level(d)}
Prev(d, o) == d.planes[o][Depth(d, o) - 1]
HasLower(d, o) == Prev(d, o).level = Level(d) - 1

IsLocal(d, i) == i # Nil /\ d.arr[i].slot = 0 /\ d.arr[i].plane = Level(d)

(* commit_values(): new arrays among the values, in their elements, ...    *)
RECURSIVE Locals(_, _)
Locals(d, values) ==
    LET locals == {i \in values : IsLocal(d, i)}
        more == locals \cup {d.arr[i].elt : i \in locals}
    IN IF more \subseteq values THEN locals ELSE Locals(d, values \cup more)

BackedUp(d, o) == {Top(d, o).achunk[b].arr : b \in DOMAIN Top(d, o).achunk}

(* Mutant: without what the code returns.                                  *)
CommittedKept(d, retval) ==
    UNION {{d.arr[i].elt : i \in BackedUp(d, o)} : o \in InPlane(d)}
    \cup UNION {{d.variables[o][x] : x \in Vars} :
                    o \in {p \in InPlane(d) : Top(d, p).original # NoVariables}}

(* All values that commit_values() gets.                                   *)
Committed(d, retval) ==
    {retval}
    \cup UNION {{d.arr[i].elt : i \in BackedUp(d, o)} : o \in InPlane(d)}
    \cup UNION {{d.variables[o][x] : x \in Vars} :
                    o \in {p \in InPlane(d) : Top(d, p).original # NoVariables}}

Lowered(d, retval) ==
    Locals(d, Committed(d, retval))
        \cup {i \in UNION {BackedUp(d, o) : o \in InPlane(d)} : IsLocal(d, i)}

(* arr_commit(): the primary reference is that of the plane below.         *)
LowerArr(d, retval) ==
    [i \in DOMAIN d.arr |->
        IF i \in Lowered(d, retval) THEN [d.arr[i] EXCEPT !.plane = Level(d) - 1] ELSE d.arr[i]]

LowerRefs(d, p) ==
    Tuple([s \in DOMAIN p.arrays |->
              IF p.arrays[s].plane = Level(d) THEN [p.arrays[s] EXCEPT !.plane = Level(d) - 1]
              ELSE p.arrays[s]])

Below(d, p) ==
    [p EXCEPT !.level = Level(d) - 1, !.arrays = LowerRefs(d, p), !.flags = @ \cup {"SAVE"}]

Original(d, p, prev) ==
    IF Level(d) = 1 \/ prev.original # NoVariables THEN prev.original ELSE p.original

(* Mutant: the caller cannot put back what the code changed first.         *)
MergedCallers(d, p, prev) ==
    [Below(d, p) EXCEPT !.original = Original(d, p, prev), !.achunk = prev.achunk]

Merged(d, p, prev) ==
    [Below(d, p) EXCEPT
        !.original = Original(d, p, prev),
        !.achunk = prev.achunk \o SelectSeq(@, LAMBDA ab : ab.plane # Level(d) - 1)]

LowerPlanes(d, o) ==
    IF o \notin InPlane(d) THEN d.planes[o]
    ELSE IF HasLower(d, o)
    THEN Append(Front(Front(d.planes[o])), Merged(d, Top(d, o), Prev(d, o)))
    ELSE Append(Front(d.planes[o]), Below(d, Top(d, o)))

(* d_commit_plane()                                                        *)
CommitPlane(d, retval) ==
    Push([d EXCEPT !.arr = LowerArr(d, retval),
                   !.planes = [o \in Objects |-> LowerPlanes(d, o)],
                   !.stack = Front(@)], retval)

(* arr_discard(), then the slots of the plane below.                       *)
Restored(d, ab) ==
    [d EXCEPT !.arr[ab.arr] = [@ EXCEPT !.slot = 0, !.plane = ab.plane, !.elt = ab.elt]]

InSlots(d, p) ==
    [i \in DOMAIN d.arr |->
        LET slots == {s \in DOMAIN p.arrays : p.arrays[s].arr = i}
        IN IF slots = {} THEN d.arr[i] ELSE [d.arr[i] EXCEPT !.slot = Max(slots)]]

DiscardOne(d, o) ==
    LET p == Top(d, o)
        e == FoldLeft(Restored, d, p.achunk)
    IN [e EXCEPT !.arr = InSlots(e, Prev(d, o)),
                 !.variables[o] = IF p.original # NoVariables THEN p.original ELSE @,
                 !.planes[o] = Front(@)]

(* d_discard_plane()                                                       *)
DiscardPlane(d) ==
    [FoldLeft(DiscardOne, d, SetToSeq(InPlane(d))) EXCEPT !.stack = Front(@)]

---------------------------------------------------------------------------
(* d_export()                                                              *)

(* Where a value is: a variable of the object, or the element of an array. *)
ValueAt(d, o, at) == IF at \in Vars THEN d.variables[o][at] ELSE d.arr[at[1]].elt
SetAt(d, o, at, v) ==
    IF at \in Vars THEN [d EXCEPT !.variables[o][at] = v] ELSE [d EXCEPT !.arr[at[1]].elt = v]

Moved(imp, o, a) ==
    [imp EXCEPT !.d.arr[a] = [@ EXCEPT !.home = o, !.slot = 0, !.plane = 0],
                !.put = @ \cup {a}]

Copied(imp, o, at, a) ==
    LET d == GetElts(imp.d, a)
        c == NewId(d)
        e == [d EXCEPT !.arr = @ @@ (c :> [home |-> o, slot |-> 0, plane |-> 0, elt |-> d.arr[a].elt])]
    IN [imp EXCEPT !.d = SetAt(e, o, at, c), !.put = @ \cup {a, c}, !.itab = @ @@ (a :> c)]

(* d_import(): an array that nothing else refers to is moved, another is   *)
(* copied once.                                                            *)
RECURSIVE Import(_, _, _)
Import(imp, o, at) ==
    LET a == ValueAt(imp.d, o, at)
    IN CASE a \in {Nil, Unloaded} -> imp
         [] a \in DOMAIN imp.itab -> [imp EXCEPT !.d = SetAt(@, o, at, imp.itab[a])]
         [] a \in imp.put -> imp
         [] OTHER ->
              IF imp.d.arr[a].home = o
              THEN Import([imp EXCEPT !.put = @ \cup {a}], o, << a >>)
              ELSE IF Cardinality(Refs(imp.d, a)) = 1 /\ a \notin Held(imp.d)
              THEN Import(Moved(imp, o, a), o, << a >>)
              ELSE LET copied == Copied(imp, o, at, a)
                   IN Import(copied, o, << copied.itab[a] >>)

ImportAll(d, o) ==
    LET slots == SelectSeq(Top(d, o).arrays, LAMBDA a : a.arr # Nil)
        places == (IF d.variables[o] # NoVariables THEN SetToSeq(Vars) ELSE << >>)
                      \o [k \in DOMAIN slots |-> << slots[k].arr >>]
        imp == FoldLeft(LAMBDA i, at : Import(i, o, at),
                        [d |-> d, put |-> {}, itab |-> << >>], places)
    IN Freed([imp.d EXCEPT !.planes[o][1].imports = 0])

Export(d) ==
    [FoldLeft(LAMBDA e, o : IF Top(e, o).imports # 0 THEN ImportAll(e, o) ELSE e, d, d.ifirst)
        EXCEPT !.ifirst = << >>]

---------------------------------------------------------------------------
(* d_save_dataspace()                                                      *)

(* d_count(): all arrays of the object, in order.                          *)
RECURSIVE Count(_, _)
Count(save, v) ==
    IF v = Nil \/ Contains(save.found, v) THEN save
    ELSE LET d == GetElts(save.d, v)
         IN Count([d |-> d, found |-> Append(save.found, v)], d.arr[v].elt)

IndexIn(found, v) == IF v = Nil THEN 0 ELSE SelectInSeq(found, LAMBDA w : w = v)

(* d_save()                                                                *)
Save(d, o, found) ==
    LET variables == [x \in Vars |-> IndexIn(found, d.variables[o][x])]
        elts == [s \in DOMAIN found |-> IndexIn(found, d.arr[found[s]].elt)]
    IN [variables |-> variables, elts |-> elts,
        refs |-> Counts(variables, elts)]

(* d_free_values(), with the arrays that are left on the object's list.    *)
FreeValues(d, o, n) ==
    Without(NoArrays([d EXCEPT !.variables[o] = NoVariables], o, n),
            {i \in DOMAIN d.arr : d.arr[i].home = o})

Rebuilt(d, o, swap) ==
    LET e == GetVariables(d, o)
        save == FoldLeft(LAMBDA s, x : Count(s, s.d.variables[o][x]),
                         [d |-> e, found |-> << >>], SetToSeq(Vars))
        saved == Save(save.d, o, save.found)
    IN [FreeValues(save.d, o, Len(save.found)) EXCEPT
            !.image[o] = << saved >>,
            !.disk[o] = IF swap THEN << saved >> ELSE << >>,
            !.planes[o][1].achange = 0]

(* d_put_values(): what has changed, in its place.                         *)
Put(d, o, v) ==
    IF v = Nil THEN 0 ELSE IF IsImport(d, o, v) \/ d.arr[v].slot = 0 THEN -1 ELSE d.arr[v].slot

PutChanges(d, o, sv) ==
    LET p == Top(d, o)
    IN [variables |-> IF "VARIABLE" \notin p.flags THEN sv.variables
                      ELSE [x \in Vars |-> Put(d, o, d.variables[o][x])],
        elts |-> [s \in DOMAIN sv.elts |->
                    IF "ARRAY" \in p.flags /\ p.arrays[s].mod
                    THEN Put(d, o, d.arr[p.arrays[s].arr].elt) ELSE sv.elts[s]],
        refs |-> [s \in DOMAIN sv.refs |->
                    IF "ARRAYREF" \in p.flags /\ p.arrays[s].arr # Nil
                    THEN p.arrays[s].ref ELSE sv.refs[s]]]

SavedInPlace(d, o, swap) ==
    [d EXCEPT !.image[o] = << PutChanges(d, o, @[1]) >>,
              !.disk[o] = IF swap THEN << PutChanges(d, o, @[1]) >> ELSE << >>,
              !.planes[o][1].arrays = Tuple([s \in DOMAIN @ |-> [@[s] EXCEPT !.mod = FALSE]])]

Changed(p) == p.flags \ {"SAVE"} # {}

SaveDataspace(d, o, swap) ==
    LET p == Top(d, o)
        e == IF d.image[o] # << >> /\ p.achange = 0 /\ ~(swap /\ "SAVE" \in p.flags)
             THEN SavedInPlace(d, o, swap) ELSE Rebuilt(d, o, swap)
    IN IF Changed(p) \/ (swap /\ "SAVE" \in p.flags)
       THEN [e EXCEPT !.planes[o][1].flags = IF swap THEN {} ELSE {"SAVE"}]
       ELSE d

(* d_swapout(): some dataspaces leave memory, and one that is left is      *)
(* saved to collect its garbage, each in turn.                             *)
FreeDataspace(d, o) ==
    [FreeValues(d, o, 0) EXCEPT !.image[o] = << >>,
                                !.planes[o] = << Base >>,
                                !.gc = SelectSeq(@, LAMBDA p : p # o)]

Collect(d, swap) ==
    IF d.gc = << >> THEN d
    ELSE [SaveDataspace(d, Head(d.gc), swap) EXCEPT !.gc = Append(Tail(@), Head(@))]

SwapOut(d, set, swap) ==
    Collect(FoldLeft(LAMBDA e, o : FreeDataspace(SaveDataspace(e, o, TRUE), o), d, SetToSeq(set)),
            swap)

---------------------------------------------------------------------------
(* What a value looks like, wherever it is: a graph, from some roots on.   *)

(* A node is nil, an array, or a slot that is not loaded.                  *)
Node(v) == IF v = Nil THEN << >> ELSE << v >>

SlotNode(d, o, s) ==
    IF s = 0 THEN << >>
    ELSE IF InMemory(d, o) /\ Top(d, o).arrays[s].arr # Nil
    THEN << Top(d, o).arrays[s].arr >> ELSE << o, s >>

SavedOf(d, o) == IF InMemory(d, o) THEN d.image[o] ELSE d.disk[o]

VarNode(d, o, x) ==
    IF d.variables[o] # NoVariables THEN Node(d.variables[o][x])
    ELSE IF SavedOf(d, o) = << >> THEN << >>
    ELSE SlotNode(d, o, SavedOf(d, o)[1].variables[x])

EltNode(d, n) ==
    IF Len(n) = 2 THEN SlotNode(d, n[1], SavedOf(d, n[1])[1].elts[n[2]])
    ELSE LET a == d.arr[n[1]]
         IN IF a.elt # Unloaded THEN Node(a.elt)
            ELSE SlotNode(d, a.home, SavedOf(d, a.home)[1].elts[a.slot])

(* A value, its element, the element of that: no object has more than      *)
(* MaxArrays arrays.                                                       *)
RECURSIVE OnFrom(_, _, _)
OnFrom(d, n, k) ==
    << n >> \o IF k = 0 THEN << >> ELSE OnFrom(d, IF n = << >> THEN n ELSE EltNode(d, n), k - 1)

On(d, n) == OnFrom(d, n, MaxArrays + 1)

(* Which places have none, and which have the same value.                  *)
Graph(d, roots) ==
    LET on == UNION {LET ns == On(d, roots[r]) IN {<< r, k, ns[k] >> : k \in DOMAIN ns} :
                         r \in DOMAIN roots}
        Places(n) == {<< p[1], p[2] >> : p \in {q \in on : q[3] = n}}
    IN << Places(<< >>), {Places(n) : n \in {p[3] : p \in on}} >>

VarNodes(d, objects) == [r \in objects \X Vars |-> VarNode(d, r[1], r[2])]

(* The values of an object, and those of all objects and of code.          *)
GraphOf(d, o) == Graph(d, VarNodes(d, {o}))

GraphUpTo(d, stack) ==
    Graph(d, VarNodes(d, Objects)
                 @@ [r \in UNION {{k} \X stack[k] : k \in DOMAIN stack} |-> << r[2] >>])

(* The arrays of an object, loaded or not.                                 *)
ReachedFrom(d, o) ==
    UNION {Range(On(d, VarNode(d, o, x))) : x \in Vars} \ {<< >>}

---------------------------------------------------------------------------
(* What a thread does.                                                     *)

(* Bounds on the arrays in memory, and on those of each object outside     *)
(* atomic code.                                                            *)
Fits(d) ==
    /\ Cardinality(DOMAIN d.arr) <= 2 * MaxArrays
    /\ Level(d) > 0 \/ \A o \in Objects : Cardinality(ReachedFrom(d, o)) <= MaxArrays

(* What code gets as a value, and the state after that: nil, an array that *)
(* it has, a variable of an object or an element of one.                   *)
ReadVar(d, o, x) == LET e == GetVariables(In(d, o), o) IN << e, e.variables[o][x] >>

ReadElt(d, i) == LET e == GetElts(d, i) IN << e, e.arr[i].elt >>

Reads(d) ==
    LET given == {<< d, v >> : v \in Last(d.stack)}
        ofvars == {ReadVar(d, o, x) : o \in Objects, x \in Vars}
        elts == {ReadElt(r[1], r[2]) : r \in {q \in ofvars : q[2] # Nil}}
    IN {<< d, Nil >>} \cup {r \in given \cup ofvars \cup elts : r[2] # Nil}

Operation(d) ==
    /\ thread.ops < MaxOps
    /\ thread' = [thread EXCEPT !.running = TRUE, !.ops = @ + 1]
    /\ data' = Freed(d)
    /\ Fits(data')

New(o, r) ==
    /\ Cardinality(DOMAIN data.arr) < MaxArrays
    /\ Operation(ArrNew(In(r[1], o), o, r[2]))

SetVar(o, x, r) == Operation(AssignVar(GetVariables(In(r[1], o), o), o, x, r[2]))

SetElt(i, r) == i # Nil /\ Operation(AssignElt(GetElts(r[1], i), i, r[2]))

(* i_funcall() of an atomic function.  A bound: levels are entered before  *)
(* any is left, and only by the first thread; those after the first count  *)
(* as operations.                                                          *)
Enter(o) ==
    /\ Level(data) = thread.entered /\ thread.entered < MaxEntered
    /\ thread.ops < MaxOps
    /\ thread' = [thread EXCEPT !.running = TRUE, !.entered = @ + 1, !.ops = @ + Level(data),
                                !.before = Append(@, GraphUpTo(data, data.stack))]
    /\ data' = In([data EXCEPT !.stack = Append(@, Last(@))], o)

Leave == thread' = [thread EXCEPT !.before = Front(@)]

Commit(r) ==
    /\ Level(data) > 0
    /\ data' = Freed(CommitPlane(r[1], r[2]))
    /\ Fits(data')
    /\ Leave

Discard == Level(data) > 0 /\ data' = Freed(DiscardPlane(data)) /\ Leave

(* endthread(), and the swapping while objects are copied.  Without a      *)
(* fragment nothing is swapped out but all, with swapout() or when memory  *)
(* is low.                                                                 *)
EndThread(set) ==
    /\ Level(data) = 0
    /\ thread.running
    /\ set \subseteq Range(data.gc)
    /\ set = {} \/ Fragment
    /\ LET d == Freed(Export(Freed([data EXCEPT !.stack = << {} >>])))
           e == SwapOut(d, set, Fragment)
       IN \/ data' = e
          \/ data' = SwapOut(e, Range(e.gc), TRUE)
    /\ thread' = [thread EXCEPT !.running = FALSE, !.entered = MaxEntered]

Next ==
    \/ /\ thread.ops < MaxOps
       /\ \E r \in Reads(data) :
             \/ \E o \in Objects : New(o, r) \/ \E x \in Vars : SetVar(o, x, r)
             \/ \E q \in Reads(r[1]) : SetElt(r[2], q)
    \/ Level(data) > 0 /\ \E r \in Reads(data) : Commit(r)
    \/ \E o \in Objects : Enter(o)
    \/ Discard
    \/ \E set \in SUBSET Objects : EndThread(set)

Spec == Init /\ [][Next]_vars

---------------------------------------------------------------------------
(* Properties.                                                             *)

TypeOK ==
    /\ \A o \in Objects :
          /\ data.variables[o] \in Variables \cup {NoVariables}
          /\ \A k \in DOMAIN data.planes[o] : data.planes[o][k] \in Plane
          /\ Range(data.image[o] \o data.disk[o]) \subseteq Saved
    /\ \A i \in DOMAIN data.arr : data.arr[i] \in Array

(* All arrays but those that only refer to each other.                     *)
RECURSIVE Reached(_, _)
Reached(d, set) ==
    LET more == {d.arr[i].elt : i \in set \cap DOMAIN d.arr}
    IN IF more \subseteq set THEN set ELSE Reached(d, set \cup more)

InUse(d) == Reached(d, Roots(d)) \ {Nil, Unloaded}

(* No array is freed that something refers to, not even a backup of a      *)
(* plane; and the primary reference of an array is a slot that holds it,   *)
(* or of a plane that is there.                                            *)
ArraysSound ==
    /\ TypeOK
    /\ \A i \in InUse(data) :
          /\ i \in DOMAIN data.arr
          /\ LET a == data.arr[i]
             IN /\ PlaneOf(data, i) \in {p.level : p \in Range(data.planes[a.home])}
                /\ a.slot # 0 => Top(data, a.home).arrays[a.slot].arr = i

(* The slots of all values in a dataspace, changed or not.                 *)
Slots(d, o) ==
    LET sv == d.image[o][1]
        arrays == Top(d, o).arrays
    IN [variables |-> IF d.variables[o] = NoVariables THEN sv.variables
                      ELSE [x \in Vars |-> Put(d, o, d.variables[o][x])],
        elts |-> [s \in DOMAIN sv.elts |->
                    IF arrays[s].arr = Nil \/ d.arr[arrays[s].arr].elt = Unloaded THEN sv.elts[s]
                    ELSE Put(d, o, d.arr[arrays[s].arr].elt)]]

(* While "achange" is 0, at any level of atomic code, the dataspace has    *)
(* the arrays that were saved and no other, and each is counted once for   *)
(* every variable and element that refers to it, loaded or not: changes    *)
(* can be saved in place, and an array leaves its slot only with its last  *)
(* reference.                                                              *)
CountsRight ==
    \A o \in Objects :
        data.image[o] # << >> /\ Top(data, o).achange = 0 =>
            LET slots == Slots(data, o)
                arrays == Top(data, o).arrays
            IN Counts(slots.variables, slots.elts) =
                  [s \in DOMAIN arrays |-> IF arrays[s].arr = Nil THEN data.image[o][1].refs[s]
                                           ELSE arrays[s].ref]

(* Between threads, no array is reached from two objects: each belongs to  *)
(* the object that it is reached from, through whatever arrays of others   *)
(* it was passed.                                                          *)
Apart ==
    ~thread.running =>
        \A o \in Objects :
            \A n \in ReachedFrom(data, o) :
                o = IF Len(n) = 2 THEN n[1] ELSE data.arr[n[1]].home

Leaves == Len(data'.stack) < Len(data.stack)

(* Exporting arrays at the end of a thread, saving a dataspace as a whole  *)
(* or in place, and removing it from memory leave the values of every      *)
(* object as they are; and what is shared in them too, unless two objects  *)
(* import from each other.  Committing leaves all values that the callers  *)
(* of the code have, with what is shared in them.                          *)
ValuesKept ==
    [][/\ ~thread'.running =>
            \A o \in Objects :
               LET graph == GraphOf(data, o)
                   after == GraphOf(data', o)
               IN /\ after[1] = graph[1]
                  /\ Cardinality({p \in Objects : Top(data, p).imports # 0}) <= 1 => after = graph
       /\ Leaves /\ (~Discard \/ Commit(<< data, Nil >>)) =>
              GraphUpTo(data', Front(data.stack)) = GraphUpTo(data, Front(data.stack))]_vars

(* Code that fails leaves no trace in the values of any object, nor in the *)
(* arrays that its callers have.                                           *)
Undone == [][Leaves /\ Discard => GraphUpTo(data', data'.stack) = Last(thread.before)]_vars

=============================================================================
