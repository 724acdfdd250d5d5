---------------------------- MODULE ObjectTable ----------------------------
(***************************************************************************)
(* The table of objects (src/src/object.c): masters, which have a name and *)
(* a program, clones of them, and programs that inherit others.  Masters   *)
(* are recompiled while clones of the old program exist, some of them on   *)
(* the swap device: the old program stays as an upgrade template, in a     *)
(* list from the master's newest to its oldest, until every dataspace that *)
(* was laid out for it is converted.                                       *)
(*                                                                         *)
(* A thread compiles, clones and destructs; at its end o_clean() frees     *)
(* what was destructed, puts the new programs in place and counts for how  *)
(* many objects each template is still needed.                             *)
(*                                                                         *)
(* The layout of a program's variables is a number: a recompilation that   *)
(* changes them makes the next one, and a variable map leads from one to   *)
(* the other.                                                              *)
(***************************************************************************)
EXTENDS Integers, FiniteSets, SequencesExt

CONSTANTS
    Libs,           \* names of programs to inherit, without data
    Clonable,       \* names of programs to clone
    Lightweight,    \* names of programs with non-persistent instances
    NoName,
    Index,          \* the entries of the table
    OBJ_NONE,       \* no entry
    Bare,           \* FALSE if other masters are called by the thread that
                    \* compiles them
    Abandon,        \* FALSE if no thread recompiles an object and destructs
                    \* it and all its clones
    MaxLayout,      \* bound: layouts of one object
    MaxSteps        \* bound: operations of one thread

Names == Libs \cup Clonable \cup Lightweight

ASSUME ObjectAssumption ==
    /\ NoName \notin Names
    /\ IsFiniteSet(Index)
    /\ OBJ_NONE \notin Index
    /\ Bare \in BOOLEAN
    /\ Abandon \in BOOLEAN
    /\ MaxLayout \in Nat \ {0}
    /\ MaxSteps \in Nat

VARIABLES
    tab,            \* the table, its lists and its free entries
    light,          \* non-persistent instances, as they are stored anywhere
    steps           \* operations of this thread

vars == << tab, light, steps >>

OTABSZ == Cardinality(Index)
Link == Index \cup {OBJ_NONE}

(* A program: its layout, what it inherits directly or not, and in a       *)
(* template the variable map.  Layout 0 is a garbled one.                  *)
Garbled == 0
Layouts == Garbled .. MaxLayout
Vmap == [from : Layouts, to : Layouts]
NoVmap == [from |-> Garbled, to |-> Garbled]
Control == [layout : Layouts, inherits : SUBSET Index, vmap : Vmap]
NoControl == [layout |-> Garbled, inherits |-> {}, vmap |-> NoVmap]

Dataspace == [at : {"none", "memory", "swap"}, layout : Layouts]
NoData == [at |-> "none", layout |-> Garbled]
InMemory(layout) == [at |-> "memory", layout |-> layout]

Object == [name : Names \cup {NoName}, master : BOOLEAN, lw : BOOLEAN,
           cref : Nat \cup Link, prev : Link, count : Nat, update : Nat, ref : Nat \cup Index,
           ctrl : Control, data : Dataspace, next : Link]

Blank == [name |-> NoName, master |-> FALSE, lw |-> FALSE,
          cref |-> 0, prev |-> OBJ_NONE, count |-> 0, update |-> 0, ref |-> 0,
          ctrl |-> NoControl, data |-> NoData, next |-> OBJ_NONE]

Table == [obj : [Index -> Object],
          clean : Link, upgrade : Link, upgraded : Link, destruct : Link,
          free : SUBSET Index, objects : Int]

Init ==
    /\ tab = [obj |-> [i \in Index |-> Blank],
              clean |-> OBJ_NONE, upgrade |-> OBJ_NONE, upgraded |-> OBJ_NONE,
              destruct |-> OBJ_NONE, free |-> Index, objects |-> 0]
    /\ light = {}
    /\ steps = 0

---------------------------------------------------------------------------
(* Objects of the table obj.                                               *)

IsTemplate(obj, i) == obj[i].master /\ obj[i].name = NoName
Alive(obj, i) == obj[i].count # 0 /\ ~IsTemplate(obj, i)
Masters(obj) == {i \in Index : Alive(obj, i) /\ obj[i].master}
Clones(obj, m) == {i \in Index : Alive(obj, i) /\ ~obj[i].master /\ obj[i].ref = m}

Upgrading(o) == o.cref > o.ref
IsInherited(o) == o.ref - 1 # o.cref
HasData(o) == o.data.at # "none"

(* The links from i through Next, up to OBJ_NONE.                          *)
Followed(i, After(_)) ==
    LET f[k \in 1 .. OTABSZ] ==
            IF k = 1 THEN i ELSE IF f[k - 1] = OBJ_NONE THEN OBJ_NONE ELSE After(f[k - 1])
    IN SelectSeq(f, LAMBDA j : j # OBJ_NONE)

(* The templates of m, the newest first.                                   *)
Chain(obj, m) == Followed(obj[m].prev, LAMBDA j : obj[j].prev)

(* d_get_varmap(): the templates from the newest, except one that is not   *)
(* in place yet, back to the one of this update, and all their maps in one.*)
Lost == [tmpl |-> OBJ_NONE, vmap |-> NoVmap]

(* Mutant: the newest map alone.                                           *)
ComposedOfOne(maps) == Head(maps)

Composed(maps) ==
    [from |-> Last(maps).from,
     to |-> IF \A k \in 2 .. Len(maps) : maps[k].to = maps[k - 1].from
            THEN Head(maps).to ELSE Garbled]

Traced(obj, chain, found) ==
    IF found = {} THEN Lost
    ELSE [tmpl |-> chain[Min(found)],
          vmap |-> Composed([k \in 1 .. Min(found) |-> obj[chain[k]].ctrl.vmap])]

TracedIn(obj, chain, update) ==
    Traced(obj, chain, {k \in DOMAIN chain : obj[chain[k]].update = update})

Varmap(obj, m, update) ==
    TracedIn(obj, IF Upgrading(obj[m]) THEN Tail(Chain(obj, m)) ELSE Chain(obj, m), update)

(* Variables of another layout than the map's come out garbled.            *)
Mapped(vmap, layout) == IF layout = vmap.from THEN vmap.to ELSE Garbled

---------------------------------------------------------------------------
(* Operations on the table t.                                              *)

(* o_alloc(): an entry that is not in use, on the free list or above       *)
(* nobjects; which of them is left open.                                   *)
Alloc(t, i) == [t EXCEPT !.free = @ \ {i}, !.objects = @ + 1]

(* On the free list.  What is left in the fields of the entry is not read  *)
(* before it is set again.                                                 *)
Free(t, i) ==
    [t EXCEPT !.obj[i] = Blank, !.free = @ \cup {i}, !.objects = @ - 1]

Referred(obj, set, n) ==
    [i \in Index |-> IF i \in set THEN [obj[i] EXCEPT !.ref = @ + n] ELSE obj[i]]

(* o_delete(): on the list of programs to delete, which is linked through  *)
(* cref, and everything inherited has a reference less, and so on.         *)
Listed(t, i) ==
    [t EXCEPT !.obj[i].cref = t.destruct, !.destruct = i]

ProgramOf(obj, i) ==
    IF Upgrading(obj[i]) THEN obj[obj[i].prev].ctrl ELSE obj[i].ctrl

DeleteMore(t, todo, i, inherits) ==
    [tab |-> Listed([t EXCEPT !.obj = Referred(@, inherits, -1)], i),
     todo |-> (todo \ {i}) \cup {j \in inherits : t.obj[j].ref = 1}]

Delete(t, set) ==
    LET More(s, i) == DeleteMore(s.tab, s.todo, i, ProgramOf(s.tab.obj, i).inherits)
        Step(s, k) == IF s.todo = {} THEN s ELSE More(s, CHOOSE i \in s.todo : TRUE)
    IN FoldLeft(Step, [tab |-> t, todo |-> set], [k \in 1 .. OTABSZ |-> k]).tab

(* References to a set of programs are removed.                            *)
Unreferred(t, set) ==
    Delete([t EXCEPT !.obj = Referred(@, set, -1)], {j \in set : t.obj[j].ref = 1})

(* o_upgraded()                                                            *)
Upgraded(t, tmpl) ==
    [t EXCEPT !.obj[tmpl].count = @ + 1,
              !.obj[tmpl].next = IF t.obj[tmpl].count = 0 THEN t.upgraded ELSE @,
              !.upgraded = IF t.obj[tmpl].count = 0 THEN tmpl ELSE @]

UpgradeData(t, i, to, traced) ==
    Upgraded([t EXCEPT !.obj[i].data = InMemory(Mapped(traced.vmap, @.layout)),
                       !.obj[i].update = to],
             traced.tmpl)

(* d_load_dataspace(): a clone of an old program is converted.             *)
Outdated(obj, i) == ~obj[i].master /\ obj[i].update # obj[obj[i].ref].update

Converted(t, i, m) ==
    IF Varmap(t.obj, m, t.obj[i].update) = Lost
    THEN [t EXCEPT !.obj[i].data = InMemory(Garbled)]
    ELSE UpgradeData(t, i, t.obj[m].update, Varmap(t.obj, m, t.obj[i].update))

LoadData(t, i) ==
    IF t.obj[i].data.at # "swap" THEN t
    ELSE IF Outdated(t.obj, i) THEN Converted(t, i, t.obj[i].ref)
    ELSE [t EXCEPT !.obj[i].data.at = "memory"]

(* o_del(), with the dataspace in memory                                   *)
OnCleanList(t, i) == [t EXCEPT !.obj[i].next = t.clean, !.clean = i]

Unreference(t, i, m) ==
    IF t.obj[m].ref = 0 /\ ~Upgrading(t.obj[m])
    THEN OnCleanList(Delete(t, {m}), i) ELSE OnCleanList(t, i)

Del(t, i) ==
    IF t.obj[i].master
    THEN Unreference([t EXCEPT !.obj[i].count = 0, !.obj[i].ref = @ - 1], i, i)
    ELSE Unreference([t EXCEPT !.obj[i].count = 0,
                               !.obj[t.obj[i].ref].cref = @ - 1,
                               !.obj[t.obj[i].ref].ref = @ - 1], i, t.obj[i].ref)

---------------------------------------------------------------------------
(* What a thread does.                                                     *)

Operation == steps < MaxSteps /\ steps' = steps + 1

(* ctrl_inherit(): masters that are not being upgraded, with all that they *)
(* inherit; no two of one name, and none of the name of the new one.       *)
Inherits(set) == set \cup UNION {tab.obj[i].ctrl.inherits : i \in set}

MayInherit(n, set) ==
    /\ \A i \in set : ~Upgrading(tab.obj[i])
    /\ \A i \in Inherits(set) : tab.obj[i].name # n
    /\ \A i, j \in Inherits(set) : tab.obj[i].name = tab.obj[j].name => i = j

(* c_compile() and o_new()                                                 *)
NewObject(n, inherits) ==
    [Blank EXCEPT !.name = n, !.master = TRUE, !.count = 1, !.ref = 1,
                  !.ctrl = [layout |-> 1, inherits |-> inherits, vmap |-> NoVmap]]

Compile(n, set) ==
    /\ Operation
    /\ \A m \in Masters(tab.obj) : tab.obj[m].name # n
    /\ MayInherit(n, set)
    /\ \E i \in tab.free :
          tab' = [Alloc(tab, i) EXCEPT
                    !.obj = [Referred(@, Inherits(set), 1) EXCEPT
                                ![i] = NewObject(n, Inherits(set))]]
    /\ UNCHANGED light

(* c_compile() and o_upgrade(), for variables that changed or did not.     *)
Template(m, o, layout, inherits) ==
    [Blank EXCEPT !.master = TRUE, !.update = o.update, !.cref = m, !.prev = o.prev,
                  !.next = tab.upgrade,
                  !.ctrl = [layout |-> layout, inherits |-> inherits,
                            vmap |-> IF layout = o.ctrl.layout THEN NoVmap
                                     ELSE [from |-> o.ctrl.layout, to |-> layout]]]

(* Mutant: the programs inherited before keep the reference.               *)
RecompileReferring(m, set, layout) ==
    LET o == tab.obj[m]
    IN /\ Operation
       /\ ~Upgrading(o) /\ ~IsInherited(o)
       /\ MayInherit(o.name, set)
       /\ layout \in {o.ctrl.layout, o.ctrl.layout + 1} /\ layout <= MaxLayout
       /\ \E i \in tab.free :
             tab' = [Alloc(tab, i) EXCEPT
                        !.upgrade = i,
                        !.obj = [Referred(@, Inherits(set), 1) EXCEPT
                                    ![i] = Template(m, o, layout, Inherits(set)),
                                    ![m].cref = @ + 2,
                                    ![m].prev = i]]
       /\ UNCHANGED light

Recompile(m, set, layout) ==
    LET o == tab.obj[m]
    IN /\ Operation
       /\ ~Upgrading(o) /\ ~IsInherited(o)
       /\ MayInherit(o.name, set)
       /\ layout \in {o.ctrl.layout, o.ctrl.layout + 1} /\ layout <= MaxLayout
       /\ \E i \in tab.free :
             tab' = Unreferred(
                        [Alloc(tab, i) EXCEPT
                            !.upgrade = i,
                            !.obj = [Referred(@, Inherits(set), 1) EXCEPT
                                        ![i] = Template(m, o, layout, Inherits(set)),
                                        ![m].cref = @ + 2,
                                        ![m].prev = i]],
                        o.ctrl.inherits)
       /\ UNCHANGED light

(* i_call(): the first call of a master gives it its data.                 *)
Touch(m) ==
    /\ tab.obj[m].name \notin Libs
    /\ ~HasData(tab.obj[m])
    /\ tab' = [tab EXCEPT !.obj[m].data = InMemory(tab.obj[m].ctrl.layout)]
    /\ UNCHANGED << light, steps >>

(* clone_object(): o_clone(), and a call of the clone.                     *)
Clone(m) ==
    /\ Operation
    /\ tab.obj[m].name \in Clonable
    /\ \E i \in tab.free :
          tab' = [Alloc(tab, i) EXCEPT
                    !.obj[i] = [Blank EXCEPT !.count = 1, !.update = tab.obj[m].update,
                                             !.ref = m,
                                             !.data = InMemory(tab.obj[m].ctrl.layout)],
                    !.obj[m].cref = @ + 1,
                    !.obj[m].ref = @ + 1]
    /\ UNCHANGED light

MasterOf(i) == IF tab.obj[i].master THEN i ELSE tab.obj[i].ref

(* destruct_object()                                                       *)
LastOfUpgrade(i) ==
    Upgrading(tab.obj[MasterOf(i)]) /\ tab.obj[MasterOf(i)].ref = 1

Destruct(i) ==
    /\ Operation
    /\ Alive(tab.obj, i)
    /\ Abandon \/ ~LastOfUpgrade(i)
    /\ tab' = Del(LoadData(tab, i), i)
    /\ light' = {x \in light : x.of # i}

(* o_dataspace(): an object that is called is loaded.                      *)
Load(i) ==
    /\ Operation
    /\ Alive(tab.obj, i)
    /\ tab.obj[i].data.at = "swap"
    /\ tab' = LoadData(tab, i)
    /\ UNCHANGED light

(* new_object(): o_lwobj() and the instance.                               *)
NewLight(m) ==
    /\ Operation
    /\ tab.obj[m].name \in Lightweight
    /\ light' = light \cup {[of |-> m, update |-> tab.obj[m].update,
                             layout |-> tab.obj[m].ctrl.layout]}
    /\ tab' = [tab EXCEPT !.obj[m].lw = TRUE]

(* d_upgrade_lwobj(), when an instance is called.                          *)
Renewed(x) ==
    [of |-> x.of, update |-> tab.obj[x.of].update,
     layout |-> IF x.update = tab.obj[x.of].update THEN x.layout
                ELSE Mapped(Varmap(tab.obj, x.of, x.update).vmap, x.layout)]

CallLight(x) ==
    /\ Operation
    /\ x.update # tab.obj[x.of].update
    /\ light' = (light \ {x}) \cup {Renewed(x)}
    /\ UNCHANGED tab

---------------------------------------------------------------------------
(* o_clean()                                                               *)

(* A loop over a linked list that Body takes the first off.                *)
While(t, First(_), Body(_, _)) ==
    FoldLeft(LAMBDA s, k : IF First(s) = OBJ_NONE THEN s ELSE Body(s, First(s)),
             t, [k \in 1 .. OTABSZ |-> k])

(* o_purge_upgrades(): the instances of a destructed object need no        *)
(* templates.                                                              *)
Purged(t, i, set, gone) ==
    FoldLeft(Listed,
             [t EXCEPT !.obj = [j \in Index |->
                 IF j \in set THEN [t.obj[j] EXCEPT !.lw = FALSE, !.ref = @ - 1]
                 ELSE IF j = i /\ gone # << >> THEN [t.obj[j] EXCEPT !.prev = OBJ_NONE]
                 ELSE t.obj[j]]],
             gone)

Purge(t, i, templates) ==
    Purged(t, i, ToSet(templates), SelectSeq(templates, LAMBDA j : t.obj[j].ref = 1))

LightTemplates(obj, chain) ==
    SelectSeq(chain, LAMBDA j : \A k \in DOMAIN chain :
                        k <= SelectInSeq(chain, LAMBDA x : x = j) => obj[chain[k]].lw)

(* A clone that was never converted has no need of its template now.       *)
NotConverted(t, i) ==
    IF Outdated(t.obj, i)
    THEN Upgraded(t, Varmap(t.obj, t.obj[i].ref, t.obj[i].update).tmpl)
    ELSE t

CleanOne(t, i) ==
    IF t.obj[i].master THEN Purge(t, i, LightTemplates(t.obj, Chain(t.obj, i)))
    ELSE Free(NotConverted(t, i), i)

CleanFirst(t, i) ==
    CleanOne([t EXCEPT !.clean = t.obj[i].next, !.obj[i].next = OBJ_NONE,
                       !.obj[i].data = NoData], i)

(* o_clean_upgrades(): what was converted by a template was converted by   *)
(* all the newer ones too; one that is needed no longer leaves the chain.  *)
(* Mutant: the template itself alone is counted down.                      *)
NewerNone(obj, i) == << i >>

Newer(obj, i) ==
    Followed(i, LAMBDA j : IF obj[obj[j].cref].name = NoName THEN obj[j].cref ELSE OBJ_NONE)

Unlinked(t, i, next) ==
    IF t.obj[next].prev = i THEN [t EXCEPT !.obj[next].prev = OBJ_NONE]
    ELSE [t EXCEPT !.obj[t.obj[next].prev].prev = OBJ_NONE]

(* Mutant: a template that is not needed leaves its chain and is kept.     *)
CountDownUnlisted(t, i, n) ==
    IF t.obj[i].ref = n
    THEN Unlinked([t EXCEPT !.obj[i].ref = 0], i, t.obj[i].cref)
    ELSE [t EXCEPT !.obj[i].ref = @ - n]

CountDown(t, i, n) ==
    IF t.obj[i].ref = n
    THEN Listed(Unlinked([t EXCEPT !.obj[i].ref = 0], i, t.obj[i].cref), i)
    ELSE [t EXCEPT !.obj[i].ref = @ - n]

CountFirst(t, i) ==
    FoldLeft(LAMBDA s, j : CountDown(s, j, t.obj[i].count),
             [t EXCEPT !.upgraded = t.obj[i].next, !.obj[i].next = OBJ_NONE,
                       !.obj[i].count = 0],
             Newer(t.obj, i))

(* d_upgrade_mem(): all dataspaces in memory.                              *)
UpgradeMem(t, i, m) ==
    LET Step(s, j) == IF t.obj[i].ctrl.vmap = NoVmap THEN s
                      ELSE UpgradeData(s, j, s.obj[m].update,
                                       [tmpl |-> i, vmap |-> t.obj[i].ctrl.vmap])
    IN FoldLeft(Step, t,
                SetToSeq({j \in Clones(t.obj, m) \cup (Masters(t.obj) \cap {m}) :
                              t.obj[j].data.at = "memory"}))

(* How many objects are to be converted by the template.                   *)
Users(o) ==
    o.cref - 2 + (IF o.lw THEN 1 ELSE 0) + (IF o.count # 0 /\ HasData(o) THEN 1 ELSE 0)

CountUpdate(o, users) ==
    IF users > (IF o.count # 0 THEN 1 ELSE 0) THEN o.update + 1 ELSE o.update

LoadMaster(o) ==
    IF o.count # 0 /\ o.data.at = "swap" THEN [o.data EXCEPT !.at = "memory"] ELSE o.data

(* The programs change places; the template keeps the variable map.        *)
NewProgram(o, ctrl) == [o EXCEPT !.cref = @ - 2, !.ctrl = [ctrl EXCEPT !.vmap = NoVmap]]

OldProgram(tmpl, o, users) ==
    [tmpl EXCEPT !.ref = users, !.lw = o.lw,
                 !.ctrl = [o.ctrl EXCEPT !.vmap = tmpl.ctrl.vmap]]

UpgradeVariables(t, i, m, users) ==
    [t EXCEPT !.obj = [j \in Index |->
        CASE j = m -> [NewProgram(t.obj[m], t.obj[i].ctrl) EXCEPT
                            !.update = CountUpdate(t.obj[m], users),
                            !.data = LoadMaster(t.obj[m])]
          [] j = i -> OldProgram(t.obj[i], t.obj[m], users)
          [] j = t.obj[i].prev -> [t.obj[j] EXCEPT !.cref = i]
          [] OTHER -> t.obj[j]]]

NoVariables(t, i, m, users) ==
    Listed([t EXCEPT !.obj[m] = [NewProgram(@, t.obj[i].ctrl) EXCEPT !.prev = t.obj[i].prev],
                     !.obj[i] = OldProgram(@, t.obj[m], users)], i)

InPlace(t, i, m) ==
    IF t.obj[i].ctrl.vmap # NoVmap /\ Users(t.obj[m]) # 0
    THEN UpgradeVariables(t, i, m, Users(t.obj[m]))
    ELSE NoVariables(t, i, m, Users(t.obj[m]))

UpgradeOne(t, i, m) ==
    IF t.obj[m].ref = 0 THEN Listed(t, i) ELSE UpgradeMem(InPlace(t, i, m), i, m)

UpgradeFirst(t, i) ==
    UpgradeOne([t EXCEPT !.upgrade = t.obj[i].next, !.obj[i].next = OBJ_NONE],
               i, t.obj[i].cref)

DestructFirst(t, i) == Free([t EXCEPT !.destruct = t.obj[i].cref], i)

CleanUpgrades(t) == While(t, LAMBDA s : s.upgraded, CountFirst)

Cleaned(t) ==
    While(CleanUpgrades(While(CleanUpgrades(While(t, LAMBDA s : s.clean, CleanFirst)),
                              LAMBDA s : s.upgrade, UpgradeFirst)),
          LAMBDA s : s.destruct, DestructFirst)

(* endthread(): o_clean(), and d_swapout() puts some data on the device.   *)
SwapOut(obj, set) ==
    [i \in Index |-> IF i \in set THEN [obj[i] EXCEPT !.data.at = "swap"] ELSE obj[i]]

InMem(obj) == {i \in Index : obj[i].data.at = "memory"}

EndThread ==
    /\ Bare \/ \A m \in Masters(tab.obj) : tab.obj[m].name \in Libs \/ HasData(tab.obj[m])
    /\ \E t \in {Cleaned(tab)} : \E set \in SUBSET InMem(t.obj) :
            tab' = [t EXCEPT !.obj = SwapOut(@, set)]
    /\ steps' = 0
    /\ UNCHANGED light

---------------------------------------------------------------------------
Libraries == {i \in Masters(tab.obj) : tab.obj[i].name \in Libs}

Next ==
    \/ \E n \in Names, set \in SUBSET Libraries : Compile(n, set)
    \/ \E m \in Masters(tab.obj), set \in SUBSET Libraries, layout \in Layouts :
            Recompile(m, set, layout)
    \/ \E m \in Masters(tab.obj) : Touch(m) \/ Clone(m) \/ NewLight(m)
    \/ \E i \in Index : Destruct(i) \/ Load(i)
    \/ \E x \in light : CallLight(x)
    \/ EndThread

Spec == Init /\ [][Next]_vars

---------------------------------------------------------------------------
(* Properties.                                                             *)

(* Every variable keeps its type.                                          *)
TypeOK ==
    /\ tab \in Table
    /\ light \in SUBSET [of : Index, update : Nat, layout : Layouts]

(* Nothing is left for o_clean() to do.                                    *)
Between == steps = 0 /\ {tab.clean, tab.upgrade, tab.upgraded, tab.destruct} = {OBJ_NONE}

(* Masters that are still needed, and the templates of each.               *)
Needed(obj) == {i \in Index : obj[i].name # NoName /\ obj[i].ref > 0}
Templates(obj) == UNION {ToSet(Chain(obj, m)) : m \in Needed(obj)}

(* The masters whose new programs o_clean() is yet to put in place.        *)
InPlaceLater(m) ==
    m \in {tab.obj[i].cref : i \in ToSet(Followed(tab.upgrade, LAMBDA j : tab.obj[j].next))}

(* "ref count (if master object)": one for the object, one for each clone  *)
(* and one for each program that inherits it; cref counts the clones.      *)
References ==
    \A m \in Needed(tab.obj) :
        LET clones == Cardinality(Clones(tab.obj, m))
            heirs == Cardinality({p \in Needed(tab.obj) :
                                      m \in ProgramOf(tab.obj, p).inherits})
        IN /\ tab.obj[m].ref = (IF Alive(tab.obj, m) THEN 1 ELSE 0) + clones + heirs
           /\ tab.obj[m].cref = clones + (IF InPlaceLater(m) THEN 2 ELSE 0)

(* What is freed is used by nobody, and is free once.                      *)
Used ==
    {i \in Index : Alive(tab.obj, i)} \cup Needed(tab.obj) \cup Templates(tab.obj)
        \cup {tab.obj[i].ref : i \in {j \in Index : Alive(tab.obj, j) /\ ~tab.obj[j].master}}
        \cup UNION {ProgramOf(tab.obj, i).inherits : i \in Needed(tab.obj)}

FreeUnused ==
    /\ Used \cap tab.free = {}
    /\ tab.objects = OTABSZ - Cardinality(tab.free)

(* Between threads everything that is not free is used.                    *)
NoLeak == Between => Index \ tab.free \subseteq Used

(* Between threads the free entries are exactly those that nobody uses,    *)
(* and in the middle of one none of them is used: whoever gives up an      *)
(* object last, a clone, an inheriting program, a template or a thread.    *)
FreeRight == FreeUnused /\ NoLeak

(* The variables of every object are those of its program, if it is in     *)
(* memory, or will be once it is loaded.                                   *)
DataFits ==
    \A i \in Index :
        Alive(tab.obj, i) /\ HasData(tab.obj[i]) =>
            LoadData(tab, i).obj[i].data.layout = tab.obj[MasterOf(i)].ctrl.layout

(* And so are those of non-persistent instances, which no template counts. *)
LightFits ==
    \A x \in light : Renewed(x).layout = tab.obj[x.of].ctrl.layout

(* Every object's variables are those of its program, however many         *)
(* upgrades ago they were made.                                            *)
LayoutsFit == DataFits /\ LightFits

(* "removing issue in middle of list": a template is needed by as many as  *)
(* are still to be converted by it, no fewer than a newer one's.           *)
TemplatesCounted ==
    Between =>
        \A m \in Needed(tab.obj) : \A i \in ToSet(Chain(tab.obj, m)) :
            tab.obj[i].ref = (IF tab.obj[i].lw THEN 1 ELSE 0)
                + Cardinality({c \in Clones(tab.obj, m) : tab.obj[c].update <= tab.obj[i].update})

(* The table and the counts of its templates.                              *)
Consistent == TypeOK /\ TemplatesCounted

===========================================================================
