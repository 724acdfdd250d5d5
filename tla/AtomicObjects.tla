--------------------------- MODULE AtomicObjects ---------------------------
(***************************************************************************)
(* What atomic code promises of the table of objects: every level of it    *)
(* works on a table of its own, which replaces the one below when the code *)
(* ends and is forgotten when it fails.  Only the dataspaces that objects  *)
(* got in the meantime stay, at every level where there is such an object. *)
(***************************************************************************)
EXTENDS Integers, TLC

CONSTANTS Names, NoName, OTABSZ, MaxLevel

VARIABLES
    level,      \* of atomic code, 0 outside
    tables      \* one for each level

vars == << level, tables >>

Index == 0 .. OTABSZ - 1
OBJ_NONE == -1

Put(table) == tables' = [tables EXCEPT ![level] = table] /\ UNCHANGED level

Unused == [life |-> "free", name |-> NoName, of |-> OBJ_NONE, refs |-> 0, data |-> FALSE]
Used(name, of) == [life |-> "live", name |-> name, of |-> of, refs |-> 1, data |-> FALSE]

Are(t, life) == {i \in Index : t[i].life = life}

Init == level = 0 /\ tables = (0 :> [i \in Index |-> Unused])

---------------------------------------------------------------------------
(* What code does with the table t of its level.                           *)

Compile(t, n) ==
    /\ \A i \in Are(t, "live") : t[i].name # n
    /\ \E i \in Are(t, "free") : Put([t EXCEPT ![i] = Used(n, OBJ_NONE)])

Clone(t, m) ==
    /\ t[m].name # NoName
    /\ \E i \in Are(t, "free") : Put([t EXCEPT ![i] = Used(NoName, m), ![m].refs = @ + 1])

(* At all levels where there is such an object.                            *)
Touch(i) ==
    /\ tables' = [k \in 0 .. level |->
                      [tables[k] EXCEPT ![i].data = tables[k][i].life # "free"]]
    /\ UNCHANGED level

(* A clone has a reference to its master, a master to itself.              *)
Released(t, m) == [t EXCEPT ![m].refs = @ - 1]

Destruct(t, i) ==
    Put(Released([t EXCEPT ![i].life = "dead"], IF t[i].of = OBJ_NONE THEN i ELSE t[i].of))

Enter(t) ==
    /\ level < MaxLevel
    /\ level' = level + 1
    /\ tables' = tables @@ (level + 1 :> t)

Left(table) ==
    /\ level > 0
    /\ level' = level - 1
    /\ tables' = [k \in 0 .. level - 1 |-> IF k = level - 1 THEN table ELSE tables[k]]

Commit(t) == Left(t)
Discard == Left(tables[level - 1])

(* Between threads: what was destructed is freed.                          *)
Cleaned(o) ==
    IF o.life # "dead" THEN o
    ELSE IF o.of # OBJ_NONE \/ o.refs = 0 THEN Unused ELSE [o EXCEPT !.data = FALSE]

Clean(t) ==
    /\ level = 0
    /\ Put([i \in Index |-> Cleaned(t[i])])

Step(t) ==
    \/ \E n \in Names : Compile(t, n)
    \/ \E i \in Are(t, "live") : Clone(t, i) \/ Touch(i) \/ Destruct(t, i)
    \/ Enter(t) \/ Commit(t) \/ Discard \/ Clean(t)

Next == \E t \in {tables[level]} : Step(t)

Spec == Init /\ [][Next]_vars
===========================================================================
