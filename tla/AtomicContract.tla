-------------------------- MODULE AtomicContract --------------------------
(***************************************************************************)
(* What atomic code promises about callouts, without the patches of        *)
(* src/src/data.c: there is a state of the callouts to go back to for each *)
(* level, and the callout table follows the dataspaces outside of atomic   *)
(* code.                                                                   *)
(***************************************************************************)
EXTENDS Integers, SequencesExt

CONSTANTS
    Callouts,       \* callouts
    None            \* of a callout that does not exist

VARIABLES
    current,        \* the callouts, as the dataspaces have them
    saved,          \* for each level, what they were before
    table           \* the callouts that will run, and when

cvars == << current, saved, table >>

Agrees(tb, cur) ==
    /\ DOMAIN tb = {c \in Callouts : cur[c] # None}
    /\ \A c \in DOMAIN tb : tb[c] = cur[c].t

CInit ==
    /\ current = [c \in Callouts |-> None]
    /\ saved = << >>
    /\ table = << >>

(* One callout is started or removed.                                      *)
Change ==
    /\ \E c \in Callouts : \A d \in Callouts \ {c} : current'[d] = current[d]
    /\ IF saved = << >> THEN Agrees(table', current') ELSE table' = table
    /\ saved' = saved

Enter ==
    /\ saved' = Append(saved, current)
    /\ UNCHANGED << current, table >>

(* Success of the innermost atomic function.                               *)
Succeed ==
    /\ saved # << >>
    /\ saved' = Front(saved)
    /\ IF saved' = << >> THEN Agrees(table', current) ELSE table' = table
    /\ current' = current

(* Failure: all is as it was before.                                       *)
Fail ==
    /\ saved # << >>
    /\ current' = Last(saved)
    /\ saved' = Front(saved)
    /\ table' = table

CNext == Change \/ Enter \/ Succeed \/ Fail

Spec == CInit /\ [][CNext]_cvars

===========================================================================
