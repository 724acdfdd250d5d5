------------------------- MODULE CallOutContract -------------------------
(***************************************************************************)
(* What call_out() and remove_call_out() promise to LPC code, without the  *)
(* table that src/src/call_out.c keeps: a callout is waiting for its time, *)
(* or ready to run.  It runs once, not before its time and not after it    *)
(* was removed; callouts become ready in the order of the seconds they are *)
(* due, and run in the order in which they became ready.                   *)
(***************************************************************************)
EXTENDS Integers, SequencesExt

CONSTANTS
    Callouts,       \* the callouts
    Dues,           \* the times [t, m] they may be waiting for
    MSECS           \* sub-second units in a second

VARIABLES
    waiting,        \* the callouts that wait, and for which time
    ready,          \* the callouts that are going to run, in order
    clock           \* the adjusted time

cvars == << waiting, ready, clock >>

Live == DOMAIN waiting \cup ToSet(ready)
Reached(x) == x.t * MSECS + x.m <= clock.t * MSECS + clock.m

CInit ==
    /\ waiting = << >>
    /\ ready = << >>
    /\ clock = [t |-> 0, m |-> 0]

Call(c) ==
    /\ c \notin Live
    /\ \/ ready' = Append(ready, c) /\ waiting' = waiting
       \/ \E due \in Dues :
              /\ waiting' = [x \in DOMAIN waiting \cup {c} |->
                                IF x = c THEN due ELSE waiting[x]]
              /\ ready' = ready
    /\ UNCHANGED clock

Cancel(c) ==
    /\ \/ /\ c \in DOMAIN waiting
          /\ waiting' = Restrict(waiting, DOMAIN waiting \ {c})
          /\ ready' = ready
       \/ \E k \in DOMAIN ready :
              /\ ready[k] = c
              /\ ready' = RemoveAt(ready, k)
              /\ waiting' = waiting
    /\ UNCHANGED clock

(* The callouts s expire, together or one by one.                          *)
Expire(s) ==
    /\ \A c \in ToSet(s) :
          /\ Reached(waiting[c])
          /\ \A d \in DOMAIN waiting \ ToSet(s) : waiting[c].t <= waiting[d].t
    /\ waiting' = Restrict(waiting, DOMAIN waiting \ ToSet(s))
    /\ ready' = ready \o s
    /\ UNCHANGED clock

Run ==
    /\ ready # << >>
    /\ ready' = Tail(ready)
    /\ UNCHANGED << waiting, clock >>

(* The system clock may go on and be turned back.                          *)
Clock ==
    /\ clock' \in [t : Nat, m : 0 .. MSECS - 1]
    /\ UNCHANGED << waiting, ready >>

CNext ==
    \/ \E c \in Callouts : Call(c) \/ Cancel(c)
    \/ \E S \in SUBSET DOMAIN waiting : \E s \in SetToSeqs(S) : Expire(s)
    \/ Run
    \/ Clock

Spec == CInit /\ [][CNext]_cvars

===========================================================================
