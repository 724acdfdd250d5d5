---------------------------- MODULE Suspension ----------------------------
(***************************************************************************)
(* Callouts of the kernel library (src/mud/kernel/lib/auto.c), which are   *)
(* counted as a resource of their owner, and their suspension by the       *)
(* resource manager (src/mud/kernel/sys/rsrcd.c).  While callouts are      *)
(* suspended, those that expire are held: they are started again with a    *)
(* long delay, and put on a doubly linked list.  When callouts are         *)
(* released, there is one callout "release" in the resource manager for    *)
(* each one on the list, which releases the first, whichever it was made   *)
(* for.                                                                    *)
(*                                                                         *)
(* A callout that is held has the handle it had, which has just become     *)
(* free (see CallOutTable): a callout is known by its object and handle.   *)
(* Suspension managers, of which this library has none, and the end of the *)
(* long delay are left out.                                                *)
(***************************************************************************)
EXTENDS Integers, FiniteSets, SequencesExt

CONSTANTS
    Objects,        \* objects with callouts, all of one owner
    Systems,        \* those which may suspend callouts
    None,
    MaxHandle,      \* bound: callouts of one object
    MaxCallouts,    \* the owner's limit of "callouts"
    MaxReleases     \* bound: callouts of the resource manager

Handles == 1 .. MaxHandle
Callouts == Objects \X Handles

ASSUME SuspensionAssumption ==
    /\ IsFiniteSet(Objects)
    /\ Systems \subseteq Objects
    /\ None \notin Objects \cup Callouts
    /\ {MaxHandle, MaxCallouts, MaxReleases} \subseteq Nat

VARIABLES
    callout,        \* the callouts of all objects
    usage,          \* "callouts" used by the owner, and by each object
    rsrcd,          \* the resource manager
    alive           \* objects not destructed

vars == << callout, usage, rsrcd, alive >>

RelHandles == 1 .. MaxReleases

Node == [relhandle : RelHandles \cup {0}, prev : Callouts \cup {None}, next : Callouts \cup {None}]

Init ==
    /\ callout = [c \in Callouts |-> "none"]
    /\ usage = [owner |-> 0, of |-> [o \in Objects |-> 0]]
    /\ rsrcd = [suspend |-> 0, suspender |-> None, suspended |-> << >>,
                first_suspended |-> None, last_suspended |-> None,
                releases |-> << >>,                 \* callouts, in order
                free |-> [h \in RelHandles |-> h]]  \* free handles
    /\ alive = Objects

Incr(u, o, n) == [u EXCEPT !.owner = @ + n, !.of[o] = @ + n]

---------------------------------------------------------------------------
(* call_out("release", 0) and remove_call_out() in the resource manager r. *)
CallRelease(r) == [r EXCEPT !.releases = Append(@, Head(r.free)), !.free = Tail(@)]

RemoveRelease(r, h) ==
    IF h \in ToSet(r.releases)
    THEN LET i == CHOOSE i \in DOMAIN r.releases : r.releases[i] = h
         IN [r EXCEPT !.releases = RemoveAt(@, i), !.free = << h >> \o @]
    ELSE r

(* The callouts on the list, from the first on.                            *)
Chain(r) ==
    LET from[c \in DOMAIN r.suspended \cup {None}] ==
            IF c = None THEN << >> ELSE << c >> \o from[r.suspended[c].next]
    IN from[r.first_suspended]

(* suspend()                                                               *)
Listed(r, c, h) ==
    [r EXCEPT !.suspended = [d \in DOMAIN @ \cup {c} |->
                  IF d = c THEN [relhandle |-> h, prev |-> r.last_suspended, next |-> None]
                  ELSE IF d = r.last_suspended THEN [@[d] EXCEPT !.next = c]
                  ELSE @[d]],
              !.first_suspended = IF r.last_suspended = None THEN c ELSE @,
              !.last_suspended = c]

SuspendLate(r, c) == Listed(r, c, 0)

Suspend(r, c) ==
    IF r.suspend > 0 THEN Listed(CallRelease(r), c, Head(r.free)) ELSE Listed(r, c, 0)

(* remove_callout() of n at c: its neighbours, and a "release" less.       *)
UnlinkPrev(r, c, n) ==
    IF c # r.first_suspended THEN [r EXCEPT !.suspended[n.prev].next = n.next]
    ELSE [r EXCEPT !.first_suspended = n.next]

UnlinkNextKept(r, c, n) ==
    IF c # r.last_suspended THEN r ELSE [r EXCEPT !.last_suspended = n.prev]

UnlinkNext(r, c, n) ==
    IF c # r.last_suspended THEN [r EXCEPT !.suspended[n.next].prev = n.prev]
    ELSE [r EXCEPT !.last_suspended = n.prev]

OneLess(r, c, n) ==
    IF n.relhandle = 0 THEN r
    ELSE IF c = r.last_suspended THEN RemoveRelease(r, n.relhandle)
    ELSE [RemoveRelease(r, r.suspended[r.last_suspended].relhandle)
            EXCEPT !.suspended[r.last_suspended].relhandle = n.relhandle]

Without(r, c) ==
    [r EXCEPT !.suspended = [d \in DOMAIN @ \ {c} |-> @[d]]]

Unlink(r, c, n) == Without(UnlinkNext(OneLess(UnlinkPrev(r, c, n), c, n), c, n), c)

RemoveCallout(r, c) ==
    IF c \in DOMAIN r.suspended THEN Unlink(r, c, r.suspended[c]) ELSE r

(* remove_callouts(): those of an object, the highest handle first.        *)
RemoveCallouts(r, o) ==
    LET after[k \in 0 .. MaxHandle] ==
            IF k = 0 THEN r ELSE RemoveCallout(after[k - 1], << o, MaxHandle + 1 - k >>)
    IN after[MaxHandle]

(* suspended()                                                             *)
IsSuspended(o) == rsrcd.suspend # 0 /\ o # rsrcd.suspender

---------------------------------------------------------------------------
(* call_out()                                                              *)
CallOut(o, h) ==
    /\ o \in alive
    /\ callout[<< o, h >>] = "none"
    /\ usage.owner < MaxCallouts
    /\ callout' = [callout EXCEPT ![<< o, h >>] = "waiting"]
    /\ usage' = Incr(usage, o, 1)
    /\ UNCHANGED << rsrcd, alive >>

(* remove_call_out()                                                       *)
RemoveCallOut(o, h) ==
    /\ callout[<< o, h >>] # "none"
    /\ callout' = [callout EXCEPT ![<< o, h >>] = "none"]
    /\ usage' = Incr(usage, o, -1)
    /\ rsrcd' = RemoveCallout(rsrcd, << o, h >>)
    /\ UNCHANGED alive

(* _F_callout(): the callout expires.                                      *)
Run(o, h) ==
    /\ callout[<< o, h >>] = "waiting"
    /\ ~IsSuspended(o)
    /\ callout' = [callout EXCEPT ![<< o, h >>] = "none"]
    /\ usage' = Incr(usage, o, -1)
    /\ UNCHANGED << rsrcd, alive >>

Hold(o, h) ==
    /\ callout[<< o, h >>] = "waiting"
    /\ IsSuspended(o)
    /\ rsrcd.free # << >>
    /\ callout' = [callout EXCEPT ![<< o, h >>] = "held"]
    /\ rsrcd' = Suspend(rsrcd, << o, h >>)
    /\ UNCHANGED << usage, alive >>

(* Mutant: the share of the owner's limit is not given back.               *)
DestructUncounted(o) ==
    /\ o \in alive
    /\ alive' = alive \ {o}
    /\ rsrcd' = [RemoveCallouts(rsrcd, o)
                   EXCEPT !.suspender = IF @ = o THEN None ELSE @]
    /\ callout' = [c \in Callouts |-> IF c[1] = o THEN "none" ELSE callout[c]]
    /\ UNCHANGED usage

(* destruct_object() and _F_destruct()                                     *)
Destruct(o) ==
    /\ o \in alive
    /\ alive' = alive \ {o}
    /\ rsrcd' = [RemoveCallouts(rsrcd, o)
                   EXCEPT !.suspender = IF @ = o THEN None ELSE @]
    /\ usage' = Incr(usage, o, -usage.of[o])
    /\ callout' = [c \in Callouts |-> IF c[1] = o THEN "none" ELSE callout[c]]

(* suspend_callouts(), which fails if it finds the list empty.             *)
NoReleases(r) ==
    LET chain == Chain(r)
        after[k \in 0 .. Len(chain)] ==
            IF k = 0 THEN r
            ELSE RemoveRelease(after[k - 1], r.suspended[chain[k]].relhandle)
    IN after[Len(chain)]

SuspendCallouts(o) ==
    /\ o \in Systems \cap alive
    /\ rsrcd.suspend >= 0
    /\ rsrcd.suspend > 0 => rsrcd.first_suspended # None
    /\ rsrcd' = [NoReleases(rsrcd) EXCEPT
                   !.suspended = [c \in DOMAIN @ |-> [@[c] EXCEPT !.relhandle = 0]],
                   !.suspender = o, !.suspend = -1]
    /\ UNCHANGED << callout, usage, alive >>

(* release_callouts(): a "release" for each one, from the first on.        *)
Releasing(r, c) ==
    IF r.suspended[c].relhandle # 0 THEN r
    ELSE [CallRelease(r) EXCEPT !.suspended[c].relhandle = Head(r.free)]

ReleasingAll(r) ==
    LET chain == Chain(r)
        after[k \in 0 .. Len(chain)] == IF k = 0 THEN r ELSE Releasing(after[k - 1], chain[k])
    IN after[Len(chain)]

ReleaseCallouts ==
    /\ rsrcd.suspend < 0
    /\ Systems \cap alive # {}
    /\ Len(rsrcd.free) >= Cardinality(DOMAIN rsrcd.suspended)
    /\ rsrcd' = [ReleasingAll(rsrcd) EXCEPT
                   !.suspender = None,
                   !.suspend = IF rsrcd.first_suspended = None THEN 0 ELSE 1]
    /\ UNCHANGED << callout, usage, alive >>

(* release() and _F_release(), which fails if the list is empty.           *)
ReleaseFirst(r, c) ==
    IF r.suspended[c].next # None
    THEN [Without(r, c) EXCEPT !.first_suspended = r.suspended[c].next,
                               !.suspended[r.suspended[c].next].prev = None]
    ELSE [r EXCEPT !.first_suspended = None, !.last_suspended = None,
                   !.suspended = << >>, !.suspend = 0]

Fired(r) == [r EXCEPT !.releases = Tail(@), !.free = << Head(r.releases) >> \o @]

Release ==
    /\ rsrcd.releases # << >>
    /\ LET c == rsrcd.first_suspended
       IN IF c = None
          THEN rsrcd' = Fired(rsrcd) /\ UNCHANGED << callout, usage >>
          ELSE /\ rsrcd' = ReleaseFirst(Fired(rsrcd), c)
               /\ callout' = [callout EXCEPT ![c] = "none"]
               /\ usage' = Incr(usage, c[1], -1)
    /\ UNCHANGED alive

Next ==
    \/ \E o \in Objects, h \in Handles :
          CallOut(o, h) \/ RemoveCallOut(o, h) \/ Run(o, h) \/ Hold(o, h)
    \/ \E o \in Objects : Destruct(o) \/ SuspendCallouts(o)
    \/ ReleaseCallouts \/ Release

Spec == Init /\ [][Next]_vars

(* co_call() runs callouts.                                                *)
FairSpec == Spec /\ WF_vars(Release)

---------------------------------------------------------------------------
(* Properties.                                                             *)

(* Every variable keeps its type.                                          *)
TypeOK ==
    /\ callout \in [Callouts -> {"none", "waiting", "held"}]
    /\ usage \in [owner : 0 .. MaxCallouts, of : [Objects -> 0 .. MaxHandle]]
    /\ rsrcd.suspend \in {-1, 0, 1}
    /\ rsrcd.suspender \in Systems \cup {None}
    /\ {rsrcd.first_suspended, rsrcd.last_suspended} \subseteq Callouts \cup {None}
    /\ DOMAIN rsrcd.suspended \subseteq Callouts
    /\ \A c \in DOMAIN rsrcd.suspended : rsrcd.suspended[c] \in Node
    /\ ToSet(rsrcd.releases \o rsrcd.free) = RelHandles
    /\ alive \subseteq Objects

(* What is used of the owner's limit of "callouts", and the share of each  *)
(* object that _F_destruct() gives back, is the number of callouts that    *)
(* there are, held or not.                                                 *)
Counted ==
    /\ usage.owner = Cardinality({c \in Callouts : callout[c] # "none"})
    /\ \A o \in Objects :
          usage.of[o] = Cardinality({h \in Handles : callout[<< o, h >>] # "none"})

(* The list is linked both ways, from first_suspended to last_suspended,   *)
(* and has the callouts that suspended[obj][handle] gives.                 *)
Linked ==
    LET chain == Chain(rsrcd)
    IN /\ ToSet(chain) = DOMAIN rsrcd.suspended
       /\ rsrcd.last_suspended = IF chain = << >> THEN None ELSE Last(chain)
       /\ \A i \in DOMAIN chain :
             rsrcd.suspended[chain[i]].prev = IF i = 1 THEN None ELSE chain[i - 1]

(* The callouts on the list are those that are held: none is lost, and     *)
(* none is released that has run, was removed, or had its object           *)
(* destructed.  Without suspension there are none.                         *)
Held ==
    /\ DOMAIN rsrcd.suspended = {c \in Callouts : callout[c] = "held"}
    /\ rsrcd.suspend = 0 => DOMAIN rsrcd.suspended = {}

(* The list and the mapping of held callouts, as five functions keep them. *)
ListSound == TypeOK /\ Linked /\ Held

(* While callouts are released, there is a "release" to come for each one  *)
(* on the list, whichever callouts were removed from it.                   *)
EnoughReleases ==
    rsrcd.suspend > 0 => Len(rsrcd.releases) >= Cardinality(DOMAIN rsrcd.suspended)

(* While callouts are suspended, none is to be released: suspend_callouts()*)
(* has removed every "release" that was to come.                           *)
NoneWhileSuspended ==
    rsrcd.suspend < 0 => rsrcd.releases = << >>

(* While callouts are released the list is not empty, which both release() *)
(* and suspend_callouts() take for granted.                                *)
NotEmpty ==
    rsrcd.suspend > 0 => rsrcd.first_suspended # None

(* A callout that is held is released in the end, unless callouts are      *)
(* suspended again.                                                        *)
Released ==
    \A c \in Callouts :
        (rsrcd.suspend > 0 /\ callout[c] = "held")
            ~> (rsrcd.suspend < 0 \/ callout[c] # "held")
===========================================================================
