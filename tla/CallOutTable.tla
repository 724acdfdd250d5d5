--------------------------- MODULE CallOutTable ---------------------------
(***************************************************************************)
(* The callout table of src/src/call_out.c as a value, and the operations  *)
(* of that file as operators from one table to the next.                   *)
(*                                                                         *)
(* One array cotab[0 .. COTABSZ-1] holds two structures that grow towards  *)
(* each other: a binary heap of long-term callouts in cotab[0..queuebrk-1] *)
(* and, from cotab[cycbrk] up, the elements of the linked lists: one list  *)
(* per second of a cyclic buffer, one of immediate callouts and one of     *)
(* the callouts that are being run.  The heap is the sequence "queue"; a   *)
(* list is a sequence of elements that remember their index in the array;  *)
(* the free list is the set of its indices, any of which may be the next   *)
(* to be used.                                                             *)
(*                                                                         *)
(* Times are those of the file after its "- timediff": seconds since an    *)
(* epoch of the table's own, and a count of sub-second units.              *)
(***************************************************************************)
EXTENDS Integers, SequencesExt

CONSTANTS
    Callouts,       \* callouts as (oindex, handle) pairs: their identity
    COTABSZ,        \* cotabsz: the size of the callout table
    CYCBUF_SIZE,    \* number of one-second lists in the cyclic buffer
    MSECS,          \* sub-second units in a second (1000 in the code)
    MAXLAG          \* seconds co_time() may run ahead of timestamp (60)

ASSUME TableAssumption ==
    /\ COTABSZ \in Nat \ {0}
    /\ CYCBUF_SIZE \in Nat \ {0}
    /\ MSECS \in Nat \ {0}
    /\ MAXLAG \in Nat \ {0}

NoMsec == -1                        \* 0xffff: no sub-second part
UindexRange == 65536                \* uindex is an unsigned short

(* The list heads a "uindex *" can point to, and NULL, the queue.          *)
Slots == 0 .. CYCBUF_SIZE - 1
Immediate == CYCBUF_SIZE
Running == CYCBUF_SIZE + 1
Lists == Slots \cup {Immediate, Running}
Queue == -1

Slot(t) == t % CYCBUF_SIZE

Index == {i \in Int : i < COTABSZ}   \* a newcallout() too many goes below 0

Msecs == 0 .. MSECS - 1
Time == [t : Nat, m : Msecs]
QueueEntry == [co : Callouts, t : Nat, m : Msecs]
Element == [co : Callouts, at : Index]

Table == [queue : Seq(QueueEntry), list : [Lists -> Seq(Element)],
          cycbrk : Index \cup {COTABSZ}, flist : SUBSET Index,
          nshort : Int, nzero : Int, timestamp : Nat, timeout : Nat]

(* co_init(): nothing allocated, the whole array between the two breaks.   *)
EmptyTable == [queue |-> << >>, list |-> [l \in Lists |-> << >>],
               cycbrk |-> COTABSZ, flist |-> {},
               nshort |-> 0, nzero |-> 0, timestamp |-> 0, timeout |-> 0]

(* Mutant: whole seconds only.                                             *)
LaterSeconds(x, y) == x.t > y.t

Later(x, y) == x.t > y.t \/ (x.t = y.t /\ x.m > y.m)

(* nshort and nzero count what is in the lists.  Their difference tells    *)
(* freecallout() and co_expire() whether any slot is in use.               *)
SlotEntries(list) == UNION {{s} \X DOMAIN list[s] : s \in Slots}
InSlots(list) == Cardinality(SlotEntries(list))
NotInSlots(list) == Len(list[Immediate]) + Len(list[Running])

CountsLists(tab) ==
    /\ tab.nzero = NotInSlots(tab.list)
    /\ tab.nshort = NotInSlots(tab.list) + InSlots(tab.list)

---------------------------------------------------------------------------
(* The heap.  Node k has children 2k and 2k+1: halving leads to the root.  *)

Ancestors[k \in Nat] ==
    IF k <= 1 THEN {} ELSE {k \div 2} \cup Ancestors[k \div 2]

(* Sift e upward from the hole in q: every ancestor later than e moves one *)
(* level down, up to the first one that is not.                            *)
SiftUp(q, size, hole, e) ==
    LET above == {k \in 1 .. size : k = hole \/ k \in Ancestors[hole]}
        stops == {k \in above : k # hole /\ ~Later(q[k], e)}
        path == {k \in above : \A s \in stops : k > s}
    IN [k \in 1 .. size |->
            IF k \notin path THEN q[k]
            ELSE IF k \div 2 \in path THEN q[k \div 2] ELSE e]

(* Sift e downward from the hole: the earlier child moves up while it is   *)
(* earlier than e.                                                         *)
EarlierChild(q, k) ==
    IF k % 2 = 0 THEN ~Later(q[k], q[k + 1]) ELSE Later(q[k - 1], q[k])

SiftDown(q, size, hole, e) ==
    LET moves(k) == EarlierChild(q, k) /\ Later(e, q[k])
        path == {k \in 1 .. size :
                    \/ k = hole
                    \/ /\ hole \in Ancestors[k]
                       /\ moves(k)
                       /\ \A a \in Ancestors[k] : a > hole => moves(a)}
        below(k) == {j \in path : j \div 2 = k /\ j # hole}
    IN [k \in 1 .. size |->
            IF k \notin path THEN q[k]
            ELSE IF below(k) # {} THEN q[CHOOSE j \in below(k) : TRUE] ELSE e]

(* Mutant: a new last entry that is not moved up.                          *)
EnqueueLast(q, e) == Append(q, e)

Enqueue(q, e) == SiftUp(q, Len(q) + 1, Len(q) + 1, e)

(* dequeue() chooses the direction by comparing seconds only.              *)
Dequeue(q, i) ==
    LET e == q[Len(q)]
    IN IF e.t < q[i].t THEN SiftUp(q, Len(q) - 1, i, e)
                       ELSE SiftDown(q, Len(q) - 1, i, e)

---------------------------------------------------------------------------
(* The lists.                                                              *)

(* The first second from t on whose list is in use.                        *)
NextTimeout(list, t) ==
    CHOOSE u \in t .. t + CYCBUF_SIZE - 1 :
        /\ list[Slot(u)] # << >>
        /\ \A v \in t .. u - 1 : list[Slot(v)] = << >>

(* Where newcallout() takes its element from.                              *)
NewIndices(tab) == IF tab.flist = {} THEN {tab.cycbrk - 1} ELSE tab.flist

(* The time of the first callout when one due at t is added to list l.     *)
NewTimeout(tab, l, t) ==
    IF tab.list[l] = << >> /\ t # 0 /\ (tab.timeout = 0 \/ t < tab.timeout)
    THEN t ELSE tab.timeout

(* newcallout(): append callout c to list l, with element i.               *)
NewCallout(tab, l, t, c, i) ==
    [tab EXCEPT
        !.flist = @ \ {i},
        !.cycbrk = IF tab.flist = {} THEN i ELSE @,
        !.nshort = @ + 1,
        !.nzero = IF t = 0 THEN @ + 1 ELSE @,
        !.timeout = NewTimeout(tab, l, t),
        !.list[l] = Append(@, [co |-> c, at |-> i])]

(* Mutant: the break moves over one element only.                          *)
RecedeByOne(tab) == tab.cycbrk + 1

(* The break after the element at its edge is freed: it recedes over the   *)
(* free elements that follow.                                              *)
Recede(tab) ==
    CHOOSE k \in tab.cycbrk + 1 .. COTABSZ :
        /\ k = COTABSZ \/ k \notin tab.flist
        /\ \A j \in tab.cycbrk + 1 .. k - 1 : j \in tab.flist

(* The free list after element i is freed and the break moved to brk.      *)
Freed(tab, i, brk) ==
    IF i = tab.cycbrk THEN {x \in tab.flist : x > brk} ELSE tab.flist \cup {i}

(* freecallout(): remove the k-th element of list l.                       *)
FreeCallout(tab, l, k, t) ==
    LET i == tab.list[l][k].at
        rest == [tab.list EXCEPT ![l] = RemoveAt(@, k)]
        short == tab.nshort - 1
        zero == IF t = 0 THEN tab.nzero - 1 ELSE tab.nzero
        brk == IF i = tab.cycbrk THEN Recede(tab) ELSE tab.cycbrk
    IN [tab EXCEPT
            !.list = rest,
            !.nshort = short,
            !.nzero = zero,
            !.timeout = IF rest[l] # << >> \/ t = 0 \/ t # @ THEN @
                        ELSE IF short # zero THEN NextTimeout(rest, t) ELSE 0,
            !.cycbrk = brk,
            !.flist = Freed(tab, i, brk)]

(* Where callout c is in a list or in the queue.                           *)
Position(s, c) == CHOOSE k \in DOMAIN s : s[k].co = c
Holds(s, c) == \E k \in DOMAIN s : s[k].co = c

---------------------------------------------------------------------------
(* The exported operations.                                                *)

(* Mutants: without the case that no slot is in use; and following the     *)
(* clock when it is turned back.                                           *)
TimestampUnguarded(tab, clock) ==
    IF clock.t <= tab.timestamp \/ tab.list[Running] # << >> THEN tab.timestamp
    ELSE IF tab.timeout > clock.t THEN clock.t
    ELSE tab.timeout - 1

TimestampFollows(tab, clock) ==
    IF tab.list[Running] # << >> THEN tab.timestamp
    ELSE IF tab.timeout = 0 \/ tab.timeout > clock.t THEN clock.t
    ELSE tab.timeout - 1

(* co_time(): the time, and how far it lets the table's timestamp follow   *)
(* the clock; cached, if not <<>>, is the time of this thread.             *)
Timestamp(tab, clock) ==
    IF clock.t <= tab.timestamp \/ tab.list[Running] # << >> THEN tab.timestamp
    ELSE IF tab.timeout = 0 \/ tab.timeout > clock.t THEN clock.t
    ELSE IF tab.timestamp < tab.timeout THEN tab.timeout - 1
    ELSE tab.timestamp

CoTime(tab, cached, clock) ==
    LET ts == Timestamp(tab, clock)
    IN IF cached # << >> THEN [tab |-> tab, now |-> cached[1]]
       ELSE [tab |-> [tab EXCEPT !.timestamp = ts],
             now |-> CASE clock.t < tab.timestamp -> [t |-> tab.timestamp, m |-> 0]
                       [] clock.t > ts + MAXLAG -> [t |-> ts + MAXLAG, m |-> 0]
                       [] OTHER -> clock]

(* co_check(): is there room, given n callouts that are not in the table   *)
(* yet?  n is a uindex: "minus one" is 65535 and never equals a difference *)
(* of breaks.                                                              *)
TooMany(tab, n) ==
    LET u == n % UindexRange
    IN Len(tab.queue) + u = tab.cycbrk \/ tab.cycbrk - u = 1

IsImmediate(delay, mdelay) == delay = 0 /\ mdelay \in {0, NoMsec}

UsesClock(tab, n, delay, mdelay) ==
    IF IsImmediate(delay, mdelay)
    THEN tab.nshort = 0 /\ tab.queue = << >> /\ n = 0
    ELSE TRUE

(* When a callout asked for at time now is due, and the list it goes to.   *)
Due(tab, now, delay, mdelay) ==
    LET m == now.m + mdelay
        t == now.t + delay
    IN IF IsImmediate(delay, mdelay)
       THEN [t |-> 0, m |-> NoMsec, q |-> Immediate]
       ELSE IF mdelay = NoMsec
       THEN [t |-> t, m |-> NoMsec,
             q |-> IF t < tab.timestamp + CYCBUF_SIZE THEN Slot(t) ELSE Queue]
       ELSE [t |-> t + m \div MSECS, m |-> m % MSECS, q |-> Queue]

(* co_new(): due is what Due() returned, i an element for a list.          *)
CoNew(tab, c, due, i) ==
    IF due.q # Queue THEN NewCallout(tab, due.q, due.t, c, i)
    ELSE [tab EXCEPT !.queue =
              Enqueue(@, [co |-> c, t |-> due.t,
                          m |-> IF due.m = NoMsec THEN 0 ELSE due.m])]

(* Mutant: callouts that are about to run are not looked for.              *)
DelListNotRunning(tab, c, t, m) ==
    LET in(l) == Holds(tab.list[l], c)
    IN CASE /\ m = NoMsec
            /\ t > tab.timestamp
            /\ t < tab.timestamp + CYCBUF_SIZE
            /\ in(Slot(t)) -> Slot(t)
         [] t <= tab.timestamp /\ in(Immediate) -> Immediate
         [] OTHER -> Queue

(* The list co_del() finds callout c in, given when it was due.            *)
DelList(tab, c, t, m) ==
    LET in(l) == Holds(tab.list[l], c)
    IN CASE /\ m = NoMsec
            /\ t > tab.timestamp
            /\ t < tab.timestamp + CYCBUF_SIZE
            /\ in(Slot(t)) -> Slot(t)
         [] t <= tab.timestamp /\ in(Immediate) -> Immediate
         [] t <= tab.timestamp /\ in(Running) -> Running
         [] OTHER -> Queue

(* co_del(): t is that of the dataspace; in an immediate list it is 0.     *)
CoDel(tab, c, t, m) ==
    LET l == DelList(tab, c, t, m)
    IN IF l = Queue
       THEN [tab EXCEPT !.queue = Dequeue(@, Position(@, c))]
       ELSE FreeCallout(tab, l, Position(tab.list[l], c),
                        IF l \in Slots THEN t ELSE 0)

(* co_expire(), its two ways of collecting a callout: the first of the     *)
(* queue, and the whole list of the second the timestamp has reached.      *)
ExpireFirst(tab, i) ==
    NewCallout([tab EXCEPT !.queue = Dequeue(@, 1)], Immediate, 0, tab.queue[1].co, i)

(* Mutants: nzero is forgotten; and the new ones go first.                 *)
ExpireSlotUncounted(tab) ==
    LET s == Slot(tab.timestamp)
    IN [tab EXCEPT
            !.list = [@ EXCEPT ![s] = << >>,
                               ![Immediate] = tab.list[Immediate] \o tab.list[s]]]

ExpireSlotFirst(tab) ==
    LET s == Slot(tab.timestamp)
    IN [tab EXCEPT
            !.list = [@ EXCEPT ![s] = << >>,
                               ![Immediate] = tab.list[s] \o tab.list[Immediate]],
            !.nzero = @ + Len(tab.list[s])]

ExpireSlot(tab) ==
    LET s == Slot(tab.timestamp)
    IN [tab EXCEPT
            !.list = [@ EXCEPT ![s] = << >>,
                               ![Immediate] = tab.list[Immediate] \o tab.list[s]],
            !.nzero = @ + Len(tab.list[s])]

(* co_expire(), after collecting: the new time of the first callout.       *)
ExpireTimeout(tab) ==
    [tab EXCEPT !.timeout =
        IF @ > tab.timestamp THEN @
        ELSE IF tab.nshort # tab.nzero THEN NextTimeout(tab.list, tab.timestamp)
        ELSE 0]

(* co_call(): the collected callouts become the running ones.              *)
StartRunning(tab) ==
    [tab EXCEPT !.list = [@ EXCEPT ![Running] = tab.list[Immediate],
                                   ![Immediate] = << >>]]

===========================================================================
