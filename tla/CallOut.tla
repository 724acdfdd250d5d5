----------------------------- MODULE CallOut -----------------------------
(***************************************************************************)
(* The driver's main loop (dgd_main() in src/src/dgd.c) around the callout *)
(* table: wait for input or for the next callout, serve input, collect the *)
(* expired callouts, run them one thread at a time.                        *)
(*                                                                         *)
(* A thread of LPC code is what runs between two endthread()s.  While it   *)
(* runs it may start and remove callouts, and time stands still for it:    *)
(* the first co_time() of a thread is cached in cotime.                    *)
(*                                                                         *)
(* Real time only passes where the process waits or executes LPC code.     *)
(***************************************************************************)
EXTENDS CallOutTable

CONSTANTS
    Delays,         \* delays that threads ask for, in seconds
    Mdelays,        \* and the sub-second part, NoMsec for an integer delay
    Copying,        \* TRUE if o_copy() may leave objects to be copied
    ClockBack,      \* TRUE if the system clock may be turned back
    MaxSec          \* bound: seconds the clock runs

ASSUME LoopAssumption ==
    /\ Delays \subseteq Nat
    /\ Mdelays \subseteq Msecs \cup {NoMsec}
    /\ Copying \in BOOLEAN
    /\ ClockBack \in BOOLEAN
    /\ MaxSec \in Nat

VARIABLES
    tab,            \* the callout table
    cotime,         \* cotime/comtime: <<>> or <<time>>
    dco,            \* the callouts in the dataspaces: when they are due
    clock,          \* P_mtime() - timediff
    pc,             \* where in the main loop the driver is
    now,            \* t and m of co_expire()
    wake,           \* when comm_receive() times out: <<>> or <<units>>
    rebuild,        \* rebuild: objects are being copied to the swap file
    rtime           \* rtime/rmtime: <<>> or <<time>> of the next copying

vars == << tab, cotime, dco, clock, pc, now, wake, rebuild, rtime >>

NoCallout == [live |-> FALSE, t |-> 0, m |-> NoMsec]
Dcallout == [live : BOOLEAN, t : Nat, m : Msecs \cup {NoMsec}]

Threads == {"boot", "interrupt", "input", "callout"}
InThread == pc \in Threads
Places == Threads \cup {"top", "intr", "delay", "receive", "served",
                        "call", "expire", "pop", "run"}

Zero == [t |-> 0, m |-> 0]
Units(x) == x.t * MSECS + x.m
NotAfter(x, y) == ~Later(x, y)

(* co_init(), and then the thread that calls initialize() in the driver    *)
(* object.                                                                 *)
Init ==
    /\ tab = EmptyTable
    /\ cotime = << >>
    /\ dco = [c \in Callouts |-> NoCallout]
    /\ clock = Zero
    /\ pc = "boot"
    /\ now = Zero
    /\ wake = << >>
    /\ rebuild = TRUE
    /\ rtime = << >>

---------------------------------------------------------------------------
(* Time.                                                                   *)

TimePasses == InThread \/ pc = "receive"

Tick ==
    /\ TimePasses
    /\ clock.t < MaxSec
    /\ clock' = IF clock.m + 1 < MSECS THEN [clock EXCEPT !.m = @ + 1]
                                       ELSE [t |-> clock.t + 1, m |-> 0]
    /\ UNCHANGED << tab, cotime, dco, pc, now, wake, rebuild, rtime >>

(* The system clock goes back a second; conn_select() waits no longer for  *)
(* that.                                                                   *)
TurnBack ==
    /\ ClockBack
    /\ TimePasses
    /\ clock.t > 0
    /\ clock' = [clock EXCEPT !.t = @ - 1]
    /\ wake' = IF wake = << >> THEN << >>
               ELSE << IF wake[1] > MSECS THEN wake[1] - MSECS ELSE 0 >>
    /\ UNCHANGED << tab, cotime, dco, pc, now, rebuild, rtime >>

---------------------------------------------------------------------------
(* What a thread does.                                                     *)

(* d_new_call_out(): co_check(), d_alloc_call_out(), co_new().  Refused by *)
(* co_check() it is an error of the thread and changes nothing.            *)
New(c, delay, mdelay) ==
    LET r == IF UsesClock(tab, 0, delay, mdelay)
             THEN CoTime(tab, cotime, clock) ELSE [tab |-> tab, now |-> Zero]
        due == Due(r.tab, r.now, delay, mdelay)
    IN /\ InThread
       /\ ~dco[c].live
       /\ ~TooMany(tab, 0)
       /\ due.t < MaxSec \/ (due.t = MaxSec /\ due.m \in {NoMsec, 0})
       /\ cotime' = IF UsesClock(tab, 0, delay, mdelay) THEN << r.now >> ELSE cotime
       /\ \E i \in NewIndices(tab) : tab' = CoNew(r.tab, c, due, i)
       /\ dco' = [dco EXCEPT ![c] = [live |-> TRUE, t |-> due.t, m |-> due.m]]
       /\ UNCHANGED << clock, pc, now, wake, rebuild, rtime >>

(* d_del_call_out(): co_remaining(), co_del(), d_free_call_out().          *)
Del(c) ==
    LET r == CoTime(tab, cotime, clock)
    IN /\ InThread
       /\ dco[c].live
       /\ cotime' = << r.now >>
       /\ tab' = CoDel(r.tab, c, dco[c].t, dco[c].m)
       /\ dco' = [dco EXCEPT ![c] = NoCallout]
       /\ UNCHANGED << clock, pc, now, wake, rebuild, rtime >>

(* co_list(): the remaining time of the callouts of an object.             *)
Query ==
    LET r == CoTime(tab, cotime, clock)
    IN /\ InThread
       /\ cotime' = << r.now >>
       /\ tab' = r.tab
       /\ UNCHANGED << dco, clock, pc, now, wake, rebuild, rtime >>

(* endthread(): co_swapcount() ends the thread's time.                     *)
AfterThread(p) ==
    CASE p = "boot" -> "top"
      [] p = "interrupt" -> "delay"
      [] p = "input" -> "served"
      [] p = "callout" -> "run"

EndThread ==
    /\ InThread
    /\ cotime' = << >>
    /\ pc' = AfterThread(pc)
    /\ UNCHANGED << tab, dco, clock, now, wake, rebuild, rtime >>

---------------------------------------------------------------------------
(* The loop: rebuild the swap file, interrupts, wait, input.               *)

NoRebuild ==
    /\ pc = "top"
    /\ ~rebuild
    /\ pc' = "intr"
    /\ UNCHANGED << tab, cotime, dco, clock, now, wake, rebuild, rtime >>

(* It is not time yet to copy more objects: the time stays cached.         *)
RebuildLater ==
    LET r == CoTime(tab, cotime, clock)
    IN /\ pc = "top"
       /\ rebuild
       /\ rtime # << >> /\ Later(rtime[1], r.now)
       /\ tab' = r.tab
       /\ cotime' = << r.now >>
       /\ pc' = "intr"
       /\ UNCHANGED << dco, clock, now, wake, rebuild, rtime >>

(* o_copy() copies some; co_swapcount() drops the cached time.             *)
Rebuild ==
    LET r == CoTime(tab, cotime, clock)
    IN /\ pc = "top"
       /\ rebuild
       /\ rtime # << >> => NotAfter(rtime[1], r.now)
       /\ tab' = r.tab
       /\ cotime' = << >>
       /\ rebuild' \in {FALSE, Copying}
       /\ rtime' = IF rebuild' THEN << [r.now EXCEPT !.t = @ + 1] >> ELSE << >>
       /\ pc' = "intr"
       /\ UNCHANGED << dco, clock, now, wake >>

Interrupt ==
    /\ pc = "intr"
    /\ pc' = "interrupt"
    /\ UNCHANGED << tab, cotime, dco, clock, now, wake, rebuild, rtime >>

(* Mutant: the cyclic buffer is forgotten.                                 *)
DeadlinesOfQueue ==
    ToSet(rtime)
        \cup (IF tab.queue = << >> THEN {} ELSE {[t |-> tab.queue[1].t, m |-> tab.queue[1].m]})

(* The times co_delay() chooses the first of.                              *)
When(x) == [t |-> x.t, m |-> x.m]

Deadlines ==
    ToSet(rtime)
        \cup (IF tab.timeout = 0 THEN {} ELSE {[t |-> tab.timeout, m |-> 0]})
        \cup (IF tab.queue = << >> THEN {} ELSE {When(tab.queue[1])})

(* Mutant: the last instead of the first.                                  *)
LastDeadline == CHOOSE x \in Deadlines : \A y \in Deadlines : NotAfter(y, x)

FirstDeadline == CHOOSE x \in Deadlines : \A y \in Deadlines : NotAfter(x, y)

(* Immediate callouts, or nothing to wait for: a cached time stays cached. *)
NoDelay ==
    /\ pc \in {"intr", "delay"}
    /\ tab.nzero # 0 \/ Deadlines = {}
    /\ wake' = IF tab.nzero # 0 THEN << Units(clock) >> ELSE << >>
    /\ pc' = "receive"
    /\ UNCHANGED << tab, cotime, dco, clock, now, rebuild, rtime >>

Delay ==
    LET r == CoTime(tab, cotime, clock)
        remaining == Units(FirstDeadline) - Units(r.now)
    IN /\ pc \in {"intr", "delay"}
       /\ tab.nzero = 0 /\ Deadlines # {}
       /\ tab' = r.tab
       /\ cotime' = << >>
       /\ wake' = << Units(clock) + (IF remaining > 0 THEN remaining ELSE 0) >>
       /\ pc' = "receive"
       /\ UNCHANGED << dco, clock, now, rebuild, rtime >>

(* comm_receive(): threads for some of the users, or none in time.         *)
Input ==
    /\ pc \in {"receive", "served"}
    /\ pc' = "input"
    /\ wake' = << >>
    /\ UNCHANGED << tab, cotime, dco, clock, now, rebuild, rtime >>

TimedOut == wake # << >> /\ wake[1] <= Units(clock)

Timeout ==
    /\ pc = "receive" /\ TimedOut
    /\ pc' = "call"
    /\ wake' = << >>
    /\ UNCHANGED << tab, cotime, dco, clock, now, rebuild, rtime >>

(* conn_select() interrupted, or nothing came of the input.                *)
NoInput ==
    /\ pc = "receive"
    /\ pc' = "call"
    /\ wake' = << >>
    /\ UNCHANGED << tab, cotime, dco, clock, now, rebuild, rtime >>

Served ==
    /\ pc = "served"
    /\ pc' = "call"
    /\ UNCHANGED << tab, cotime, dco, clock, now, wake, rebuild, rtime >>

---------------------------------------------------------------------------
(* co_call(): collect what has expired.  Callouts that are still to be run *)
(* come first; there are some here only after a restart (CallOutSnapshot). *)

(* Mutant: only the cyclic buffer.                                         *)
ExpiredInCycbuf(tb, x) == tb.timeout # 0 /\ tb.timeout <= x.t

Expired(tb, x) ==
    \/ tb.timeout # 0 /\ tb.timeout <= x.t
    \/ tb.queue # << >> /\ NotAfter(tb.queue[1], x)

NoneExpired ==
    /\ pc = "call"
    /\ tab.list[Running] = << >>
    /\ ~Expired(tab, clock)
    /\ tab' = StartRunning(tab)
    /\ pc' = "run"
    /\ UNCHANGED << cotime, dco, clock, now, wake, rebuild, rtime >>

SomeExpired ==
    /\ pc = "call"
    /\ tab.list[Running] = << >>
    /\ Expired(tab, clock)
    /\ now' = clock
    /\ pc' = "expire"
    /\ UNCHANGED << tab, cotime, dco, clock, wake, rebuild, rtime >>

NextSecond ==
    /\ pc = "expire"
    /\ tab.timestamp < now.t
    /\ tab' = [tab EXCEPT !.timestamp = @ + 1]
    /\ pc' = "pop"
    /\ UNCHANGED << cotime, dco, clock, now, wake, rebuild, rtime >>

(* From the queue, within the loop over the seconds and after it.          *)
FromQueue ==
    /\ tab.queue # << >>
    /\ \/ pc = "pop" /\ tab.queue[1].t < tab.timestamp
       \/ /\ pc = "expire"
          /\ tab.timestamp >= now.t
          /\ NotAfter(tab.queue[1], now)
    /\ \E i \in NewIndices(tab) : tab' = ExpireFirst(tab, i)
    /\ UNCHANGED << cotime, dco, clock, pc, now, wake, rebuild, rtime >>

(* Mutant: without looking at the queue.                                   *)
FromCycbufFirst ==
    /\ pc = "pop"
    /\ tab' = ExpireSlot(tab)
    /\ pc' = "expire"
    /\ UNCHANGED << cotime, dco, clock, now, wake, rebuild, rtime >>

FromCycbuf ==
    /\ pc = "pop"
    /\ tab.queue # << >> => tab.queue[1].t >= tab.timestamp
    /\ tab' = ExpireSlot(tab)
    /\ pc' = "expire"
    /\ UNCHANGED << cotime, dco, clock, now, wake, rebuild, rtime >>

Collected ==
    /\ pc = "expire"
    /\ tab.timestamp >= now.t
    /\ tab.queue # << >> => Later(tab.queue[1], now)
    /\ tab' = StartRunning(ExpireTimeout(tab))
    /\ now' = Zero
    /\ pc' = "run"
    /\ UNCHANGED << cotime, dco, clock, wake, rebuild, rtime >>

(* Mutant: the dataspace keeps the callout.                                *)
RunKept ==
    /\ pc = "run"
    /\ tab.list[Running] # << >>
    /\ tab' = FreeCallout(tab, Running, 1, 0)
    /\ pc' = "callout"
    /\ UNCHANGED << dco, cotime, clock, now, wake, rebuild, rtime >>

(* The first of the running callouts leaves the table and the dataspace,   *)
(* and its function is called.                                             *)
Run ==
    LET c == Head(tab.list[Running]).co
    IN /\ pc = "run"
       /\ tab.list[Running] # << >>
       /\ tab' = FreeCallout(tab, Running, 1, 0)
       /\ dco' = [dco EXCEPT ![c] = NoCallout]
       /\ pc' = "callout"
       /\ UNCHANGED << cotime, clock, now, wake, rebuild, rtime >>

AllRun ==
    /\ pc = "run"
    /\ tab.list[Running] = << >>
    /\ pc' = "top"
    /\ UNCHANGED << tab, cotime, dco, clock, now, wake, rebuild, rtime >>

---------------------------------------------------------------------------
Loop == NoRebuild \/ RebuildLater \/ Rebuild \/ NoDelay \/ Delay \/ Timeout
Expire == NextSecond \/ FromQueue \/ FromCycbuf \/ Collected
Call == NoneExpired \/ SomeExpired \/ Expire \/ Run \/ AllRun

Thread ==
    \/ \E c \in Callouts : \/ \E d \in Delays, md \in Mdelays : New(c, d, md)
                           \/ Del(c)
    \/ Query
    \/ EndThread

Next == Tick \/ TurnBack \/ Loop \/ Interrupt \/ Input \/ NoInput \/ Served
            \/ Call \/ Thread

Spec == Init /\ [][Next]_vars

(* The process runs whenever it can and a thread ends.  Time goes on       *)
(* however briefly the process waits, and comm_receive() returns though    *)
(* there is input: it serves every user at most once.                      *)
Fairness ==
    /\ WF_vars(Loop) /\ WF_vars(Call) /\ WF_vars(EndThread)
    /\ SF_vars(Tick) /\ SF_vars(Served)

FairSpec == Spec /\ Fairness

---------------------------------------------------------------------------
(* Properties.                                                             *)

(* Every variable keeps its type.                                          *)
TypeOK ==
    /\ tab \in Table
    /\ cotime \in Seq(Time) /\ Len(cotime) <= 1
    /\ dco \in [Callouts -> Dcallout]
    /\ clock \in Time /\ now \in Time
    /\ pc \in Places
    /\ wake \in Seq(Nat) /\ Len(wake) <= 1
    /\ rebuild \in BOOLEAN
    /\ rtime \in Seq(Time) /\ Len(rtime) <= 1

InList(c, l) == Holds(tab.list[l], c)
InSlot(c) == \E s \in Slots : InList(c, s)
InQueue(c) == Holds(tab.queue, c)
Waiting(c) == InSlot(c) \/ InQueue(c)
Ready(c) == InList(c, Immediate) \/ InList(c, Running)

Expiring == pc \in {"expire", "pop"}

Entries == UNION {{l} \X DOMAIN tab.list[l] : l \in Lists}
InUse == {tab.list[e[1]][e[2]].at : e \in Entries}

(* A callout of a dataspace is in the callout table exactly once, at the   *)
(* place where co_del() would look for it, and the table holds no other:   *)
(* a removed callout cannot run, and removal never runs off the queue.     *)
Found ==
    \A c \in Callouts :
        LET l == DelList(tab, c, dco[c].t, dco[c].m)
            times == Cardinality({e \in Entries : tab.list[e[1]][e[2]].co = c})
                     + Cardinality({k \in DOMAIN tab.queue : tab.queue[k].co = c})
        IN IF dco[c].live
           THEN times = 1 /\ (l = Queue /\ ~Expiring => InQueue(c))
           ELSE times = 0

(* "timestamp: cycbuf start time": what is in the cyclic buffer is due     *)
(* within one round of it after the timestamp, each second in its slot,    *)
(* so that it is neither passed over nor run a round early.                *)
CycWindow ==
    \A s \in Slots : \A k \in DOMAIN tab.list[s] :
        LET t == dco[tab.list[s][k].co].t
        IN /\ s = Slot(t)
           /\ t < tab.timestamp + CYCBUF_SIZE
           /\ t > tab.timestamp \/ (pc = "pop" /\ t = tab.timestamp)

(* "timeout: time of first callout in cycbuf", 0 if there is none, except  *)
(* while co_expire() empties the slots.                                    *)
TimeoutFirst ==
    LET times == {dco[c].t : c \in {x \in Callouts : InSlot(x)}}
    IN ~Expiring => IF times = {} THEN tab.timeout = 0
                    ELSE tab.timeout \in times /\ \A t \in times : tab.timeout <= t

(* The two structures share the array without overlap: each index from     *)
(* cycbrk up is used once or free, the queue ends at or below cycbrk, and  *)
(* the edge is never free.                                                 *)
Shared ==
    /\ Len(tab.queue) <= tab.cycbrk
    /\ InUse \cap tab.flist = {}
    /\ InUse \cup tab.flist = tab.cycbrk .. COTABSZ - 1
    /\ Cardinality(InUse) = Cardinality(Entries)
    /\ tab.cycbrk \notin tab.flist

(* nshort and nzero count what is in the lists.  Their difference tells    *)
(* freecallout() and co_expire() whether any slot is in use: only then     *)
(* does their search for the next one end.                                 *)
Counted == CountsLists(tab)

(* newcallout() never needs an element when there is none: the assertion   *)
(* "if (cycbrk == queuebrk || cycbrk == 1) fatal(...)".  Index 0 stands    *)
(* for the end of a list and cannot hold a callout.                        *)
NoOverflow == \A i \in InUse : i > 0 /\ i >= Len(tab.queue)

(* The queue is a heap by whole seconds: no callout is below one of a      *)
(* later second, whatever was removed from the middle.                     *)
SecondsHeap ==
    \A k \in DOMAIN tab.queue \ {1} : tab.queue[k].t >= tab.queue[k \div 2].t

(* What all operations of the table rely on, at every step.                *)
TableSound == TimeoutFirst /\ Shared /\ NoOverflow /\ SecondsHeap

(* co_delay() never lets the process sleep past the time, in whole         *)
(* seconds, at which a callout is due.                                     *)
WakesInTime ==
    pc = "receive" =>
        \A c \in Callouts :
            dco[c].live =>
                /\ wake # << >>
                /\ \/ wake[1] <= Units(clock)
                   \/ wake[1] \div MSECS <= dco[c].t

(* The same to the sub-second unit.                                        *)
WakesOnTime ==
    pc = "receive" =>
        \A c \in Callouts :
            dco[c].live =>
                /\ wake # << >>
                /\ \/ wake[1] <= Units(clock)
                   \/ wake[1] <= dco[c].t * MSECS + (IF dco[c].m = NoMsec THEN 0 ELSE dco[c].m)

(* Callouts are collected in the order of the seconds they are due, from   *)
(* both structures together, and none before its time.                     *)
InOrder ==
    [][\A c \in Callouts :
          Waiting(c) /\ Ready(c)' =>
              /\ dco[c].t <= clock.t
              /\ \A d \in Callouts : Waiting(d) /\ Waiting(d)' => dco[c].t <= dco[d].t]_vars

(* What the table promises, in CallOutContract: which callouts are waiting *)
(* for which time, and in which order the others are going to run.         *)
Dues == [t : 0 .. MaxSec, m : Msecs]
Ids(s) == [k \in DOMAIN s |-> s[k].co]

Contract ==
    INSTANCE CallOutContract
        WITH waiting <- [c \in {x \in Callouts : Waiting(x)} |->
                            [t |-> dco[c].t, m |-> IF dco[c].m = NoMsec THEN 0 ELSE dco[c].m]],
             ready <- Ids(tab.list[Running] \o tab.list[Immediate])

(* The loop with its table does what the contract says.                    *)
ImplementsContract == Contract!Spec

(* Every callout is run or removed in the end: however long the input, the *)
(* other callouts and the copying keep the driver busy.                    *)
EventuallyRun == \A c \in Callouts : dco[c].live ~> ~dco[c].live

===========================================================================
