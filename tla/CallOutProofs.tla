--------------------------- MODULE CallOutProofs ---------------------------
(***************************************************************************)
(* The main loop around the callout table: its types and counters, the     *)
(* agreement of the table with the dataspaces, the safety properties that  *)
(* rest on them, and that the loop keeps the promises of CallOutContract,  *)
(* for every set of callouts and delays, every size of the table and of    *)
(* the cyclic buffer, and a clock that may be turned back.                 *)
(***************************************************************************)
EXTENDS CallOut, CallOutTableProofs, SequenceTheorems

(* Neither invariant is inductive alone.  The types need the counters:     *)
(* the new "timeout" is the outcome of a search that ends only if some     *)
(* slot is in use.  The counters need the types, and that no callout is    *)
(* running while co_expire() collects: co_call() would overwrite the list. *)
NothingRuns == Expiring => tab.list[Running] = << >>

IInv == TypeOK /\ Counted /\ NothingRuns

LEMMA IInvGood == IInv => Good(tab)
BY DEF IInv, TypeOK, Counted, Good

LEMMA ZeroType == Zero \in Time
BY TableAssumption DEF Zero, Time, Msecs

LEMMA NoCalloutType == NoCallout \in Dcallout
BY DEF NoCallout, Dcallout

LEMMA AtMostOne ==
    ASSUME NEW S
    PROVE  /\ << >> \in Seq(S) /\ Len(<< >>) <= 1
           /\ \A x \in S : << x >> \in Seq(S) /\ Len(<< x >>) <= 1
OBVIOUS

LEMMA UnitsType ==
    ASSUME NEW x \in Time
    PROVE  Units(x) \in Nat
<1>1. x.t \in Nat /\ x.m \in Nat /\ MSECS \in Nat
    BY TableAssumption DEF Time, Msecs
<1>2. x.t * MSECS \in Nat
    BY <1>1
<1> QED  BY <1>1, <1>2 DEF Units

LEMMA UnitsOrder ==
    ASSUME NEW x \in Time, NEW y \in Time, Units(x) <= Units(y)
    PROVE  NotAfter(x, y)
<1>1. /\ x.t \in Nat /\ x.m \in Nat /\ y.t \in Nat /\ y.m \in Nat
      /\ MSECS \in Nat /\ x.m < MSECS /\ y.m < MSECS
    BY TableAssumption DEF Time, Msecs
<1>2. x.t <= y.t
    <2>1. SUFFICES ASSUME x.t > y.t  PROVE FALSE
        BY <1>1
    <2>2. PICK d \in Nat : x.t = y.t + 1 + d
        <3>1. x.t - y.t - 1 \in Nat /\ x.t = y.t + 1 + (x.t - y.t - 1)
            BY <1>1, <2>1
        <3> QED  BY <3>1
    <2>3. x.t * MSECS = y.t * MSECS + MSECS + d * MSECS
        BY <1>1, <2>2
    <2>4. y.t * MSECS \in Nat /\ d * MSECS \in Nat
        BY <1>1
    <2> QED  BY <1>1, <2>3, <2>4 DEF Units
<1>3. x.t = y.t => x.m <= y.m
    <2>1. y.t * MSECS \in Nat
        BY <1>1
    <2> QED  BY <1>1, <2>1 DEF Units
<1> QED  BY <1>1, <1>2, <1>3 DEF NotAfter, Later

(* There is a first of the times co_delay() looks at, if there is any.     *)
LEMMA FirstDeadlineType ==
    ASSUME TypeOK, Deadlines # {}
    PROVE  /\ Deadlines \subseteq Time
           /\ FirstDeadline \in Deadlines /\ FirstDeadline \in Time
           /\ \A y \in Deadlines : NotAfter(FirstDeadline, y)
<1>1. Deadlines \subseteq Time
    <2>1. tab.timeout \in Nat /\ tab.queue \in Seq(QueueEntry)
        BY DEF TypeOK, Table
    <2>2. ToSet(rtime) \subseteq Time
        BY DEF TypeOK, ToSet
    <2>3. [t |-> tab.timeout, m |-> 0] \in Time
        BY <2>1, TableAssumption DEF Time, Msecs
    <2>4. tab.queue # << >> => When(tab.queue[1]) \in Time
        <3>1. tab.queue # << >> => tab.queue[1] \in QueueEntry
            BY <2>1
        <3> QED  BY <3>1 DEF When, QueueEntry, Time
    <2> QED  BY <2>2, <2>3, <2>4 DEF Deadlines
<1> DEFINE S == {Units(x) : x \in Deadlines}
<1>2. S \subseteq Int /\ S # {} /\ \A u \in S : u >= 0
    BY <1>1, UnitsType
<1>3. PICK u \in S : \A v \in S : u <= v
    <2> HIDE DEF S
    <2> QED  BY <1>2, LeastExists
<1>4. PICK x \in Deadlines : u = Units(x)
    BY <1>3
<1>5. \A y \in Deadlines : NotAfter(x, y)
    <2>1. TAKE y \in Deadlines
    <2>2. Units(x) <= Units(y)
        BY <1>3, <1>4
    <2> QED  BY <1>1, <2>2, UnitsOrder
<1> HIDE DEF S
<1>6. FirstDeadline \in Deadlines /\ \A y \in Deadlines : NotAfter(FirstDeadline, y)
    BY <1>4, <1>5 DEF FirstDeadline
<1> QED  BY <1>1, <1>6

---------------------------------------------------------------------------
LEMMA InitIInv == Init => IInv
<1> SUFFICES ASSUME Init  PROVE IInv
    OBVIOUS
<1>1. tab \in Table /\ Counted
    BY EmptyTableGood DEF Init, Good, Counted
<1>2. << >> \in Seq(Time) /\ << >> \in Seq(Nat) /\ Len(<< >>) = 0
    OBVIOUS
<1>3. TypeOK
    BY <1>1, <1>2, ZeroType, NoCalloutType DEF Init, TypeOK, Places, Threads
<1>4. NothingRuns
    BY DEF Init, NothingRuns, Expiring
<1> QED  BY <1>1, <1>3, <1>4 DEF IInv

(* What a step has to establish when it makes the table "new" and moves to *)
(* "pc": the other variables it leaves alone or are typed by the caller.   *)
LEMMA TableStep ==
    ASSUME TypeOK', Good(tab'), Expiring' => tab'.list[Running] = << >>
    PROVE  IInv'
BY DEF IInv, Counted, NothingRuns, Good

LEMMA NextIInv == IInv /\ [Next]_vars => IInv'
<1> SUFFICES ASSUME IInv, [Next]_vars  PROVE IInv'
    OBVIOUS
<1> USE IInvGood DEF IInv, TypeOK, NothingRuns
<1>0. Good(tab)
    OBVIOUS
<1>1. CASE Tick
    <2>1. clock' \in Time
        <3>1. clock \in Time /\ MSECS \in Nat /\ MSECS > 0
            BY TableAssumption
        <3>2. clock' = IF clock.m + 1 < MSECS THEN [clock EXCEPT !.m = @ + 1]
                                              ELSE [t |-> clock.t + 1, m |-> 0]
            BY <1>1 DEF Tick
        <3> HIDE DEF IInv, TypeOK
        <3> QED  BY <3>1, <3>2 DEF Time, Msecs
    <2> QED  BY <1>1, <2>1 DEF Tick, Counted, Expiring
<1>2. CASE TurnBack
    <2>1. clock' \in Time
        BY <1>2 DEF TurnBack, Time
    <2>2. wake' \in Seq(Nat) /\ Len(wake') <= 1
        <3>1. CASE wake = << >>
            BY <1>2, <3>1 DEF TurnBack
        <3>2. CASE wake # << >>
            <4> DEFINE w == IF wake[1] > MSECS THEN wake[1] - MSECS ELSE 0
            <4>1. wake[1] \in Nat
                BY <3>2
            <4>2. w \in Nat
                BY <4>1, TableAssumption
            <4>3. wake' = << w >>
                BY <1>2, <3>2 DEF TurnBack
            <4> HIDE DEF w
            <4> QED  BY <4>2, <4>3
        <3> QED  BY <3>1, <3>2
    <2> QED  BY <1>2, <2>1, <2>2 DEF TurnBack, Counted, Expiring
<1>3. ASSUME NEW c \in Callouts, NEW d \in Delays, NEW md \in Mdelays, New(c, d, md)
      PROVE  IInv'
    <2> DEFINE r == IF UsesClock(tab, 0, d, md)
                    THEN CoTime(tab, cotime, clock) ELSE [tab |-> tab, now |-> Zero]
               due == Due(r.tab, r.now, d, md)
    <2>1. Good(r.tab) /\ r.now \in Time /\ NewIndices(r.tab) = NewIndices(tab)
        <3>1. CASE UsesClock(tab, 0, d, md)
            BY <1>0, <3>1, CoTimeGood
        <3>2. CASE ~UsesClock(tab, 0, d, md)
            <4>1. r.tab = tab /\ r.now = Zero
                BY <3>2
            <4> QED  BY <1>0, <4>1, ZeroType
        <3> QED  BY <3>1, <3>2
    <2>2. d \in Nat /\ md \in Msecs \cup {NoMsec}
        BY LoopAssumption
    <2>3. /\ due.t \in Nat /\ due.m \in Msecs \cup {NoMsec}
          /\ due.q \in Slots \cup {Immediate, Queue}
          /\ due.q \in Slots => due.t # 0
          /\ due.q = Immediate => due.t = 0
        <3>1. r.tab \in Table
            BY <2>1 DEF Good
        <3> HIDE DEF r
        <3> QED  BY <2>1, <2>2, <3>1, DueType
    <2>4. PICK i \in NewIndices(tab) : tab' = CoNew(r.tab, c, due, i)
        BY <1>3 DEF New
    <2>5. Good(tab')
        <3> HIDE DEF r, due
        <3> QED  BY <2>1, <2>3, <2>4, CoNewGood
    <2>6. cotime' \in Seq(Time) /\ Len(cotime') <= 1
        <3>1. cotime' = << r.now >> \/ cotime' = cotime
            BY <1>3 DEF New
        <3> HIDE DEF r
        <3>2. << r.now >> \in Seq(Time) /\ Len(<< r.now >>) <= 1
            BY <2>1, AtMostOne
        <3> QED  BY <3>1, <3>2
    <2>7. dco' \in [Callouts -> Dcallout]
        <3>1. dco' = [dco EXCEPT ![c] = [live |-> TRUE, t |-> due.t, m |-> due.m]]
            BY <1>3 DEF New
        <3> HIDE DEF due
        <3> QED  BY <2>3, <3>1 DEF Dcallout
    <2>8. UNCHANGED << clock, pc, now, wake, rebuild, rtime >> /\ InThread
        BY <1>3 DEF New
    <2>9. ~Expiring'
        BY <2>8 DEF InThread, Threads, Expiring
    <2> QED  BY <2>5, <2>6, <2>7, <2>8, <2>9, TableStep DEF Good
<1>4. ASSUME NEW c \in Callouts, Del(c)
      PROVE  IInv'
    <2> DEFINE r == CoTime(tab, cotime, clock)
    <2>1. Good(r.tab) /\ r.now \in Time
        BY <1>0, CoTimeGood
    <2>2. tab' = CoDel(r.tab, c, dco[c].t, dco[c].m) /\ dco[c].t \in Nat
        BY <1>4 DEF Del, Dcallout
    <2>3. Good(tab')
        <3> HIDE DEF r
        <3> QED  BY <2>1, <2>2, CoDelGood
    <2>4. cotime' \in Seq(Time) /\ Len(cotime') <= 1
        <3>1. cotime' = << r.now >>
            BY <1>4 DEF Del
        <3> HIDE DEF r
        <3> QED  BY <2>1, <3>1
    <2>5. dco' \in [Callouts -> Dcallout]
        BY <1>4, NoCalloutType DEF Del
    <2>6. UNCHANGED << clock, pc, now, wake, rebuild, rtime >> /\ InThread
        BY <1>4 DEF Del
    <2>7. ~Expiring'
        BY <2>6 DEF InThread, Threads, Expiring
    <2> QED  BY <2>3, <2>4, <2>5, <2>6, <2>7, TableStep DEF Good
<1>5. CASE Query
    <2> DEFINE r == CoTime(tab, cotime, clock)
    <2>1. Good(r.tab) /\ r.now \in Time
        BY <1>0, CoTimeGood
    <2>2. tab' = r.tab /\ cotime' = << r.now >>
        BY <1>5 DEF Query
    <2>3. cotime' \in Seq(Time) /\ Len(cotime') <= 1 /\ Good(tab')
        <3> HIDE DEF r
        <3> QED  BY <2>1, <2>2
    <2>4. UNCHANGED << dco, clock, pc, now, wake, rebuild, rtime >> /\ InThread
        BY <1>5 DEF Query
    <2>5. ~Expiring'
        BY <2>4 DEF InThread, Threads, Expiring
    <2> QED  BY <2>3, <2>4, <2>5, TableStep DEF Good
<1>6. CASE EndThread
    <2>1. pc' \in {"top", "delay", "served", "run"}
        BY <1>6 DEF EndThread, AfterThread, InThread, Threads
    <2>2. << >> \in Seq(Time) /\ Len(<< >>) = 0
        OBVIOUS
    <2> QED  BY <1>6, <2>1, <2>2 DEF EndThread, Counted, Expiring, Places
<1>7. CASE NoRebuild \/ Interrupt \/ Served \/ AllRun
    <2>1. UNCHANGED << tab, cotime, dco, clock, now, wake, rebuild, rtime >>
          /\ pc' \in {"intr", "interrupt", "call", "run", "top"}
        BY <1>7 DEF NoRebuild, Interrupt, Served, AllRun
    <2> QED  BY <2>1 DEF Counted, Expiring, Places, Threads
<1>8. CASE Input \/ Timeout \/ NoInput
    <2>1. UNCHANGED << tab, cotime, dco, clock, now, rebuild, rtime >>
          /\ wake' = << >> /\ pc' \in {"input", "call"}
        BY <1>8 DEF Input, Timeout, NoInput
    <2>2. << >> \in Seq(Nat) /\ Len(<< >>) = 0
        OBVIOUS
    <2> QED  BY <2>1, <2>2 DEF Counted, Expiring, Places, Threads
<1>9. CASE RebuildLater \/ Rebuild
    <2> DEFINE r == CoTime(tab, cotime, clock)
    <2>1. Good(r.tab) /\ r.now \in Time
        BY <1>0, CoTimeGood
    <2>2. /\ tab' = r.tab /\ cotime' \in {<< >>, << r.now >>} /\ pc' = "intr"
          /\ rebuild' \in BOOLEAN
          /\ rtime' \in {rtime, << >>, << [r.now EXCEPT !.t = @ + 1] >>}
          /\ UNCHANGED << dco, clock, now, wake >>
        BY <1>9, LoopAssumption DEF RebuildLater, Rebuild
    <2>3. /\ cotime' \in Seq(Time) /\ Len(cotime') <= 1
          /\ rtime' \in Seq(Time) /\ Len(rtime') <= 1
          /\ Good(tab')
        <3> DEFINE next == [r.now EXCEPT !.t = @ + 1]
        <3> HIDE DEF r
        <3>1. next \in Time
            BY <2>1 DEF Time
        <3> HIDE DEF next
        <3>2. << next >> \in Seq(Time) /\ Len(<< next >>) <= 1
            BY <3>1, AtMostOne
        <3>3. << r.now >> \in Seq(Time) /\ Len(<< r.now >>) <= 1
            BY <2>1, AtMostOne
        <3>4. cotime' \in Seq(Time) /\ Len(cotime') <= 1
            BY <2>2, <3>3, AtMostOne
        <3>5. rtime' \in {rtime, << >>, << next >>}
            BY <2>2 DEF next
        <3>6. rtime' \in Seq(Time) /\ Len(rtime') <= 1
            BY <3>2, <3>5, AtMostOne
        <3> QED  BY <2>1, <2>2, <3>4, <3>6
    <2> QED  BY <2>2, <2>3, TableStep DEF Good, Places, Threads, Expiring
<1>10. CASE NoDelay
    <2>1. wake' = << >> \/ wake' = << Units(clock) >>
        BY <1>10 DEF NoDelay
    <2>2. wake' \in Seq(Nat) /\ Len(wake') <= 1
        <3>1. Units(clock) \in Nat
            BY UnitsType
        <3>2. << Units(clock) >> \in Seq(Nat) /\ Len(<< Units(clock) >>) <= 1
            BY <3>1, AtMostOne
        <3> QED  BY <2>1, <3>2, AtMostOne
    <2> QED  BY <1>10, <2>2 DEF NoDelay, Counted, Expiring, Places
<1>11. CASE Delay
    <2> DEFINE r == CoTime(tab, cotime, clock)
               remaining == Units(FirstDeadline) - Units(r.now)
               until == Units(clock) + (IF remaining > 0 THEN remaining ELSE 0)
    <2>1. Good(r.tab) /\ r.now \in Time
        BY <1>0, CoTimeGood
    <2>2. /\ tab' = r.tab /\ cotime' = << >> /\ wake' = << until >> /\ pc' = "receive"
          /\ UNCHANGED << dco, clock, now, rebuild, rtime >>
        BY <1>11 DEF Delay
    <2>3. until \in Nat
        <3>1. FirstDeadline \in Time
            BY <1>11, FirstDeadlineType DEF Delay
        <3>2. Units(clock) \in Nat /\ Units(FirstDeadline) \in Nat /\ Units(r.now) \in Nat
            BY <2>1, <3>1, UnitsType
        <3> HIDE DEF r
        <3> QED  BY <3>2
    <2>4. /\ cotime' \in Seq(Time) /\ Len(cotime') <= 1
          /\ wake' \in Seq(Nat) /\ Len(wake') <= 1 /\ Good(tab')
        <3>1. << >> \in Seq(Time) /\ Len(<< >>) = 0
            OBVIOUS
        <3> HIDE DEF r, until
        <3> QED  BY <2>1, <2>2, <2>3, <3>1
    <2> QED  BY <2>2, <2>4, TableStep DEF Good, Places, Expiring
<1>12. CASE NoneExpired
    <2>1. Good(tab')
        BY <1>0, <1>12, StartRunningGood DEF NoneExpired
    <2> QED  BY <1>12, <2>1, TableStep DEF NoneExpired, Good, Places, Expiring
<1>13. CASE SomeExpired
    BY <1>13 DEF SomeExpired, Counted, Places, Expiring
<1>14. CASE NextSecond
    <2> DEFINE ts == tab.timestamp + 1
               new == [tab EXCEPT !.timestamp = ts]
    <2>1. /\ new \in Table /\ new.list = tab.list /\ new.nshort = tab.nshort
          /\ new.nzero = tab.nzero
        <3>1. tab \in Table /\ ts \in Nat
            BY DEF Table
        <3> HIDE DEF ts, TypeOK
        <3> QED  BY <3>1 DEF Table
    <2>2. Good(new)
        <3> HIDE DEF new
        <3> QED  BY <1>0, <2>1, SameLists
    <2>3. tab' = new /\ pc' = "pop" /\ UNCHANGED << cotime, dco, clock, now, wake, rebuild, rtime >>
        BY <1>14 DEF NextSecond
    <2>4. tab'.list[Running] = << >>
        BY <1>14, <2>1, <2>3 DEF NextSecond, Expiring
    <2> HIDE DEF new
    <2> QED  BY <2>2, <2>3, <2>4, TableStep DEF Good, Places
<1>15. CASE FromQueue
    <2>1. PICK i \in NewIndices(tab) : tab' = ExpireFirst(tab, i)
        BY <1>15 DEF FromQueue
    <2>2. Good(tab')
        BY <1>0, <1>15, <2>1, ExpireFirstGood DEF FromQueue
    <2>3. pc' = pc /\ UNCHANGED << cotime, dco, clock, now, wake, rebuild, rtime >>
        BY <1>15 DEF FromQueue
    <2>4. tab.list[Running] = << >>
        BY <1>15 DEF FromQueue, Expiring
    <2>5. tab'.list[Running] = tab.list[Running]
        BY <2>1, ListNames DEF ExpireFirst, NewCallout, Table
    <2> QED  BY <2>2, <2>3, <2>4, <2>5, TableStep DEF Good
<1>16. CASE FromCycbuf
    <2>1. tab' = ExpireSlot(tab) /\ pc' = "expire"
          /\ UNCHANGED << cotime, dco, clock, now, wake, rebuild, rtime >>
        BY <1>16 DEF FromCycbuf
    <2>2. Good(tab')
        BY <1>0, <2>1, ExpireSlotGood
    <2>3. tab.list[Running] = << >>
        BY <1>16 DEF FromCycbuf, Expiring
    <2>4. tab'.list[Running] = tab.list[Running]
        <3>1. Slot(tab.timestamp) # Running
            BY SlotOfSecond, ListNames DEF Table
        <3> QED  BY <2>1, <3>1, ListNames DEF ExpireSlot, Table
    <2> QED  BY <2>1, <2>2, <2>3, <2>4, TableStep DEF Good, Places
<1>17. CASE Collected
    <2>1. tab.list[Running] = << >>
        BY <1>17 DEF Collected, Expiring
    <2>2. Good(ExpireTimeout(tab)) /\ ExpireTimeout(tab).list = tab.list
        BY <1>0, ExpireTimeoutGood
    <2>3. Good(StartRunning(ExpireTimeout(tab)))
        BY <2>1, <2>2, StartRunningGood
    <2> QED  BY <1>17, <2>3, ZeroType, TableStep DEF Collected, Good, Places, Expiring
<1>18. CASE Run
    <2>1. tab.list[Running] \in Seq(Element) /\ tab.list[Running] # << >>
        BY <1>18, ListNames DEF Run, Table
    <2>2. 1 \in 1 .. Len(tab.list[Running]) /\ Running \in Lists
          /\ (Running \in Slots <=> 0 # 0)
        BY <2>1, ListNames
    <2>3. Good(FreeCallout(tab, Running, 1, 0))
        BY <1>0, <2>2, FreeCalloutGood
    <2>4. dco' \in [Callouts -> Dcallout]
        BY <1>18, NoCalloutType DEF Run
    <2> QED  BY <1>18, <2>3, <2>4, TableStep DEF Run, Good, Places, Threads, Expiring
<1>19. CASE UNCHANGED vars
    BY <1>19 DEF vars, Counted, Expiring
<1> HIDE DEF IInv, TypeOK, NothingRuns
<1> QED  BY <1>1, <1>2, <1>3, <1>4, <1>5, <1>6, <1>7, <1>8, <1>9, <1>10, <1>11,
            <1>12, <1>13, <1>14, <1>15, <1>16, <1>17, <1>18, <1>19
         DEF Next, Loop, Call, Expire, Thread

(* Every variable of the loop and every field of the table keeps its type: *)
(* in particular co_delay() always computes a time to wake up at, and the  *)
(* searches of freecallout() and co_expire() for the next callout in the   *)
(* cyclic buffer, and of the edge of the lists, always end.                *)
THEOREM TypeCorrect == Spec => []TypeOK
<1>1. IInv => TypeOK
    BY DEF IInv
<1> QED  BY <1>1, InitIInv, NextIInv, PTL DEF Spec

(* nshort is the number of callouts in all lists of the table and nzero of *)
(* those that are collected or run, at every point of the loop.            *)
THEOREM CountersRight == Spec => []Counted
<1>1. IInv => Counted
    BY DEF IInv
<1> QED  BY <1>1, InitIInv, NextIInv, PTL DEF Spec

---------------------------------------------------------------------------
(***************************************************************************)
(* The callout table and the dataspaces agree: every callout is where the  *)
(* table looks for it, in the right second, and the first one is known.    *)
(***************************************************************************)

---------------------------------------------------------------------------
(* The table and the times that the dataspaces keep of the callouts.       *)

Times == [Callouts -> Dcallout]

(* The second of slot s that the cyclic buffer holds now; the present one  *)
(* only while co_expire() is about to empty its slot.                      *)
InWindow(x, s, tb, pop) ==
    /\ x.m = NoMsec /\ s = Slot(x.t)
    /\ x.t < tb.timestamp + CYCBUF_SIZE
    /\ tb.timestamp < x.t \/ (pop /\ x.t = tb.timestamp)

(* A callout of a dataspace as an entry of the queue.                      *)
Entry(c, x) == [co |-> c, t |-> x.t, m |-> IF x.m = NoMsec THEN 0 ELSE x.m]

Timed(tb, d, pop) ==
    /\ \A c \in Callouts : d[c].live <=> \E l \in Everywhere : In(tb, c, l)
    /\ \A c \in Callouts, s \in Slots : In(tb, c, s) => InWindow(d[c], s, tb, pop)
    /\ \A c \in Callouts, l \in {Immediate, Running} :
          In(tb, c, l) => d[c].t <= tb.timestamp
    /\ \A j \in 1 .. Len(tb.queue) :
          tb.queue[j] = Entry(tb.queue[j].co, d[tb.queue[j].co])

(* "timeout" is not after any callout in the slots; if it is ahead, it is  *)
(* the time of one.                                                        *)
Soonest(tb, d, ahead) ==
    /\ \A c \in Callouts, s \in Slots :
          In(tb, c, s) => tb.timeout # 0 /\ tb.timeout <= d[c].t
    /\ ahead /\ tb.timeout # 0 =>
          \E c \in Callouts, s \in Slots : In(tb, c, s) /\ d[c].t = tb.timeout

LEMMA TimesType ==
    ASSUME NEW d \in Times, NEW c \in Callouts
    PROVE  /\ d[c].t \in Nat /\ d[c].m \in Msecs \cup {NoMsec}
           /\ d[c].live \in BOOLEAN
BY DEF Times, Dcallout

(* Two seconds within one round have different slots.                      *)
LEMMA SameSecond ==
    ASSUME NEW a \in Nat, NEW t \in Nat, NEW u \in Nat,
           a <= t, t < a + CYCBUF_SIZE, a <= u, u < a + CYCBUF_SIZE,
           Slot(t) = Slot(u)
    PROVE  t = u
<1> DEFINE N == CYCBUF_SIZE
           p == t \div N
           q == u \div N
           r == t % N
<1>1. N \in Nat /\ N > 0
    BY TableAssumption
<1>2. /\ p \in Nat /\ r \in 0 .. N - 1 /\ t = p * N + r
      /\ q \in Nat /\ u = q * N + r
    BY <1>1 DEF Slot
<1>3. p * N \in Nat /\ q * N \in Nat
    BY <1>1, <1>2
<1>4. CASE p > q
    <2>1. PICK e \in Nat : p = q + 1 + e
        <3>1. p - q - 1 \in Nat /\ p = q + 1 + (p - q - 1)
            BY <1>2, <1>4
        <3> QED  BY <3>1
    <2>2. p * N = q * N + N + e * N /\ e * N \in Nat
        BY <1>1, <1>2, <2>1
    <2> HIDE DEF N, p, q, r
    <2> QED  BY <1>1, <1>2, <1>3, <2>2 DEF N
<1>5. CASE p < q
    <2>1. PICK e \in Nat : q = p + 1 + e
        <3>1. q - p - 1 \in Nat /\ q = p + 1 + (q - p - 1)
            BY <1>2, <1>5
        <3> QED  BY <3>1
    <2>2. q * N = p * N + N + e * N /\ e * N \in Nat
        BY <1>1, <1>2, <2>1
    <2> HIDE DEF N, p, q, r
    <2> QED  BY <1>1, <1>2, <1>3, <2>2 DEF N
<1> QED  BY <1>2, <1>4, <1>5

LEMMA WindowIs ==
    ASSUME NEW tb, NEW s, NEW x, InWindow(x, s, tb, FALSE)
    PROVE  /\ x.m = NoMsec /\ s = Slot(x.t)
           /\ tb.timestamp < x.t /\ x.t < tb.timestamp + CYCBUF_SIZE
BY DEF InWindow

LEMMA OneSecondPerSlot ==
    ASSUME NEW tb \in Table, NEW s, NEW x, NEW y, x.t \in Nat, y.t \in Nat,
           InWindow(x, s, tb, FALSE), InWindow(y, s, tb, FALSE)
    PROVE  x.t = y.t
<1>1. tb.timestamp \in Nat /\ CYCBUF_SIZE \in Nat
    BY TableFields, TableAssumption
<1>2. /\ tb.timestamp <= x.t /\ x.t < tb.timestamp + CYCBUF_SIZE
      /\ tb.timestamp <= y.t /\ y.t < tb.timestamp + CYCBUF_SIZE
      /\ Slot(x.t) = Slot(y.t)
    BY <1>1 DEF InWindow
<1> QED  BY <1>1, <1>2, SameSecond

(* The callouts of the slots are all due within one round from t on.       *)
WithinRound(list, d, t) ==
    \A c \in Callouts, s \in Slots :
        Holds(list[s], c) => /\ s = Slot(d[c].t)
                             /\ t <= d[c].t /\ d[c].t < t + CYCBUF_SIZE

(* u is the time of the first of them.                                     *)
FirstInSlots(list, d, u) ==
    /\ \E c \in Callouts, s \in Slots : Holds(list[s], c) /\ d[c].t = u
    /\ \A c \in Callouts, s \in Slots : Holds(list[s], c) => u <= d[c].t

LEMMA SomeoneIn ==
    ASSUME NEW list \in AllLists, NEW l \in Lists
    PROVE  list[l] # << >> <=> \E c \in Callouts : Holds(list[l], c)
<1>1. list[l] \in Seq(Element)
    BY ListLengths
<1>2. \A c : Holds(list[l], c) <=> \E k \in 1 .. Len(list[l]) : list[l][k].co = c
    BY <1>1, HoldsIs
<1>3. ASSUME list[l] # << >>
      PROVE  \E c \in Callouts : Holds(list[l], c)
    <2>1. 1 \in 1 .. Len(list[l])
        BY <1>1, <1>3
    <2>2. list[l][1].co \in Callouts
        BY <2>1, ListLengths
    <2> QED  BY <1>2, <2>1, <2>2
<1>4. ASSUME list[l] = << >>
      PROVE  \A c : ~Holds(list[l], c)
    BY <1>2, <1>4
<1> QED  BY <1>3, <1>4

LEMMA NoneInSlots ==
    ASSUME NEW list \in AllLists, InSlots(list) = 0
    PROVE  \A c \in Callouts, s \in Slots : ~Holds(list[s], c)
<1>1. SlotEntries(list) = {}
    BY SlotEntriesFinite, FS_EmptySet DEF InSlots
<1> SUFFICES ASSUME NEW s \in Slots
             PROVE  list[s] = << >>
    BY SomeoneIn, ListNames
<1>2. list[s] \in Seq(Element) /\ Len(list[s]) \in Nat
    BY ListLengths, ListNames
<1>3. ASSUME list[s] # << >>
      PROVE  FALSE
    <2>1. 1 \in 1 .. Len(list[s])
        BY <1>2, <1>3
    <2>2. << s, 1 >> \in SlotEntries(list)
        BY <2>1, SlotEntriesAre
    <2> QED  BY <1>1, <2>2
<1> QED  BY <1>3

(* The search of freecallout() and co_expire() finds the first of them.    *)
LEMMA NextIsFirst ==
    ASSUME NEW list \in AllLists, InSlots(list) # 0, NEW t \in Nat,
           NEW d \in Times, WithinRound(list, d, t)
    PROVE  FirstInSlots(list, d, NextTimeout(list, t))
<1> DEFINE Used == {u \in t .. t + CYCBUF_SIZE - 1 : list[Slot(u)] # << >>}
           next(u) == /\ list[Slot(u)] # << >>
                      /\ \A v \in t .. u - 1 : list[Slot(v)] = << >>
           n == NextTimeout(list, t)
<1>1. CYCBUF_SIZE \in Nat
    BY TableAssumption
<1>2. Used \subseteq Int /\ Used # {} /\ \A u \in Used : u >= t
    <2>1. n \in t .. t + CYCBUF_SIZE - 1 /\ list[Slot(n)] # << >>
        BY NextTimeoutFound
    <2> HIDE DEF n
    <2> QED  BY <1>1, <2>1
<1>3. PICK u \in Used : \A v \in Used : u <= v
    <2> HIDE DEF Used
    <2> QED  BY <1>2, LeastExists
<1>4. \E w \in t .. t + CYCBUF_SIZE - 1 : next(w)
    <2>1. \A v \in t .. u - 1 : list[Slot(v)] = << >>
        BY <1>1, <1>3
    <2> QED  BY <1>3, <2>1
<1>5. n = CHOOSE w \in t .. t + CYCBUF_SIZE - 1 : next(w)
    BY DEF NextTimeout
<1> HIDE DEF next
<1>6. n \in t .. t + CYCBUF_SIZE - 1 /\ next(n)
    BY <1>4, <1>5
<1> HIDE DEF n
<1>7. /\ n \in Nat /\ t <= n /\ n < t + CYCBUF_SIZE /\ Slot(n) \in Slots
      /\ list[Slot(n)] # << >>
      /\ \A v \in t .. n - 1 : list[Slot(v)] = << >>
    BY <1>1, <1>6, SlotOfSecond DEF next
<1>8. \E c \in Callouts, s \in Slots : Holds(list[s], c) /\ d[c].t = n
    <2>1. PICK c \in Callouts : Holds(list[Slot(n)], c)
        BY <1>7, SomeoneIn, ListNames
    <2>2. Slot(n) = Slot(d[c].t) /\ t <= d[c].t /\ d[c].t < t + CYCBUF_SIZE
        BY <1>7, <2>1 DEF WithinRound
    <2>3. d[c].t = n
        BY <1>7, <2>2, TimesType, SameSecond
    <2> QED  BY <1>7, <2>1, <2>3
<1>9. ASSUME NEW c \in Callouts, NEW s \in Slots, Holds(list[s], c)
      PROVE  n <= d[c].t
    <2>1. s = Slot(d[c].t) /\ t <= d[c].t /\ d[c].t \in Nat
        BY <1>9, TimesType DEF WithinRound
    <2>2. list[Slot(d[c].t)] # << >>
        BY <1>9, <2>1, SomeoneIn, ListNames
    <2>3. ~(d[c].t < n)
        BY <1>7, <2>1, <2>2
    <2> QED  BY <1>7, <2>1, <2>3
<1> QED  BY <1>8, <1>9 DEF FirstInSlots, n

(* The table and the dataspaces outside of co_expire().                    *)
Agree(tb, d) == Sound(tb) /\ Timed(tb, d, FALSE) /\ Soonest(tb, d, TRUE)

SameIn(new, tb) == \A c \in Callouts, l \in Everywhere : In(new, c, l) <=> In(tb, c, l)

LEMMA SlotsEverywhere ==
    /\ Slots \subseteq Everywhere
    /\ Immediate \in Everywhere /\ Running \in Everywhere /\ Queue \in Everywhere
    /\ Immediate \notin Slots /\ Running \notin Slots /\ Queue \notin Slots
    /\ Immediate # Running /\ Queue # Immediate /\ Queue # Running
    /\ \A l \in Everywhere : l \in Slots \/ l = Immediate \/ l = Running \/ l = Queue
BY ListNames DEF Everywhere, Lists

(* co_time() lets the timestamp follow the clock, but neither back nor up  *)
(* to the first callout of the cyclic buffer; the time it returns is not   *)
(* before it.                                                              *)
LEMMA TimestampBounds ==
    ASSUME NEW tb \in Table, NEW clk \in Time
    PROVE  LET ts == Timestamp(tb, clk)
           IN  /\ ts \in Nat /\ tb.timestamp <= ts
               /\ ts = tb.timestamp \/ (ts <= clk.t /\ (tb.timeout # 0 => ts < tb.timeout))
<1>1. tb.timestamp \in Nat /\ tb.timeout \in Nat /\ clk.t \in Nat
    BY TableFields DEF Time
<1>2. CASE clk.t <= tb.timestamp \/ tb.list[Running] # << >>
    BY <1>1, <1>2 DEF Timestamp
<1>3. CASE ~(clk.t <= tb.timestamp \/ tb.list[Running] # << >>)
    <2>1. Timestamp(tb, clk) = IF tb.timeout = 0 \/ tb.timeout > clk.t THEN clk.t
                               ELSE IF tb.timestamp < tb.timeout THEN tb.timeout - 1
                               ELSE tb.timestamp
        BY <1>3, Zenon DEF Timestamp
    <2> QED  BY <1>1, <1>3, <2>1
<1> QED  BY <1>2, <1>3

LEMMA CoTimeAgrees ==
    ASSUME NEW tb, NEW d \in Times, Agree(tb, d), NEW clk \in Time,
           NEW cached \in Seq(Time), Len(cached) <= 1,
           cached # << >> => cached[1].t >= tb.timestamp
    PROVE  LET r == CoTime(tb, cached, clk)
           IN  /\ Agree(r.tab, d) /\ SameIn(r.tab, tb)
               /\ r.now \in Time /\ r.now.t >= r.tab.timestamp
               /\ NewIndices(r.tab) = NewIndices(tb)
               /\ r.tab.queue = tb.queue /\ r.tab.list = tb.list
               /\ r.tab.timeout = tb.timeout /\ r.tab.cycbrk = tb.cycbrk
<1> DEFINE r == CoTime(tb, cached, clk)
           ts == Timestamp(tb, clk)
           new == [tb EXCEPT !.timestamp = ts]
<1>1. /\ Sound(tb) /\ Good(tb) /\ tb \in Table
      /\ Timed(tb, d, FALSE) /\ Soonest(tb, d, TRUE)
    BY DEF Agree, Sound, Good
<1>2. Good(r.tab) /\ r.now \in Time /\ NewIndices(r.tab) = NewIndices(tb)
    BY <1>1, CoTimeGood
<1>3. CASE cached # << >>
    <2>1. r.tab = tb /\ r.now = cached[1]
        BY <1>3 DEF CoTime
    <2> QED  BY <1>2, <1>3, <2>1 DEF SameIn
<1>4. CASE cached = << >>
    <2>1. r.tab = new
        BY <1>4 DEF CoTime
    <2>2. /\ new.timestamp = ts /\ new.queue = tb.queue /\ new.list = tb.list
          /\ new.timeout = tb.timeout /\ new.cycbrk = tb.cycbrk /\ new.flist = tb.flist
        BY <1>1 DEF Table
    <2>3. r.now = CASE clk.t < tb.timestamp -> [t |-> tb.timestamp, m |-> 0]
                    [] clk.t > ts + MAXLAG -> [t |-> ts + MAXLAG, m |-> 0]
                    [] OTHER -> clk
        BY <1>4 DEF CoTime
    <2>4. /\ ts \in Nat /\ tb.timestamp <= ts
          /\ ts = tb.timestamp \/ (ts <= clk.t /\ (tb.timeout # 0 => ts < tb.timeout))
          /\ clk.t <= tb.timestamp => ts = tb.timestamp
        BY <1>1, TimestampBounds DEF Timestamp
    <2>5. tb.timestamp \in Nat /\ tb.timeout \in Nat /\ clk.t \in Nat /\ MAXLAG \in Nat
        BY <1>1, TableFields, TableAssumption DEF Time
    <2> HIDE DEF new, ts, r
    <2>6. Sound(new) /\ SameIn(new, tb)
        BY <1>1, <1>2, <2>1, <2>2, SamePlaces DEF SameIn
    <2>7. r.now.t >= ts
        <3>1. CASE clk.t < tb.timestamp
            <4>0. ~(clk.t > ts + MAXLAG)
                BY <2>4, <2>5, <3>1
            <4>1. r.now = [t |-> tb.timestamp, m |-> 0]
                BY <2>3, <3>1, <4>0
            <4>2. r.now.t = tb.timestamp
                BY <4>1
            <4> QED  BY <2>4, <2>5, <3>1, <4>2
        <3>2. CASE ~(clk.t < tb.timestamp) /\ clk.t > ts + MAXLAG
            <4>1. r.now = [t |-> ts + MAXLAG, m |-> 0]
                BY <2>3, <3>2
            <4>2. r.now.t = ts + MAXLAG
                BY <4>1
            <4> QED  BY <2>4, <2>5, <4>2
        <3>3. CASE ~(clk.t < tb.timestamp) /\ ~(clk.t > ts + MAXLAG)
            <4>1. r.now = clk
                BY <2>3, <3>3
            <4> QED  BY <2>4, <2>5, <3>3, <4>1
        <3> QED  BY <3>1, <3>2, <3>3
    <2>8. Timed(new, d, FALSE)
        <3>1. ASSUME NEW c \in Callouts, NEW s \in Slots, In(new, c, s)
              PROVE  InWindow(d[c], s, new, FALSE)
            <4>1. In(tb, c, s)
                BY <2>6, <3>1, SlotsEverywhere DEF SameIn
            <4>2. InWindow(d[c], s, tb, FALSE) /\ tb.timeout # 0 /\ tb.timeout <= d[c].t
                BY <1>1, <4>1 DEF Timed, Soonest
            <4>3. CYCBUF_SIZE \in Nat /\ d[c].t \in Nat
                BY TableAssumption, TimesType
            <4> QED  BY <2>2, <2>4, <2>5, <4>2, <4>3 DEF InWindow
        <3>2. ASSUME NEW c \in Callouts, NEW l \in {Immediate, Running}, In(new, c, l)
              PROVE  d[c].t <= new.timestamp
            <4>1. In(tb, c, l)
                BY <2>6, <3>2, SlotsEverywhere DEF SameIn
            <4>2. d[c].t <= tb.timestamp
                BY <1>1, <4>1 DEF Timed
            <4> QED  BY <2>2, <2>4, <2>5, <4>2, TimesType
        <3> QED  BY <1>1, <2>2, <2>6, <3>1, <3>2 DEF Timed, SameIn
    <2>9. Soonest(new, d, TRUE)
        BY <1>1, <2>2, <2>6, SlotsEverywhere DEF Soonest, SameIn
    <2> QED  BY <1>2, <2>1, <2>2, <2>6, <2>7, <2>8, <2>9 DEF Agree, r
<1> QED  BY <1>3, <1>4 DEF r

(* co_new(): the new callout is due in the future, or at once.             *)
LEMMA NewInListAgrees ==
    ASSUME NEW tb, NEW d \in Times, Agree(tb, d),
           NEW c \in Callouts, ~d[c].live, NEW x \in Dcallout, x.live,
           NEW l \in Lists \ {Running}, l \in Slots <=> x.t # 0,
           l \in Slots => InWindow(x, l, tb, FALSE),
           NEW i \in NewIndices(tb), Len(tb.queue) < tb.cycbrk
    PROVE  LET new == NewCallout(tb, l, x.t, c, i)
           IN  Agree(new, [d EXCEPT ![c] = x]) /\ Came(new, tb, c, l)
<1> DEFINE new == NewCallout(tb, l, x.t, c, i)
           e == [d EXCEPT ![c] = x]
<1>1. /\ Sound(tb) /\ Good(tb) /\ tb \in Table
      /\ Timed(tb, d, FALSE) /\ Soonest(tb, d, TRUE)
    BY DEF Agree, Sound, Good
<1>2. \A m \in Everywhere : ~In(tb, c, m)
    BY <1>1 DEF Timed
<1>3. x.t \in Nat
    BY DEF Dcallout
<1>4. /\ Sound(new) /\ Came(new, tb, c, l)
      /\ new.queue = tb.queue /\ new.timestamp = tb.timestamp
      /\ new.timeout = NewTimeout(tb, l, x.t)
    BY <1>1, <1>2, <1>3, NewCalloutSound
<1>5. e[c] = x /\ \A b \in Callouts : b # c => e[b] = d[b]
    BY DEF Times
<1>6. e \in Times
    BY DEF Times
<1>7. l \in Everywhere /\ l # Queue /\ tb.timestamp \in Nat /\ tb.timeout \in Nat
      /\ tb.queue \in Seq(QueueEntry) /\ tb.list \in AllLists
    BY <1>1, ListNames, TableFields DEF Everywhere
<1> HIDE DEF new, e
<1>8. Timed(new, e, FALSE)
    <2>1. ASSUME NEW b \in Callouts
          PROVE  e[b].live <=> \E m \in Everywhere : In(new, b, m)
        BY <1>1, <1>4, <1>5, <1>7 DEF Came, Timed
    <2>2. ASSUME NEW b \in Callouts, NEW s \in Slots, In(new, b, s)
          PROVE  InWindow(e[b], s, new, FALSE)
        <3>1. CASE b = c
            <4>1. s = l
                BY <1>2, <1>4, <2>2, <3>1, SlotsEverywhere DEF Came
            <4> QED  BY <1>4, <1>5, <3>1, <4>1 DEF InWindow
        <3>2. CASE b # c
            <4>1. In(tb, b, s)
                BY <1>4, <2>2, <3>2, SlotsEverywhere DEF Came
            <4> QED  BY <1>1, <1>4, <1>5, <3>2, <4>1 DEF Timed, InWindow
        <3> QED  BY <3>1, <3>2
    <2>3. ASSUME NEW b \in Callouts, NEW m \in {Immediate, Running}, In(new, b, m)
          PROVE  e[b].t <= new.timestamp
        <3>1. CASE b = c
            <4>1. m = l
                BY <1>2, <1>4, <2>3, <3>1, SlotsEverywhere DEF Came
            <4>2. x.t = 0
                BY <4>1, SlotsEverywhere
            <4> QED  BY <1>4, <1>5, <1>7, <3>1, <4>2
        <3>2. CASE b # c
            <4>1. In(tb, b, m)
                BY <1>4, <2>3, <3>2, SlotsEverywhere DEF Came
            <4> QED  BY <1>1, <1>4, <1>5, <3>2, <4>1 DEF Timed
        <3> QED  BY <3>1, <3>2
    <2>4. ASSUME NEW j \in 1 .. Len(new.queue)
          PROVE  new.queue[j] = Entry(new.queue[j].co, e[new.queue[j].co])
        <3>1. j \in 1 .. Len(tb.queue) /\ new.queue[j] = tb.queue[j]
            BY <1>4
        <3>2. tb.queue[j].co \in Callouts /\ Holds(tb.queue, tb.queue[j].co)
            <4>1. tb.queue[j] \in QueueEntry
                BY <1>7, <3>1
            <4> QED  BY <1>7, <3>1, <4>1, HoldsIs DEF QueueEntry
        <3>3. tb.queue[j].co # c
            BY <1>2, <3>2, InIs, SlotsEverywhere
        <3> QED  BY <1>1, <1>5, <3>1, <3>2, <3>3 DEF Timed
    <2> QED  BY <2>1, <2>2, <2>3, <2>4 DEF Timed
<1>9. Soonest(new, e, TRUE)
    <2>1. ASSUME NEW b \in Callouts, NEW s \in Slots, In(tb, b, s)
          PROVE  /\ tb.timeout # 0 /\ tb.timeout <= d[b].t /\ e[b] = d[b]
                 /\ In(new, b, s)
        BY <1>1, <1>2, <1>4, <1>5, <2>1, SlotsEverywhere DEF Soonest, Came
    <2>2. CASE new.timeout = tb.timeout /\ l \notin Slots
        <3>1. \A b \in Callouts, s \in Slots : In(new, b, s) => In(tb, b, s)
            BY <1>4, <2>2, SlotsEverywhere DEF Came
        <3> QED  BY <1>1, <2>1, <2>2, <3>1 DEF Soonest
    <2>3. CASE l \in Slots
        <3>1. x.t # 0 /\ In(new, c, l) /\ e[c].t = x.t
            BY <1>4, <1>5, <1>7, <2>3 DEF Came
        <3>2. \A b \in Callouts, s \in Slots :
                  In(new, b, s) => In(tb, b, s) \/ (b = c /\ s = l)
            BY <1>4, SlotsEverywhere DEF Came
        <3>3. CASE tb.list[l] = << >>
            <4>1. new.timeout = IF tb.timeout = 0 \/ x.t < tb.timeout
                                THEN x.t ELSE tb.timeout
                BY <1>4, <3>1, <3>3, Zenon DEF NewTimeout
            <4>2. \A b \in Callouts, s \in Slots : In(new, b, s) =>
                      new.timeout # 0 /\ new.timeout <= e[b].t
                BY <1>3, <1>7, <2>1, <3>1, <3>2, <4>1, TimesType
            <4>3. \E b \in Callouts, s \in Slots : In(new, b, s) /\ e[b].t = new.timeout
                <5>1. CASE new.timeout = x.t
                    BY <2>3, <3>1, <5>1
                <5>2. CASE new.timeout = tb.timeout /\ tb.timeout # 0
                    <6>1. PICK b \in Callouts, s \in Slots : In(tb, b, s) /\ d[b].t = tb.timeout
                        BY <1>1, <5>2 DEF Soonest
                    <6> QED  BY <2>1, <5>2, <6>1
                <5> QED  BY <4>1, <5>1, <5>2
            <4> QED  BY <4>2, <4>3 DEF Soonest
        <3>4. CASE tb.list[l] # << >>
            <4>1. new.timeout = tb.timeout
                BY <1>4, <3>4 DEF NewTimeout
            <4>2. PICK b \in Callouts : Holds(tb.list[l], b)
                BY <1>7, <3>4, SomeoneIn
            <4>3. In(tb, b, l)
                BY <4>2, InIs
            <4>4. d[b].t = x.t
                <5>1. InWindow(d[b], l, tb, FALSE) /\ InWindow(x, l, tb, FALSE)
                    BY <1>1, <2>3, <4>3 DEF Timed
                <5>2. d[b].t \in Nat
                    BY TimesType
                <5> QED  BY <1>1, <1>3, <5>1, <5>2, OneSecondPerSlot, ZenonT(60)
            <4>5. \A a \in Callouts, s \in Slots : In(new, a, s) =>
                      new.timeout # 0 /\ new.timeout <= e[a].t
                BY <2>1, <2>3, <3>1, <3>2, <4>1, <4>3, <4>4
            <4>6. \E a \in Callouts, s \in Slots : In(new, a, s) /\ e[a].t = new.timeout
                <5>1. tb.timeout # 0
                    BY <2>1, <2>3, <4>3
                <5>2. PICK a \in Callouts, s \in Slots : In(tb, a, s) /\ d[a].t = tb.timeout
                    BY <1>1, <5>1 DEF Soonest
                <5> QED  BY <2>1, <4>1, <5>2
            <4> QED  BY <4>5, <4>6 DEF Soonest
        <3> QED  BY <3>3, <3>4
    <2>4. l \notin Slots => new.timeout = tb.timeout
        BY <1>4 DEF NewTimeout
    <2> QED  BY <2>2, <2>3, <2>4
<1> QED  BY <1>4, <1>8, <1>9 DEF Agree, new, e

LEMMA NewInQueueAgrees ==
    ASSUME NEW tb, NEW d \in Times, Agree(tb, d),
           NEW c \in Callouts, ~d[c].live, NEW x \in Dcallout, x.live,
           Len(tb.queue) < tb.cycbrk,
           NEW new, new = [tb EXCEPT !.queue = Enqueue(@, Entry(c, x))]
    PROVE  Agree(new, [d EXCEPT ![c] = x]) /\ Came(new, tb, c, Queue)
<1> DEFINE e == [d EXCEPT ![c] = x]
<1>1. /\ Sound(tb) /\ Good(tb) /\ tb \in Table
      /\ Timed(tb, d, FALSE) /\ Soonest(tb, d, TRUE)
    BY DEF Agree, Sound, Good
<1>2. \A m \in Everywhere : ~In(tb, c, m)
    BY <1>1 DEF Timed
<1>3. Entry(c, x) \in QueueEntry /\ Entry(c, x).co = c
    BY TableAssumption DEF Entry, QueueEntry, Dcallout, Msecs
<1>4. /\ Sound(new) /\ Came(new, tb, Entry(c, x).co, Queue)
      /\ Enqueued(new.queue, tb.queue, Entry(c, x))
      /\ new.list = tb.list /\ new.timestamp = tb.timestamp
      /\ new.timeout = tb.timeout
    <2>1. PICK q \in QueueEntry : q = Entry(c, x)
        BY <1>3
    <2>2. /\ new = [tb EXCEPT !.queue = Enqueue(@, q)]
          /\ \A m \in Everywhere : ~In(tb, q.co, m)
        BY <1>2, <1>3, <2>1
    <2>3. /\ Sound(new) /\ Came(new, tb, q.co, Queue)
          /\ Enqueued(new.queue, tb.queue, q)
          /\ new.list = tb.list /\ new.timestamp = tb.timestamp
          /\ new.timeout = tb.timeout
        BY <1>1, <2>2, EnqueueSound, ZenonT(60)
    <2> QED  BY <2>1, <2>3
<1>5. e[c] = x /\ \A b \in Callouts : b # c => e[b] = d[b]
    BY DEF Times
<1>6. Came(new, tb, c, Queue)
    BY <1>3, <1>4
<1>7. tb.queue \in Seq(QueueEntry)
    BY <1>1, TableFields
<1> HIDE DEF e
<1>8. \A b \in Callouts, l \in Everywhere : In(new, b, l) /\ l # Queue =>
          In(tb, b, l) /\ e[b] = d[b]
    BY <1>2, <1>5, <1>6 DEF Came
<1>9. \A b \in Callouts, l \in Everywhere : In(tb, b, l) => In(new, b, l) /\ e[b] = d[b]
    BY <1>2, <1>5, <1>6 DEF Came
<1>10. Timed(new, e, FALSE)
    <2>1. ASSUME NEW b \in Callouts
          PROVE  e[b].live <=> \E m \in Everywhere : In(new, b, m)
        BY <1>1, <1>5, <1>6, SlotsEverywhere DEF Came, Timed
    <2>2. ASSUME NEW b \in Callouts, NEW s \in Slots, In(new, b, s)
          PROVE  InWindow(e[b], s, new, FALSE)
        <3>1. In(tb, b, s) /\ e[b] = d[b]
            BY <1>8, <2>2, SlotsEverywhere
        <3> QED  BY <1>1, <1>4, <3>1 DEF Timed, InWindow
    <2>3. ASSUME NEW b \in Callouts, NEW m \in {Immediate, Running}, In(new, b, m)
          PROVE  e[b].t <= new.timestamp
        <3>1. In(tb, b, m) /\ e[b] = d[b]
            BY <1>8, <2>3, SlotsEverywhere
        <3> QED  BY <1>1, <1>4, <3>1 DEF Timed
    <2>4. ASSUME NEW j \in 1 .. Len(new.queue)
          PROVE  new.queue[j] = Entry(new.queue[j].co, e[new.queue[j].co])
        <3>1. CASE new.queue[j] = Entry(c, x)
            BY <1>3, <1>5, <3>1
        <3>2. CASE \E k \in 1 .. Len(tb.queue) : new.queue[j] = tb.queue[k]
            <4>1. PICK k \in 1 .. Len(tb.queue) : new.queue[j] = tb.queue[k]
                BY <3>2
            <4>2. tb.queue[k].co \in Callouts /\ Holds(tb.queue, tb.queue[k].co)
                <5>1. tb.queue[k] \in QueueEntry
                    BY <1>7
                <5> QED  BY <1>7, <5>1, HoldsIs DEF QueueEntry
            <4>3. tb.queue[k].co # c
                BY <1>2, <4>2, InIs, SlotsEverywhere
            <4> QED  BY <1>1, <1>5, <4>1, <4>2, <4>3 DEF Timed
        <3> QED  BY <1>4, <3>1, <3>2 DEF Enqueued
    <2> QED  BY <2>1, <2>2, <2>3, <2>4 DEF Timed
<1>11. Soonest(new, e, TRUE)
    <2>1. ASSUME NEW b \in Callouts, NEW s \in Slots
          PROVE  In(new, b, s) <=> In(tb, b, s)
        BY <1>8, <1>9, SlotsEverywhere
    <2>2. ASSUME NEW b \in Callouts, NEW s \in Slots, In(tb, b, s)
          PROVE  e[b] = d[b]
        BY <1>9, <2>2, SlotsEverywhere
    <2> QED  BY <1>1, <1>4, <2>1, <2>2 DEF Soonest
<1> QED  BY <1>4, <1>6, <1>10, <1>11 DEF Agree, e

(* A callout that is removed leaves the rest as they are.                  *)
LEMMA GoneTimed ==
    ASSUME NEW tb, NEW d \in Times, Timed(tb, d, FALSE), NEW c \in Callouts,
           NEW new, Went(new, tb, c), new.timestamp = tb.timestamp,
           NEW e, e = [d EXCEPT ![c] = NoCallout],
           tb.queue \in Seq(QueueEntry), new.queue \in Seq(QueueEntry),
           \A j \in 1 .. Len(new.queue) : \E k \in 1 .. Len(tb.queue) :
               new.queue[j] = tb.queue[k]
    PROVE  Timed(new, e, FALSE)
<1>1. e[c] = NoCallout /\ \A b \in Callouts : b # c => e[b] = d[b]
    BY DEF Times
<1>2. \A b \in Callouts, l \in Everywhere : In(new, b, l) => In(tb, b, l) /\ b # c /\ e[b] = d[b]
    BY <1>1 DEF Went
<1>3. ASSUME NEW b \in Callouts
      PROVE  e[b].live <=> \E m \in Everywhere : In(new, b, m)
    BY <1>1 DEF Went, Timed, NoCallout
<1>4. ASSUME NEW b \in Callouts, NEW s \in Slots, In(new, b, s)
      PROVE  InWindow(e[b], s, new, FALSE)
    BY <1>2, <1>4, SlotsEverywhere DEF Timed, InWindow
<1>5. ASSUME NEW b \in Callouts, NEW m \in {Immediate, Running}, In(new, b, m)
      PROVE  e[b].t <= new.timestamp
    BY <1>2, <1>5, SlotsEverywhere DEF Timed
<1>6. ASSUME NEW j \in 1 .. Len(new.queue)
      PROVE  new.queue[j] = Entry(new.queue[j].co, e[new.queue[j].co])
    <2>1. PICK k \in 1 .. Len(tb.queue) : new.queue[j] = tb.queue[k]
        OBVIOUS
    <2>2. new.queue[j].co \in Callouts /\ Holds(new.queue, new.queue[j].co)
        <3>1. new.queue[j] \in QueueEntry
            OBVIOUS
        <3> QED  BY <3>1, HoldsIs DEF QueueEntry
    <2>3. In(new, new.queue[j].co, Queue)
        BY <2>2, InIs
    <2>4. e[new.queue[j].co] = d[new.queue[j].co]
        BY <1>2, <2>2, <2>3, SlotsEverywhere
    <2> QED  BY <2>1, <2>4 DEF Timed
<1> QED  BY <1>3, <1>4, <1>5, <1>6 DEF Timed

(* dequeue() of a callout that is removed.                                 *)
LEMMA DequeueAgrees ==
    ASSUME NEW tb, NEW d \in Times, Agree(tb, d), NEW i \in 1 .. Len(tb.queue),
           NEW new, new = [tb EXCEPT !.queue = Dequeue(@, i)],
           NEW c, c = tb.queue[i].co
    PROVE  Agree(new, [d EXCEPT ![c] = NoCallout]) /\ Went(new, tb, c)
<1> DEFINE e == [d EXCEPT ![c] = NoCallout]
<1>1. /\ Sound(tb) /\ tb \in Table /\ tb.queue \in Seq(QueueEntry)
      /\ Timed(tb, d, FALSE) /\ Soonest(tb, d, TRUE)
    BY TableFields DEF Agree, Sound, Good
<1>2. c \in Callouts /\ Holds(tb.queue, c)
    <2>1. tb.queue[i] \in QueueEntry
        BY <1>1
    <2> QED  BY <1>1, <2>1, HoldsIs DEF QueueEntry
<1>3. /\ Sound(new) /\ Went(new, tb, c)
      /\ Dequeued(new.queue, tb.queue, i)
      /\ new.list = tb.list /\ new.timestamp = tb.timestamp
      /\ new.timeout = tb.timeout
    BY <1>1, DequeueSound
<1> HIDE DEF e
<1>4. Timed(new, e, FALSE)
    BY <1>1, <1>2, <1>3, GoneTimed, ZenonT(60) DEF Dequeued, e
<1>5. Soonest(new, e, TRUE)
    <2>1. In(tb, c, Queue)
        BY <1>2, InIs
    <2>2. ASSUME NEW b \in Callouts, NEW s \in Slots
          PROVE  /\ In(new, b, s) <=> In(tb, b, s)
                 /\ In(tb, b, s) => e[b] = d[b]
        <3>1. In(tb, b, s) => b # c
            BY <1>1, <1>2, <2>1, SlotsEverywhere DEF Sound, Placed
        <3>2. b # c => e[b] = d[b]
            BY DEF e, Times
        <3> QED  BY <1>3, <3>1, <3>2, SlotsEverywhere DEF Went
    <2> QED  BY <1>1, <1>3, <2>2 DEF Soonest
<1> QED  BY <1>3, <1>4, <1>5 DEF Agree, e

(* freecallout() of a callout that is removed or run: if it was the last   *)
(* of the first second, the next second with a callout is found.           *)
LEMMA FreeAgrees ==
    ASSUME NEW tb, NEW d \in Times, Agree(tb, d), NEW l \in Lists,
           NEW k \in 1 .. Len(tb.list[l]), NEW c, c = tb.list[l][k].co,
           NEW t, t = IF l \in Slots THEN d[c].t ELSE 0
    PROVE  LET new == FreeCallout(tb, l, k, t)
           IN  Agree(new, [d EXCEPT ![c] = NoCallout]) /\ Went(new, tb, c)
<1> DEFINE new == FreeCallout(tb, l, k, t)
           e == [d EXCEPT ![c] = NoCallout]
<1>1. /\ Sound(tb) /\ tb \in Table /\ tb.queue \in Seq(QueueEntry) /\ tb.list \in AllLists
      /\ Timed(tb, d, FALSE) /\ Soonest(tb, d, TRUE)
      /\ tb.timestamp \in Nat /\ tb.timeout \in Nat /\ CYCBUF_SIZE \in Nat
    BY TableFields, TableAssumption DEF Agree, Sound, Good
<1>2. c \in Callouts /\ Holds(tb.list[l], c) /\ In(tb, c, l) /\ l \in Everywhere
    <2>1. c \in Callouts /\ Holds(tb.list[l], c)
        BY <1>1, HoldsIs, ListLengths
    <2> QED  BY <2>1, InIs DEF Everywhere
<1>3. d[c].t \in Nat /\ (l \in Slots => InWindow(d[c], l, tb, FALSE))
    BY <1>1, <1>2, TimesType DEF Timed
<1>4. t \in Nat /\ (l \in Slots <=> t # 0)
    BY <1>1, <1>3 DEF InWindow
<1>5. /\ Sound(new) /\ Went(new, tb, c)
      /\ new.queue = tb.queue /\ new.timestamp = tb.timestamp
      /\ new.timeout =
             IF new.list[l] # << >> \/ t = 0 \/ t # tb.timeout THEN tb.timeout
             ELSE IF new.nshort # new.nzero THEN NextTimeout(new.list, t) ELSE 0
    <2>1. FreedFrom(FreeCallout(tb, l, k, t), tb, l, k, t)
        BY <1>1, <1>4, FreeCalloutSound
    <2>2. FreedFrom(new, tb, l, k, t)
        BY <2>1
    <2> HIDE DEF new
    <2> QED  BY <2>2 DEF FreedFrom
<1>6. e[c] = NoCallout /\ e \in Times /\ \A b \in Callouts : b # c => e[b] = d[b]
    BY <1>2, NoCalloutType DEF Times
<1> HIDE DEF new, e
<1>7. Timed(new, e, FALSE)
    BY <1>1, <1>2, <1>5, GoneTimed DEF e
<1>8. \A b \in Callouts, s \in Everywhere :
          In(new, b, s) => In(tb, b, s) /\ b # c /\ e[b] = d[b]
    BY <1>5, <1>6 DEF Went
<1>9. \A b \in Callouts, s \in Everywhere : In(tb, b, s) /\ b # c => In(new, b, s)
    BY <1>5 DEF Went
<1>10. Good(new) /\ new.list \in AllLists
    BY <1>5, TableFields DEF Sound, Good
<1>11. \A b \in Callouts, s \in Slots : In(new, b, s) =>
           tb.timeout # 0 /\ tb.timeout <= e[b].t
    BY <1>1, <1>8, SlotsEverywhere DEF Soonest
<1>12. CASE l \notin Slots
    <2>1. new.timeout = tb.timeout
        BY <1>4, <1>5, <1>12
    <2>2. ASSUME NEW b \in Callouts, NEW s \in Slots, In(tb, b, s)
          PROVE  In(new, b, s) /\ e[b] = d[b]
        <3>1. b # c
            BY <1>1, <1>2, <1>12, <2>2, SlotsEverywhere DEF Sound, Placed
        <3> QED  BY <1>6, <1>9, <2>2, <3>1, SlotsEverywhere
    <2>3. Soonest(new, e, TRUE)
        BY <1>1, <1>11, <2>1, <2>2 DEF Soonest
    <2> QED  BY <1>5, <1>7, <2>3 DEF Agree, new, e
<1>13. CASE l \in Slots
    <2>0. t = d[c].t /\ t # 0 /\ tb.timeout # 0 /\ tb.timeout <= t
        BY <1>1, <1>2, <1>4, <1>13 DEF Soonest
    <2>1. CASE new.list[l] # << >>
        <3>1. PICK b \in Callouts : In(new, b, l)
            BY <1>10, <2>1, SomeoneIn, InIs
        <3>2. In(tb, b, l) /\ b # c /\ e[b] = d[b]
            BY <1>2, <1>8, <3>1
        <3>3. d[b].t = d[c].t
            <4>1. InWindow(d[b], l, tb, FALSE) /\ InWindow(d[c], l, tb, FALSE)
                BY <1>1, <1>2, <1>3, <1>13, <3>2 DEF Timed
            <4>2. d[b].t \in Nat /\ d[c].t \in Nat
                BY <1>2, TimesType
            <4>3. /\ l = Slot(d[b].t) /\ tb.timestamp < d[b].t
                  /\ d[b].t < tb.timestamp + CYCBUF_SIZE
                  /\ l = Slot(d[c].t) /\ tb.timestamp < d[c].t
                  /\ d[c].t < tb.timestamp + CYCBUF_SIZE
                BY <4>1, WindowIs
            <4> DEFINE p == d[b].t
                       q == d[c].t
            <4>4. /\ p \in Nat /\ q \in Nat
                  /\ l = Slot(p) /\ tb.timestamp < p /\ p < tb.timestamp + CYCBUF_SIZE
                  /\ l = Slot(q) /\ tb.timestamp < q /\ q < tb.timestamp + CYCBUF_SIZE
                BY <4>2, <4>3
            <4>5. tb.timestamp \in Nat
                BY <1>1
            <4>6. p = q
                <5> HIDE DEF p, q
                <5>1. tb.timestamp <= p /\ tb.timestamp <= q /\ Slot(p) = Slot(q)
                    BY <4>4, <4>5
                <5> QED  BY <4>4, <4>5, <5>1, SameSecond
            <4> QED  BY <4>6
        <3>4. PICK a \in Callouts, s \in Slots : In(tb, a, s) /\ d[a].t = tb.timeout
            BY <1>1, <2>0 DEF Soonest
        <3>5. \E a2 \in Callouts, s2 \in Slots : In(new, a2, s2) /\ e[a2].t = tb.timeout
            <4>1. CASE a = c
                BY <1>13, <3>1, <3>2, <3>3, <3>4, <4>1
            <4>2. CASE a # c
                BY <1>6, <1>9, <3>4, <4>2, SlotsEverywhere
            <4> QED  BY <4>1, <4>2
        <3>6. new.timeout = tb.timeout
            BY <1>5, <2>1
        <3>7. Soonest(new, e, TRUE)
            BY <1>11, <3>5, <3>6 DEF Soonest
        <3> QED  BY <1>5, <1>7, <3>7 DEF Agree, new, e
    <2>2. CASE new.list[l] = << >> /\ t # tb.timeout
        <3>1. PICK a \in Callouts, s \in Slots : In(tb, a, s) /\ d[a].t = tb.timeout
            BY <1>1, <2>0 DEF Soonest
        <3>2. a # c
            BY <2>0, <2>2, <3>1
        <3>3. In(new, a, s) /\ e[a].t = tb.timeout
            BY <1>6, <1>9, <3>1, <3>2, SlotsEverywhere
        <3>4. new.timeout = tb.timeout
            BY <1>5, <2>2
        <3>5. Soonest(new, e, TRUE)
            BY <1>11, <3>3, <3>4 DEF Soonest
        <3> QED  BY <1>5, <1>7, <3>5 DEF Agree, new, e
    <2>3. CASE new.list[l] = << >> /\ t = tb.timeout
        <3>1. new.timeout = IF new.nshort # new.nzero THEN NextTimeout(new.list, t) ELSE 0
            BY <1>5, <2>0, <2>3
        <3>2. new.nshort # new.nzero <=> InSlots(new.list) # 0
            <4>1. /\ new.nzero = NotInSlots(new.list)
                  /\ new.nshort = NotInSlots(new.list) + InSlots(new.list)
                BY <1>10, Zenon DEF Good, CountsLists
            <4>2. InSlots(new.list) \in Nat /\ NotInSlots(new.list) \in Nat
                BY <1>10, SlotEntriesFinite
            <4> QED  BY <4>1, <4>2
        <3>3. WithinRound(new.list, e, t)
            <4>1. SUFFICES ASSUME NEW b \in Callouts, NEW s \in Slots, Holds(new.list[s], b)
                           PROVE  /\ s = Slot(e[b].t) /\ t <= e[b].t
                                  /\ e[b].t < t + CYCBUF_SIZE
                BY DEF WithinRound
            <4>2. In(new, b, s)
                BY <4>1, InIs, ListNames
            <4>3. InWindow(e[b], s, new, FALSE) /\ tb.timeout <= e[b].t
                BY <1>7, <1>11, <4>2 DEF Timed
            <4>4. InWindow(d[c], l, tb, FALSE) /\ e[b].t \in Nat
                BY <1>3, <1>6, <1>13, TimesType
            <4>5. /\ s = Slot(e[b].t) /\ e[b].t < new.timestamp + CYCBUF_SIZE
                  /\ tb.timestamp < d[c].t
                BY <4>3, <4>4, WindowIs
            <4> QED  BY <1>1, <1>3, <1>5, <2>0, <2>3, <4>3, <4>4, <4>5
        <3>4. CASE InSlots(new.list) # 0
            <4>1. FirstInSlots(new.list, e, new.timeout)
                BY <1>4, <1>6, <1>10, <3>1, <3>2, <3>3, <3>4, NextIsFirst
            <4>2. \A b \in Callouts, s \in Slots : In(new, b, s) <=> Holds(new.list[s], b)
                BY InIs, ListNames
            <4>3. new.timeout # 0
                <5>1. PICK b \in Callouts, s \in Slots :
                          Holds(new.list[s], b) /\ e[b].t = new.timeout
                    BY <4>1 DEF FirstInSlots
                <5>2. InWindow(e[b], s, new, FALSE)
                    BY <1>7, <4>2, <5>1 DEF Timed
                <5>3. new.timestamp < e[b].t
                    BY <5>2, WindowIs
                <5> QED  BY <1>1, <1>5, <5>1, <5>3
            <4>4. Soonest(new, e, TRUE)
                BY <4>1, <4>2, <4>3 DEF Soonest, FirstInSlots
            <4> QED  BY <1>5, <1>7, <4>4 DEF Agree, new, e
        <3>5. CASE InSlots(new.list) = 0
            <4>1. \A b \in Callouts, s \in Slots : ~In(new, b, s)
                BY <1>10, <3>5, InIs, ListNames, NoneInSlots
            <4>2. new.timeout = 0
                BY <3>1, <3>2, <3>5
            <4>3. Soonest(new, e, TRUE)
                BY <4>1, <4>2 DEF Soonest
            <4> QED  BY <1>5, <1>7, <4>3 DEF Agree, new, e
        <3> QED  BY <3>4, <3>5
    <2> QED  BY <2>1, <2>2, <2>3
<1> QED  BY <1>12, <1>13

(* co_del() looks for a callout where it is.                               *)
LEMMA DelFinds ==
    ASSUME NEW tb, NEW d \in Times, Sound(tb), Timed(tb, d, FALSE),
           NEW c \in Callouts, d[c].live
    PROVE  LET l == DelList(tb, c, d[c].t, d[c].m)
           IN  l \in Everywhere /\ In(tb, c, l)
<1> DEFINE t == d[c].t
           m == d[c].m
           l == DelList(tb, c, t, m)
           in(k) == Holds(tb.list[k], c)
           inSlot == m = NoMsec /\ t > tb.timestamp /\ t < tb.timestamp + CYCBUF_SIZE
                     /\ in(Slot(t))
           inFirst == t <= tb.timestamp /\ in(Immediate)
           inRunning == t <= tb.timestamp /\ in(Running)
<1>1. /\ tb \in Table /\ tb.timestamp \in Nat /\ t \in Nat /\ CYCBUF_SIZE \in Nat
      /\ Slot(t) \in Slots
    BY TableFields, TimesType, TableAssumption, SlotOfSecond DEF Sound, Good
<1>2. l = CASE inSlot -> Slot(t) [] inFirst -> Immediate [] inRunning -> Running
            [] OTHER -> Queue
    BY DEF DelList
<1>3. /\ \A k \in Slots : In(tb, c, k) <=> in(k)
      /\ In(tb, c, Immediate) <=> in(Immediate)
      /\ In(tb, c, Running) <=> in(Running)
    BY InIs, ListNames
<1>4. PICK k \in Everywhere : In(tb, c, k)
    BY DEF Timed
<1>5. \A j \in Everywhere : In(tb, c, j) => j = k
    BY <1>4 DEF Sound, Placed
<1>6. CASE k \in Slots
    <2>1. InWindow(d[c], k, tb, FALSE)
        BY <1>4, <1>6 DEF Timed
    <2>2. m = NoMsec /\ k = Slot(t) /\ tb.timestamp < t /\ t < tb.timestamp + CYCBUF_SIZE
        BY <2>1, WindowIs
    <2>3. inSlot /\ ~inFirst /\ ~inRunning
        BY <1>1, <1>3, <1>4, <1>6, <2>2
    <2>4. l = Slot(t)
        <3> HIDE DEF l, inSlot, inFirst, inRunning
        <3> QED  BY <1>2, <2>3
    <2> QED  BY <1>4, <2>2, <2>4
<1>7. CASE k = Immediate
    <2>1. t <= tb.timestamp
        BY <1>4, <1>7 DEF Timed
    <2>2. ~inSlot /\ inFirst /\ ~inRunning
        BY <1>1, <1>3, <1>4, <1>5, <1>7, <2>1, SlotsEverywhere
    <2>3. l = Immediate
        <3> HIDE DEF l, inSlot, inFirst, inRunning
        <3> QED  BY <1>2, <2>2
    <2> QED  BY <1>4, <1>7, <2>3
<1>8. CASE k = Running
    <2>1. t <= tb.timestamp
        BY <1>4, <1>8 DEF Timed
    <2>2. ~inSlot /\ ~inFirst /\ inRunning
        BY <1>1, <1>3, <1>4, <1>5, <1>8, <2>1, SlotsEverywhere
    <2>3. l = Running
        <3> HIDE DEF l, inSlot, inFirst, inRunning
        <3> QED  BY <1>2, <2>2
    <2> QED  BY <1>4, <1>8, <2>3
<1>9. CASE k = Queue
    <2>1. ~inSlot /\ ~inFirst /\ ~inRunning
        BY <1>1, <1>3, <1>5, <1>9, SlotsEverywhere
    <2>2. l = Queue
        <3> HIDE DEF l, inSlot, inFirst, inRunning
        <3> QED  BY <1>2, <2>1
    <2> QED  BY <1>4, <1>9, <2>2
<1> QED  BY <1>6, <1>7, <1>8, <1>9, SlotsEverywhere

LEMMA PositionIs ==
    ASSUME NEW S, NEW s \in Seq(S), NEW c, Holds(s, c)
    PROVE  Position(s, c) \in 1 .. Len(s) /\ s[Position(s, c)].co = c
<1>1. Position(s, c) \in DOMAIN s /\ s[Position(s, c)].co = c
    BY DEF Holds, Position
<1> QED  BY <1>1

LEMMA CoDelAgrees ==
    ASSUME NEW tb, NEW d \in Times, Agree(tb, d), NEW c \in Callouts, d[c].live
    PROVE  LET new == CoDel(tb, c, d[c].t, d[c].m)
           IN  Agree(new, [d EXCEPT ![c] = NoCallout]) /\ Went(new, tb, c)
<1> DEFINE l == DelList(tb, c, d[c].t, d[c].m)
           new == CoDel(tb, c, d[c].t, d[c].m)
<1>1. /\ Sound(tb) /\ Timed(tb, d, FALSE) /\ tb \in Table
      /\ tb.queue \in Seq(QueueEntry) /\ tb.list \in AllLists
    BY TableFields DEF Agree, Sound, Good
<1>2. l \in Everywhere /\ In(tb, c, l)
    BY <1>1, DelFinds
<1>3. CASE l = Queue
    <2>1. new = [tb EXCEPT !.queue = Dequeue(@, Position(@, c))]
        BY <1>3 DEF CoDel
    <2>2. Position(tb.queue, c) \in 1 .. Len(tb.queue) /\ tb.queue[Position(tb.queue, c)].co = c
        BY <1>1, <1>2, <1>3, InIs, PositionIs
    <2> HIDE DEF new, l
    <2> QED  BY <2>1, <2>2, DequeueAgrees DEF new
<1>4. CASE l # Queue
    <2> DEFINE k == Position(tb.list[l], c)
               t == IF l \in Slots THEN d[c].t ELSE 0
    <2>1. new = FreeCallout(tb, l, k, t)
        BY <1>4 DEF CoDel
    <2>2. l \in Lists /\ tb.list[l] \in Seq(Element) /\ Holds(tb.list[l], c)
        BY <1>1, <1>2, <1>4, InIs, ListLengths DEF Everywhere
    <2>3. k \in 1 .. Len(tb.list[l]) /\ tb.list[l][k].co = c
        BY <2>2, PositionIs
    <2> HIDE DEF new, l, k
    <2> QED  BY <2>1, <2>2, <2>3, FreeAgrees DEF new
<1> QED  BY <1>3, <1>4

---------------------------------------------------------------------------
(* co_expire(): between two seconds, and at a second whose slot is next.   *)

Between(tb, d) ==
    Sound(tb) /\ Timed(tb, d, FALSE) /\ Soonest(tb, d, tb.timeout > tb.timestamp)
AtSecond(tb, d) ==
    Sound(tb) /\ Timed(tb, d, TRUE) /\ Soonest(tb, d, tb.timeout >= tb.timestamp)

LEMMA AgreeBetween ==
    ASSUME NEW tb, NEW d, Agree(tb, d)
    PROVE  Between(tb, d)
BY DEF Agree, Between, Soonest

LEMMA NextSecondAgrees ==
    ASSUME NEW tb, NEW d \in Times, Between(tb, d)
    PROVE  LET new == [tb EXCEPT !.timestamp = @ + 1]
           IN  AtSecond(new, d) /\ SameIn(new, tb)
<1> DEFINE ts == tb.timestamp + 1
           new == [tb EXCEPT !.timestamp = ts]
<1>1. /\ Sound(tb) /\ Good(tb) /\ tb \in Table /\ Timed(tb, d, FALSE)
      /\ Soonest(tb, d, tb.timeout > tb.timestamp)
    BY DEF Between, Sound, Good
<1>2. tb.timestamp \in Nat /\ tb.timeout \in Nat /\ CYCBUF_SIZE \in Nat /\ ts \in Nat
    BY <1>1, TableFields, TableAssumption
<1>3. /\ new.timestamp = ts /\ new.queue = tb.queue /\ new.list = tb.list
      /\ new.timeout = tb.timeout /\ new.cycbrk = tb.cycbrk /\ new.flist = tb.flist
      /\ new.nshort = tb.nshort /\ new.nzero = tb.nzero /\ new \in Table
    <2> HIDE DEF ts
    <2> QED  BY <1>1, <1>2 DEF Table
<1>4. new = [tb EXCEPT !.timestamp = @ + 1]
    OBVIOUS
<1> HIDE DEF new
<1>5. Sound(new) /\ SameIn(new, tb)
    BY <1>1, <1>3, SameLists, SamePlaces DEF SameIn
<1>6. Timed(new, d, TRUE)
    <2>1. ASSUME NEW c \in Callouts, NEW s \in Slots, In(new, c, s)
          PROVE  InWindow(d[c], s, new, TRUE)
        <3>1. In(tb, c, s)
            BY <1>5, <2>1, SlotsEverywhere DEF SameIn
        <3>2. InWindow(d[c], s, tb, FALSE)
            BY <1>1, <3>1 DEF Timed
        <3>3. /\ d[c].m = NoMsec /\ s = Slot(d[c].t) /\ tb.timestamp < d[c].t
              /\ d[c].t < tb.timestamp + CYCBUF_SIZE /\ d[c].t \in Nat
            BY <3>2, WindowIs, TimesType
        <3>4. d[c].t < new.timestamp + CYCBUF_SIZE
              /\ (new.timestamp < d[c].t \/ d[c].t = new.timestamp)
            BY <1>2, <1>3, <3>3
        <3> QED  BY <3>3, <3>4 DEF InWindow
    <2>2. ASSUME NEW c \in Callouts, NEW l \in {Immediate, Running}, In(new, c, l)
          PROVE  d[c].t <= new.timestamp
        <3>1. In(tb, c, l)
            BY <1>5, <2>2, SlotsEverywhere DEF SameIn
        <3>2. d[c].t <= tb.timestamp /\ d[c].t \in Nat
            BY <1>1, <3>1, TimesType DEF Timed
        <3> QED  BY <1>2, <1>3, <3>2
    <2> QED  BY <1>1, <1>3, <1>5, <2>1, <2>2 DEF Timed, SameIn
<1>7. Soonest(new, d, new.timeout >= new.timestamp)
    BY <1>1, <1>2, <1>3, <1>5, SlotsEverywhere DEF Soonest, SameIn
<1> QED  BY <1>4, <1>5, <1>6, <1>7 DEF AtSecond

(* The first callout of the queue is collected when its second has come.   *)
LEMMA ExpireFirstAgrees ==
    ASSUME NEW tb, NEW d \in Times, Sound(tb), NEW pop, Timed(tb, d, pop),
           tb.queue # << >>, tb.queue[1].t <= tb.timestamp,
           NEW i \in NewIndices(tb)
    PROVE  LET new == ExpireFirst(tb, i)
               c == tb.queue[1].co
           IN  /\ Sound(new) /\ Timed(new, d, pop)
               /\ new.timestamp = tb.timestamp /\ new.timeout = tb.timeout
               /\ c \in Callouts /\ In(tb, c, Queue) /\ d[c].t = tb.queue[1].t
               /\ \A b \in Callouts, m \in Everywhere :
                     In(new, b, m) <=> IF b = c THEN m = Immediate ELSE In(tb, b, m)
<1> DEFINE new == ExpireFirst(tb, i)
           c == tb.queue[1].co
<1>1. tb \in Table /\ tb.queue \in Seq(QueueEntry)
    BY TableFields DEF Sound, Good
<1>2. 1 \in 1 .. Len(tb.queue) /\ c \in Callouts /\ Holds(tb.queue, c)
    <2>1. 1 \in 1 .. Len(tb.queue)
        BY <1>1
    <2>2. tb.queue[1] \in QueueEntry
        BY <1>1, <2>1
    <2> QED  BY <1>1, <2>1, <2>2, HoldsIs DEF QueueEntry
<1>3. /\ Sound(new)
      /\ \A b \in Callouts, m \in Everywhere :
            In(new, b, m) <=> IF b = c THEN m = Immediate ELSE In(tb, b, m)
      /\ Dequeued(new.queue, tb.queue, 1)
      /\ new.timestamp = tb.timestamp /\ new.timeout = tb.timeout
    BY ExpireFirstSound
<1>4. tb.queue[1] = Entry(c, d[c])
    BY <1>2 DEF Timed
<1>5. d[c].t = tb.queue[1].t /\ In(tb, c, Queue)
    BY <1>2, <1>4, InIs DEF Entry
<1> HIDE DEF new, c
<1>6. Timed(new, d, pop)
    <2>1. ASSUME NEW b \in Callouts
          PROVE  d[b].live <=> \E m \in Everywhere : In(new, b, m)
        <3>1. CASE b = c
            BY <1>2, <1>3, <1>5, <3>1, SlotsEverywhere DEF Timed
        <3>2. CASE b # c
            BY <1>3, <3>2 DEF Timed
        <3> QED  BY <3>1, <3>2
    <2>2. ASSUME NEW b \in Callouts, NEW s \in Slots, In(new, b, s)
          PROVE  InWindow(d[b], s, new, pop)
        <3>1. In(tb, b, s)
            BY <1>3, <2>2, SlotsEverywhere
        <3> QED  BY <1>3, <3>1 DEF Timed, InWindow
    <2>3. ASSUME NEW b \in Callouts, NEW m \in {Immediate, Running}, In(new, b, m)
          PROVE  d[b].t <= new.timestamp
        <3>1. b = c \/ In(tb, b, m)
            BY <1>3, <2>3, SlotsEverywhere
        <3> QED  BY <1>3, <1>5, <3>1 DEF Timed
    <2>4. ASSUME NEW j \in 1 .. Len(new.queue)
          PROVE  new.queue[j] = Entry(new.queue[j].co, d[new.queue[j].co])
        BY <1>3, ZenonT(60) DEF Dequeued, Timed
    <2> QED  BY <2>1, <2>2, <2>3, <2>4 DEF Timed
<1> QED  BY <1>2, <1>3, <1>5, <1>6 DEF new, c

(* Everything in the slot of the second that has come is due then.         *)
LEMMA ExpireSlotAgrees ==
    ASSUME NEW tb, NEW d \in Times, AtSecond(tb, d)
    PROVE  LET new == ExpireSlot(tb)
               s == Slot(tb.timestamp)
           IN  /\ Between(new, d) /\ WentOver(new, tb, s, Immediate)
               /\ new.timestamp = tb.timestamp /\ s \in Slots
               /\ \A c \in Callouts : In(tb, c, s) => d[c].t = tb.timestamp
<1> DEFINE new == ExpireSlot(tb)
           s == Slot(tb.timestamp)
<1>1. /\ Sound(tb) /\ tb \in Table /\ Timed(tb, d, TRUE)
      /\ Soonest(tb, d, tb.timeout >= tb.timestamp)
      /\ tb.timestamp \in Nat /\ CYCBUF_SIZE \in Nat /\ CYCBUF_SIZE > 0
    <2>1. /\ Sound(tb) /\ Timed(tb, d, TRUE)
          /\ Soonest(tb, d, tb.timeout >= tb.timestamp)
        BY DEF AtSecond
    <2>2. tb \in Table
        BY <2>1 DEF Sound, Good
    <2>3. tb.timestamp \in Nat
        BY <2>2, TableFields
    <2>4. CYCBUF_SIZE \in Nat /\ CYCBUF_SIZE > 0
        BY TableAssumption
    <2> QED  BY <2>1, <2>2, <2>3, <2>4
<1>2. s \in Slots
    BY <1>1, SlotOfSecond
<1>3. /\ Sound(new) /\ WentOver(new, tb, s, Immediate)
      /\ new.queue = tb.queue /\ new.timestamp = tb.timestamp
      /\ new.timeout = tb.timeout
    BY <1>1, ExpireSlotSound
<1>4. ASSUME NEW c \in Callouts, NEW k \in Slots, In(tb, c, k)
      PROVE  /\ d[c].t \in Nat /\ d[c].m = NoMsec /\ k = Slot(d[c].t)
             /\ tb.timestamp <= d[c].t /\ d[c].t < tb.timestamp + CYCBUF_SIZE
             /\ k = s <=> d[c].t = tb.timestamp
    <2>1. InWindow(d[c], k, tb, TRUE)
        BY <1>1, <1>4 DEF Timed
    <2>2. /\ d[c].m = NoMsec /\ k = Slot(d[c].t) /\ d[c].t < tb.timestamp + CYCBUF_SIZE
          /\ tb.timestamp < d[c].t \/ d[c].t = tb.timestamp
        BY <2>1 DEF InWindow
    <2>3. d[c].t \in Nat /\ tb.timestamp <= d[c].t
        BY <1>1, <2>2, TimesType
    <2>4. k = s => d[c].t = tb.timestamp
        <3> DEFINE p == d[c].t
                   q == tb.timestamp
        <3>1. p \in Nat /\ q \in Nat /\ q <= p /\ p < q + CYCBUF_SIZE /\ k = Slot(p)
            BY <1>1, <2>2, <2>3
        <3>2. q <= q /\ q < q + CYCBUF_SIZE
            BY <1>1
        <3>3. k = Slot(q) => p = q
            <4> HIDE DEF p, q
            <4> QED  BY <3>1, <3>2, SameSecond
        <3> QED  BY <3>3
    <2> QED  BY <2>2, <2>3, <2>4
<1> HIDE DEF new, s
<1>5. \A c \in Callouts, k \in Slots : In(new, c, k) <=> In(tb, c, k) /\ k # s
    BY <1>3, SlotsEverywhere DEF WentOver
<1>6. Timed(new, d, FALSE)
    <2>1. ASSUME NEW c \in Callouts
          PROVE  d[c].live <=> \E l \in Everywhere : In(new, c, l)
        <3>1. s \in Everywhere /\ s # Immediate
            BY <1>2, SlotsEverywhere
        <3> QED  BY <1>1, <1>3, <3>1, SlotsEverywhere DEF Timed, WentOver
    <2>2. ASSUME NEW c \in Callouts, NEW k \in Slots, In(new, c, k)
          PROVE  InWindow(d[c], k, new, FALSE)
        <3>1. In(tb, c, k) /\ k # s
            BY <1>5, <2>2
        <3>2. /\ d[c].t \in Nat /\ d[c].m = NoMsec /\ k = Slot(d[c].t)
              /\ tb.timestamp <= d[c].t /\ d[c].t < tb.timestamp + CYCBUF_SIZE
              /\ d[c].t # tb.timestamp
            BY <1>4, <3>1
        <3>3. tb.timestamp < d[c].t
            BY <1>1, <3>2
        <3> QED  BY <1>3, <3>2, <3>3 DEF InWindow
    <2>3. ASSUME NEW c \in Callouts, NEW l \in {Immediate, Running}, In(new, c, l)
          PROVE  d[c].t <= new.timestamp
        <3>1. In(tb, c, l) \/ In(tb, c, s)
            BY <1>3, <2>3, SlotsEverywhere DEF WentOver
        <3>2. CASE In(tb, c, l)
            BY <1>1, <1>3, <3>2 DEF Timed
        <3>3. CASE In(tb, c, s)
            BY <1>1, <1>2, <1>3, <1>4, <3>3
        <3> QED  BY <3>1, <3>2, <3>3
    <2> QED  BY <1>1, <1>3, <2>1, <2>2, <2>3 DEF Timed
<1>7. Soonest(new, d, new.timeout > new.timestamp)
    <2>1. \A c \in Callouts, k \in Slots :
              In(new, c, k) => new.timeout # 0 /\ new.timeout <= d[c].t
        BY <1>1, <1>3, <1>5 DEF Soonest
    <2>2. ASSUME new.timeout > new.timestamp, new.timeout # 0
          PROVE  \E c \in Callouts, k \in Slots : In(new, c, k) /\ d[c].t = new.timeout
        <3>1. tb.timeout \in Nat
            BY <1>1, TableFields
        <3>2. tb.timeout >= tb.timestamp /\ tb.timeout # tb.timestamp /\ tb.timeout # 0
            BY <1>1, <1>3, <2>2, <3>1
        <3>3. PICK c \in Callouts, k \in Slots : In(tb, c, k) /\ d[c].t = tb.timeout
            BY <1>1, <3>2 DEF Soonest
        <3>4. k # s
            BY <1>4, <3>2, <3>3
        <3> QED  BY <1>3, <1>5, <3>3, <3>4
    <2> QED  BY <2>1, <2>2 DEF Soonest
<1>8. \A c \in Callouts : In(tb, c, s) => d[c].t = tb.timestamp
    BY <1>2, <1>4
<1> QED  BY <1>2, <1>3, <1>6, <1>7, <1>8 DEF Between, new, s

(* The new "timeout" after collecting is that of the first callout left in *)
(* the slots.                                                              *)
LEMMA ExpireTimeoutAgrees ==
    ASSUME NEW tb, NEW d \in Times, Between(tb, d)
    PROVE  LET new == ExpireTimeout(tb)
           IN  Agree(new, d) /\ SameIn(new, tb) /\ new.list = tb.list
<1> DEFINE new == ExpireTimeout(tb)
           L == tb.list
           ts == tb.timestamp
<1>1. Sound(tb) /\ Timed(tb, d, FALSE) /\ Soonest(tb, d, tb.timeout > tb.timestamp)
    BY DEF Between
<1>2. tb \in Table /\ Good(tb) /\ CountsLists(tb)
    BY <1>1 DEF Sound, Good
<1>3. L \in AllLists /\ ts \in Nat /\ tb.timeout \in Nat
    BY <1>2, TableFields
<1>4. Good(new) /\ new.list = tb.list
    BY <1>2, ExpireTimeoutGood
<1>5. /\ new.queue = tb.queue /\ new.cycbrk = tb.cycbrk /\ new.flist = tb.flist
      /\ new.timestamp = tb.timestamp
      /\ new.timeout = IF tb.timeout > ts THEN tb.timeout
                       ELSE IF tb.nshort # tb.nzero THEN NextTimeout(L, ts) ELSE 0
    BY <1>2 DEF ExpireTimeout, Table
<1>6. tb.nshort # tb.nzero <=> InSlots(L) # 0
    <2>1. InSlots(L) \in Nat /\ NotInSlots(L) \in Nat
        BY <1>3, SlotEntriesFinite
    <2> QED  BY <1>2, <2>1 DEF CountsLists
<1> HIDE DEF new, L, ts
<1>7. Sound(new) /\ SameIn(new, tb)
    BY <1>1, <1>4, <1>5, SamePlaces DEF SameIn
<1>8. Timed(new, d, FALSE)
    BY <1>1, <1>5, <1>7, SlotsEverywhere DEF Timed, SameIn, InWindow
<1>9. ASSUME NEW c \in Callouts, NEW s \in Slots, In(tb, c, s)
      PROVE  /\ s = Slot(d[c].t) /\ ts < d[c].t /\ d[c].t < ts + CYCBUF_SIZE
             /\ d[c].t \in Nat
    <2>1. InWindow(d[c], s, tb, FALSE)
        BY <1>1, <1>9 DEF Timed
    <2> QED  BY <2>1, WindowIs, TimesType DEF ts
<1>10. \A c \in Callouts, s \in Slots : In(tb, c, s) <=> Holds(L[s], c)
    BY InIs, ListNames DEF L
<1>11. \A c \in Callouts, s \in Slots : In(new, c, s) <=> In(tb, c, s)
    BY <1>7, SlotsEverywhere DEF SameIn
<1>12. Soonest(new, d, TRUE)
    <2>1. CASE tb.timeout > ts
        BY <1>1, <1>5, <1>11, <2>1 DEF Soonest, ts
    <2>2. CASE ~(tb.timeout > ts) /\ InSlots(L) # 0
        <3>1. new.timeout = NextTimeout(L, ts)
            BY <1>5, <1>6, <2>2
        <3>2. WithinRound(L, d, ts)
            <4>1. ASSUME NEW c \in Callouts, NEW s \in Slots, Holds(L[s], c)
                  PROVE  s = Slot(d[c].t) /\ ts <= d[c].t /\ d[c].t < ts + CYCBUF_SIZE
                <5>1. In(tb, c, s)
                    BY <1>10, <4>1
                <5> QED  BY <1>3, <1>9, <5>1
            <4> QED  BY <4>1 DEF WithinRound
        <3>3. FirstInSlots(L, d, new.timeout)
            BY <1>3, <2>2, <3>1, <3>2, NextIsFirst
        <3>4. /\ \E c \in Callouts, s \in Slots : In(tb, c, s) /\ d[c].t = new.timeout
              /\ \A c \in Callouts, s \in Slots : In(tb, c, s) => new.timeout <= d[c].t
            BY <1>10, <3>3 DEF FirstInSlots
        <3>5. new.timeout # 0
            BY <1>3, <1>9, <3>4
        <3> QED  BY <1>11, <3>4, <3>5 DEF Soonest
    <2>3. CASE ~(tb.timeout > ts) /\ InSlots(L) = 0
        <3>1. new.timeout = 0
            BY <1>5, <1>6, <2>3
        <3>2. \A c \in Callouts, s \in Slots : ~In(tb, c, s)
            BY <1>3, <1>10, <2>3, NoneInSlots
        <3> QED  BY <1>11, <3>1, <3>2 DEF Soonest
    <2> QED  BY <2>1, <2>2, <2>3
<1> QED  BY <1>4, <1>7, <1>8, <1>12 DEF Agree, new

(* The collected callouts become the running ones.                         *)
LEMMA StartAgrees ==
    ASSUME NEW tb, NEW d \in Times, Agree(tb, d), tb.list[Running] = << >>
    PROVE  LET new == StartRunning(tb)
           IN  Agree(new, d) /\ WentOver(new, tb, Immediate, Running)
<1> DEFINE new == StartRunning(tb)
<1>1. Sound(tb) /\ Timed(tb, d, FALSE) /\ Soonest(tb, d, TRUE)
    BY DEF Agree
<1>2. /\ Sound(new) /\ WentOver(new, tb, Immediate, Running)
      /\ new.queue = tb.queue /\ new.timestamp = tb.timestamp /\ new.timeout = tb.timeout
    BY <1>1, StartRunningSound
<1> HIDE DEF new
<1>3. \A c \in Callouts, s \in Slots : In(new, c, s) <=> In(tb, c, s)
    BY <1>2, SlotsEverywhere DEF WentOver
<1>4. Timed(new, d, FALSE)
    <2>1. ASSUME NEW c \in Callouts
          PROVE  d[c].live <=> \E l \in Everywhere : In(new, c, l)
        BY <1>1, <1>2, SlotsEverywhere DEF Timed, WentOver
    <2>2. ASSUME NEW c \in Callouts, NEW s \in Slots, In(new, c, s)
          PROVE  InWindow(d[c], s, new, FALSE)
        BY <1>1, <1>2, <1>3, <2>2 DEF Timed, InWindow
    <2>3. ASSUME NEW c \in Callouts, NEW l \in {Immediate, Running}, In(new, c, l)
          PROVE  d[c].t <= new.timestamp
        <3>1. In(tb, c, Immediate) \/ In(tb, c, Running)
            BY <1>2, <2>3, SlotsEverywhere DEF WentOver
        <3> QED  BY <1>1, <1>2, <3>1 DEF Timed
    <2> QED  BY <1>1, <1>2, <2>1, <2>2, <2>3 DEF Timed
<1>5. Soonest(new, d, TRUE)
    BY <1>1, <1>2, <1>3 DEF Soonest
<1> QED  BY <1>2, <1>4, <1>5 DEF Agree, new

(* co_expire() and co_call() at the end of the collecting.                 *)
LEMMA CollectedAgrees ==
    ASSUME NEW tb, NEW d \in Times, Between(tb, d), tb.list[Running] = << >>
    PROVE  LET new == StartRunning(ExpireTimeout(tb))
           IN  Agree(new, d) /\ WentOver(new, tb, Immediate, Running)
<1> DEFINE mid == ExpireTimeout(tb)
           new == StartRunning(mid)
<1>1. Agree(mid, d) /\ SameIn(mid, tb) /\ mid.list = tb.list
    BY ExpireTimeoutAgrees
<1>2. Agree(new, d) /\ WentOver(new, mid, Immediate, Running)
    <2> HIDE DEF mid
    <2> QED  BY <1>1, StartAgrees
<1> HIDE DEF mid, new
<1>3. WentOver(new, tb, Immediate, Running)
    BY <1>1, <1>2, SlotsEverywhere DEF SameIn, WentOver
<1> QED  BY <1>2, <1>3 DEF mid, new

LEMMA EmptyAgrees ==
    ASSUME NEW d, d = [c \in Callouts |-> NoCallout]
    PROVE  Agree(EmptyTable, d)
<1>1. Sound(EmptyTable) /\ \A c \in Callouts, l \in Everywhere : ~In(EmptyTable, c, l)
    BY EmptyTableSound
<1>2. \A c \in Callouts : ~d[c].live
    BY DEF NoCallout
<1>3. Len(EmptyTable.queue) = 0 /\ EmptyTable.timeout = 0
    BY DEF EmptyTable
<1>4. Timed(EmptyTable, d, FALSE)
    <2>1. \A c \in Callouts : d[c].live <=> \E l \in Everywhere : In(EmptyTable, c, l)
        BY <1>1, <1>2
    <2>2. \A j \in 1 .. Len(EmptyTable.queue) : FALSE
        BY <1>3
    <2> HIDE <1>2
    <2> QED  BY <1>1, <2>1, <2>2, SlotsEverywhere DEF Timed
<1>5. Soonest(EmptyTable, d, TRUE)
    BY <1>1, <1>3, SlotsEverywhere DEF Soonest
<1> QED  BY <1>1, <1>4, <1>5 DEF Agree

---------------------------------------------------------------------------
(***************************************************************************)
(* The safety properties of the main loop around the callout table.        *)
(***************************************************************************)

(* The table agrees with the dataspaces at every point of the loop; while  *)
(* co_expire() collects, only to the second it has come to.                *)
TabAgrees ==
    IF pc = "pop" THEN AtSecond(tab, dco)
    ELSE IF pc = "expire" THEN Between(tab, dco)
    ELSE Agree(tab, dco)

(* The main loop caches no time of its own unless objects are copied, and  *)
(* the time of a thread is not before the start of the cyclic buffer.      *)
CachedTime ==
    /\ rtime = << >>
    /\ cotime # << >> => InThread /\ cotime[1].t >= tab.timestamp

(* No time passes during co_expire(), which never passes the clock.        *)
ExpiresNow ==
    /\ Expiring => now = clock
    /\ pc = "pop" => tab.timestamp <= now.t

AInv == IInv /\ TabAgrees /\ CachedTime /\ ExpiresNow

LEMMA AInvFacts ==
    ASSUME AInv
    PROVE  /\ dco \in Times /\ tab \in Table /\ Good(tab)
           /\ clock \in Time /\ now \in Time
           /\ cotime \in Seq(Time) /\ Len(cotime) <= 1
           /\ ~Expiring => Agree(tab, dco)
           /\ Sound(tab) /\ Timed(tab, dco, pc = "pop")
<1>1. IInv /\ TypeOK /\ TabAgrees
    BY DEF AInv, IInv
<1>2. /\ dco \in Times /\ tab \in Table /\ Good(tab)
      /\ clock \in Time /\ now \in Time
      /\ cotime \in Seq(Time) /\ Len(cotime) <= 1
    BY <1>1, IInvGood DEF TypeOK, Times
<1>3. CASE pc = "pop"
    <2>1. AtSecond(tab, dco) /\ Expiring
        BY <1>1, <1>3 DEF TabAgrees, Expiring
    <2>2. Timed(tab, dco, pc = "pop")
        BY <1>3, <2>1 DEF AtSecond, Timed, InWindow
    <2> QED  BY <1>2, <2>1, <2>2 DEF AtSecond
<1>4. CASE pc = "expire"
    <2>1. Between(tab, dco) /\ Expiring
        BY <1>1, <1>4 DEF TabAgrees, Expiring
    <2>2. Timed(tab, dco, pc = "pop")
        BY <1>4, <2>1 DEF Between, Timed, InWindow
    <2> QED  BY <1>2, <2>1, <2>2 DEF Between
<1>5. CASE ~Expiring
    <2>1. Agree(tab, dco) /\ pc # "pop"
        BY <1>1, <1>5 DEF TabAgrees, Expiring
    <2>2. Timed(tab, dco, pc = "pop")
        BY <2>1 DEF Agree, Timed, InWindow
    <2> QED  BY <1>2, <2>1, <2>2 DEF Agree
<1> QED  BY <1>3, <1>4, <1>5 DEF Expiring

---------------------------------------------------------------------------
(* Callout x of a dataspace is what "due" says, and the list is right.     *)
DueIn(tb, x, due) ==
    /\ x.live /\ x.t = due.t /\ x.m = due.m
    /\ due.q \in Lists \ {Running} \/ due.q = Queue
    /\ due.q # Queue => (due.q \in Slots <=> x.t # 0)
    /\ due.q \in Slots => InWindow(x, due.q, tb, FALSE)

(* What a new callout is due, and where it goes.                           *)
LEMMA DueAgrees ==
    ASSUME NEW tb \in Table, NEW at \in Time, NEW delay \in Nat,
           NEW mdelay \in Msecs \cup {NoMsec},
           IsImmediate(delay, mdelay) \/ at.t >= tb.timestamp,
           NEW due, due = Due(tb, at, delay, mdelay),
           NEW x, x = [live |-> TRUE, t |-> due.t, m |-> due.m]
    PROVE  x \in Dcallout /\ DueIn(tb, x, due)
<1>1. /\ due.t \in Nat /\ due.m \in Msecs \cup {NoMsec}
      /\ due.q \in Slots \cup {Immediate, Queue}
      /\ due.q \in Slots => due.t # 0
      /\ due.q = Immediate => due.t = 0
    BY DueType
<1>2. x \in Dcallout
    BY <1>1 DEF Dcallout
<1>3. due.q \in Slots => InWindow(x, due.q, tb, FALSE)
    <2>1. SUFFICES ASSUME due.q \in Slots  PROVE InWindow(x, due.q, tb, FALSE)
        OBVIOUS
    <2>2. ~IsImmediate(delay, mdelay) /\ mdelay = NoMsec
        BY <2>1, SlotsEverywhere DEF Due
    <2>3. /\ due.m = NoMsec /\ due.t = at.t + delay
          /\ due.q = IF due.t < tb.timestamp + CYCBUF_SIZE THEN Slot(due.t) ELSE Queue
        BY <2>2 DEF Due
    <2>4. delay # 0
        BY <2>2 DEF IsImmediate
    <2>5. tb.timestamp \in Nat /\ at.t \in Nat
        BY TableFields DEF Time
    <2>6. tb.timestamp < due.t
        BY <2>2, <2>3, <2>4, <2>5
    <2> QED  BY <2>1, <2>3, <2>6, SlotsEverywhere DEF InWindow
<1> QED  BY <1>1, <1>2, <1>3, SlotsEverywhere, ListNames DEF DueIn

(* co_new() with room for it.                                              *)
LEMMA CoNewAgrees ==
    ASSUME NEW tb, NEW d \in Times, Agree(tb, d), Len(tb.queue) < tb.cycbrk,
           NEW c \in Callouts, ~d[c].live, NEW due,
           NEW x \in Dcallout, DueIn(tb, x, due),
           NEW i \in NewIndices(tb)
    PROVE  LET new == CoNew(tb, c, due, i)
           IN  /\ Agree(new, [d EXCEPT ![c] = x]) /\ Came(new, tb, c, due.q)
               /\ new.timestamp = tb.timestamp
<1> USE DEF DueIn
<1>1. tb \in Table
    BY DEF Agree, Sound, Good
<1>2. CASE due.q # Queue
    <2>1. CoNew(tb, c, due, i) = NewCallout(tb, due.q, x.t, c, i)
        BY <1>2 DEF CoNew
    <2>2. CoNew(tb, c, due, i).timestamp = tb.timestamp
        BY <1>1, <2>1 DEF NewCallout, Table
    <2>3. PICK l \in Lists \ {Running} : l = due.q
        BY <1>2
    <2>4. x.live /\ (l \in Slots <=> x.t # 0) /\ (l \in Slots => InWindow(x, l, tb, FALSE))
        BY <1>2, <2>3
    <2>5. LET new == NewCallout(tb, l, x.t, c, i)
          IN  Agree(new, [d EXCEPT ![c] = x]) /\ Came(new, tb, c, l)
        BY <2>4, NewInListAgrees
    <2> QED  BY <2>1, <2>2, <2>3, <2>5
<1>3. CASE due.q = Queue
    <2>1. CoNew(tb, c, due, i) = [tb EXCEPT !.queue = Enqueue(@, Entry(c, x))]
        BY <1>3 DEF CoNew, Entry
    <2>2. CoNew(tb, c, due, i).timestamp = tb.timestamp
        BY <1>1, <2>1 DEF Table
    <2> QED  BY <1>3, <2>1, <2>2, NewInQueueAgrees
<1> QED  BY <1>2, <1>3

(* Which list, if any, has the new callout as its last.                    *)
Listed(new, tb, c, l) ==
    IF l = Queue THEN new.list = tb.list
    ELSE /\ l # Running
         /\ \E i \in Index : new.list = [tb.list EXCEPT ![l] = Append(@, [co |-> c, at |-> i])]

LEMMA CoNewListed ==
    ASSUME NEW tb \in Table, NEW c, NEW x, NEW due, DueIn(tb, x, due),
           NEW i \in NewIndices(tb)
    PROVE  Listed(CoNew(tb, c, due, i), tb, c, due.q)
<1>1. CASE due.q = Queue
    <2>1. CoNew(tb, c, due, i).list = tb.list
        BY <1>1 DEF CoNew, Table
    <2> QED  BY <1>1, <2>1 DEF Listed
<1>2. CASE due.q # Queue
    <2>1. CoNew(tb, c, due, i).list
              = [tb.list EXCEPT ![due.q] = Append(@, [co |-> c, at |-> i])]
        BY <1>2 DEF CoNew, NewCallout, Table
    <2>2. i \in Index /\ due.q # Running
        BY <1>2, NewIndicesType DEF DueIn
    <2> QED  BY <1>2, <2>1, <2>2 DEF Listed
<1> QED  BY <1>1, <1>2

LEMMA RoomIs ==
    ASSUME NEW tb, Sound(tb), ~TooMany(tb, 0)
    PROVE  Len(tb.queue) < tb.cycbrk /\ tb.cycbrk # 1
<1>1. Len(tb.queue) <= tb.cycbrk /\ tb \in Table
    BY DEF Sound, Packed, Good
<1>2. Len(tb.queue) \in Nat /\ tb.cycbrk \in Int
    BY <1>1, TableFields
<1>3. 0 % UindexRange = 0
    BY DEF UindexRange
<1> QED  BY <1>1, <1>2, <1>3 DEF TooMany

LEMMA CoDelTimestamp ==
    ASSUME NEW tb \in Table, NEW c, NEW t, NEW m
    PROVE  CoDel(tb, c, t, m).timestamp = tb.timestamp
BY DEF CoDel, FreeCallout, Table

---------------------------------------------------------------------------
(* What the actions do to the places of the callouts.                      *)

LEMMA ThreadNotExpiring == InThread => ~Expiring
BY DEF InThread, Threads, Expiring

(* The time of a thread, whether it is cached or not.                      *)
LEMMA ThreadTime ==
    ASSUME AInv, InThread \/ cotime = << >>, ~Expiring
    PROVE  LET r == CoTime(tab, cotime, clock)
           IN  /\ Agree(r.tab, dco) /\ SameIn(r.tab, tab)
               /\ r.now \in Time /\ r.now.t >= r.tab.timestamp
               /\ NewIndices(r.tab) = NewIndices(tab)
               /\ r.tab.queue = tab.queue /\ r.tab.list = tab.list
               /\ r.tab.timeout = tab.timeout /\ r.tab.cycbrk = tab.cycbrk
<1>1. Agree(tab, dco) /\ dco \in Times /\ clock \in Time
      /\ cotime \in Seq(Time) /\ Len(cotime) <= 1
    BY AInvFacts
<1>2. cotime # << >> => cotime[1].t >= tab.timestamp
    BY DEF AInv, CachedTime
<1> QED  BY <1>1, <1>2, CoTimeAgrees

LEMMA NewStep ==
    ASSUME AInv, NEW c \in Callouts, NEW delay \in Delays, NEW mdelay \in Mdelays,
           New(c, delay, mdelay)
    PROVE  /\ Agree(tab', dco') /\ CachedTime'
           /\ \E l \in Everywhere : Came(tab', tab, c, l) /\ Listed(tab', tab, c, l)
           /\ tab.cycbrk # 1
<1> DEFINE uses == UsesClock(tab, 0, delay, mdelay)
           r == IF uses THEN CoTime(tab, cotime, clock) ELSE [tab |-> tab, now |-> Zero]
           due == Due(r.tab, r.now, delay, mdelay)
           x == [live |-> TRUE, t |-> due.t, m |-> due.m]
<1>1. /\ InThread /\ ~Expiring /\ ~dco[c].live /\ ~TooMany(tab, 0)
      /\ cotime' = IF uses THEN << r.now >> ELSE cotime
      /\ dco' = [dco EXCEPT ![c] = x]
      /\ UNCHANGED << pc, rtime >>
    BY ThreadNotExpiring DEF New
<1>2. PICK i \in NewIndices(tab) : tab' = CoNew(r.tab, c, due, i)
    BY DEF New
<1>3. /\ Agree(tab, dco) /\ dco \in Times /\ tab \in Table /\ Sound(tab)
      /\ delay \in Nat /\ mdelay \in Msecs \cup {NoMsec}
    BY <1>1, AInvFacts, LoopAssumption
<1>4. Len(tab.queue) < tab.cycbrk /\ tab.cycbrk # 1
    BY <1>1, <1>3, RoomIs
<1>5. /\ Agree(r.tab, dco) /\ SameIn(r.tab, tab) /\ r.now \in Time
      /\ NewIndices(r.tab) = NewIndices(tab)
      /\ r.tab.queue = tab.queue /\ r.tab.cycbrk = tab.cycbrk
      /\ r.tab.list = tab.list
      /\ uses => r.now.t >= r.tab.timestamp
      /\ ~uses => r.tab = tab
    <2>1. CASE uses
        BY <1>1, <2>1, ThreadTime
    <2>2. CASE ~uses
        <3>1. r.tab = tab /\ r.now = Zero
            BY <2>2
        <3> QED  BY <1>3, <2>2, <3>1, ZeroType DEF SameIn
    <2> QED  BY <2>1, <2>2
<1>6. ~uses => IsImmediate(delay, mdelay)
    BY DEF UsesClock
<1> HIDE DEF uses, r
<1>7. r.tab \in Table
    BY <1>5 DEF Agree, Sound, Good
<1>8. x \in Dcallout /\ DueIn(r.tab, x, due)
    <2>1. IsImmediate(delay, mdelay) \/ r.now.t >= r.tab.timestamp
        BY <1>5, <1>6
    <2> QED  BY <1>3, <1>5, <1>7, <2>1, DueAgrees
<1> HIDE DEF due
<1>9. /\ Agree(tab', dco') /\ Came(tab', r.tab, c, due.q)
      /\ tab'.timestamp = r.tab.timestamp
    <2>1. Len(r.tab.queue) < r.tab.cycbrk /\ i \in NewIndices(r.tab)
        BY <1>4, <1>5
    <2> HIDE DEF x
    <2>3. LET new == CoNew(r.tab, c, due, i)
          IN  /\ Agree(new, [dco EXCEPT ![c] = x]) /\ Came(new, r.tab, c, due.q)
              /\ new.timestamp = r.tab.timestamp
        <3>1. dco \in Times /\ ~dco[c].live /\ Agree(r.tab, dco)
            BY <1>1, <1>3, <1>5
        <3> QED  BY <1>8, <2>1, <3>1, CoNewAgrees
    <2> QED  BY <1>1, <1>2, <2>3
<1>10. due.q \in Everywhere
    BY <1>8 DEF Everywhere, DueIn
<1>11. Came(tab', tab, c, due.q)
    BY <1>5, <1>9 DEF Came, SameIn
<1>12. Listed(tab', tab, c, due.q)
    <2>1. i \in NewIndices(r.tab)
        BY <1>5
    <2>2. Listed(tab', r.tab, c, due.q)
        BY <1>2, <1>7, <1>8, <2>1, CoNewListed
    <2> QED  BY <1>5, <2>2 DEF Listed
<1>13. CachedTime'
    <2>1. rtime' = << >> /\ InThread'
        BY <1>1 DEF AInv, CachedTime, InThread
    <2>2. CASE uses
        <3>1. cotime'[1] = r.now
            BY <1>1, <2>2
        <3> QED  BY <1>5, <1>9, <2>1, <2>2, <3>1 DEF CachedTime
    <2>3. CASE ~uses
        <3>1. cotime' = cotime /\ tab'.timestamp = tab.timestamp
            BY <1>1, <1>5, <1>9, <2>3
        <3> QED  BY <2>1, <3>1 DEF AInv, CachedTime
    <2> QED  BY <2>2, <2>3
<1> QED  BY <1>4, <1>9, <1>10, <1>11, <1>12, <1>13

LEMMA DelStep ==
    ASSUME AInv, NEW c \in Callouts, Del(c)
    PROVE  /\ Agree(tab', dco') /\ CachedTime'
           /\ Went(tab', tab, c)
<1> DEFINE r == CoTime(tab, cotime, clock)
<1>1. /\ InThread /\ ~Expiring /\ dco[c].live
      /\ cotime' = << r.now >>
      /\ tab' = CoDel(r.tab, c, dco[c].t, dco[c].m)
      /\ dco' = [dco EXCEPT ![c] = NoCallout]
      /\ UNCHANGED << pc, rtime >>
    BY ThreadNotExpiring DEF Del
<1>2. dco \in Times
    BY AInvFacts
<1>3. /\ Agree(r.tab, dco) /\ SameIn(r.tab, tab) /\ r.now \in Time
      /\ r.now.t >= r.tab.timestamp
    BY <1>1, ThreadTime
<1> HIDE DEF r
<1>4. Agree(tab', dco') /\ Went(tab', r.tab, c)
    BY <1>1, <1>2, <1>3, CoDelAgrees
<1>5. tab'.timestamp = r.tab.timestamp
    <2>1. r.tab \in Table
        BY <1>3 DEF Agree, Sound, Good
    <2> QED  BY <1>1, <2>1, CoDelTimestamp
<1>6. Went(tab', tab, c)
    BY <1>3, <1>4 DEF Went, SameIn
<1>7. CachedTime'
    <2>1. rtime' = << >> /\ InThread' /\ cotime'[1] = r.now
        BY <1>1 DEF AInv, CachedTime, InThread
    <2> QED  BY <1>3, <1>5, <2>1 DEF CachedTime
<1> QED  BY <1>4, <1>6, <1>7

(* Only the time is looked at.                                             *)
LEMMA TimeStep ==
    ASSUME AInv, InThread \/ cotime = << >>, ~Expiring,
           tab' = CoTime(tab, cotime, clock).tab, dco' = dco
    PROVE  Agree(tab', dco') /\ SameIn(tab', tab)
BY ThreadTime

LEMMA QueryStep ==
    ASSUME AInv, Query
    PROVE  Agree(tab', dco') /\ CachedTime' /\ SameIn(tab', tab)
<1> DEFINE r == CoTime(tab, cotime, clock)
<1>1. /\ InThread /\ ~Expiring /\ cotime' = << r.now >> /\ tab' = r.tab
      /\ UNCHANGED << dco, pc, rtime >>
    BY ThreadNotExpiring DEF Query
<1>2. Agree(tab', dco') /\ SameIn(tab', tab)
    BY <1>1, TimeStep
<1>3. r.now.t >= r.tab.timestamp
    BY <1>1, ThreadTime
<1> HIDE DEF r
<1>4. CachedTime'
    <2>1. rtime' = << >> /\ InThread' /\ cotime'[1] = r.now
        BY <1>1 DEF AInv, CachedTime, InThread
    <2> QED  BY <1>1, <1>3, <2>1 DEF CachedTime
<1> QED  BY <1>2, <1>4

(* The main loop asks for the time only when none is cached.               *)
LEMMA LoopTimeStep ==
    ASSUME AInv, ~Copying, RebuildLater \/ Rebuild \/ Delay
    PROVE  /\ Agree(tab', dco') /\ CachedTime' /\ SameIn(tab', tab)
           /\ pc' \in {"intr", "receive"}
<1>1. rtime = << >> /\ ~Expiring /\ ~InThread /\ cotime = << >>
    BY DEF AInv, CachedTime, RebuildLater, Rebuild, Delay, Expiring, InThread, Threads
<1>2. ~RebuildLater
    BY <1>1 DEF RebuildLater
<1>3. tab' = CoTime(tab, cotime, clock).tab /\ dco' = dco /\ cotime' = << >>
    BY <1>2 DEF Rebuild, Delay
<1>4. rtime' = << >>
    <2>1. CASE Delay
        BY <1>1, <2>1 DEF Delay
    <2>2. CASE Rebuild
        <3>1. Copying = FALSE
            BY LoopAssumption
        <3>2. rebuild' = FALSE
            BY <2>2, <3>1 DEF Rebuild
        <3> QED  BY <2>2, <3>2 DEF Rebuild
    <2> QED  BY <1>2, <2>1, <2>2
<1>5. Agree(tab', dco') /\ SameIn(tab', tab)
    BY <1>1, <1>3, TimeStep
<1>6. pc' \in {"intr", "receive"}
    BY <1>2 DEF Rebuild, Delay
<1> QED  BY <1>3, <1>4, <1>5, <1>6 DEF CachedTime

LEMMA NoneExpiredStep ==
    ASSUME AInv, NoneExpired
    PROVE  /\ Agree(tab', dco')
           /\ WentOver(tab', tab, Immediate, Running)
<1>1. Agree(tab, dco) /\ dco \in Times
    BY AInvFacts DEF NoneExpired, Expiring
<1>2. tab.list[Running] = << >> /\ tab' = StartRunning(tab) /\ dco' = dco
    BY DEF NoneExpired
<1> QED  BY <1>1, <1>2, StartAgrees

LEMMA NextSecondStep ==
    ASSUME AInv, NextSecond
    PROVE  /\ AtSecond(tab', dco') /\ SameIn(tab', tab)
           /\ tab'.timestamp <= now.t
<1>1. Between(tab, dco) /\ dco \in Times /\ tab \in Table /\ now \in Time
    BY AInvFacts DEF NextSecond, AInv, TabAgrees
<1>2. /\ tab.timestamp < now.t /\ tab' = [tab EXCEPT !.timestamp = @ + 1]
      /\ dco' = dco
    BY DEF NextSecond
<1>3. tab.timestamp \in Nat /\ now.t \in Nat
    BY <1>1, TableFields DEF Time
<1>4. tab'.timestamp = tab.timestamp + 1
    BY <1>1, <1>2 DEF Table
<1>5. tab'.timestamp <= now.t
    BY <1>2, <1>3, <1>4
<1> QED  BY <1>1, <1>2, <1>5, NextSecondAgrees

(* What co_expire() takes from the queue has come, and is the first.       *)
LEMMA FromQueueStep ==
    ASSUME AInv, FromQueue
    PROVE  LET b == tab.queue[1].co
           IN  /\ TabAgrees' /\ tab'.timestamp = tab.timestamp
               /\ b \in Callouts /\ dco[b].t = tab.queue[1].t
               /\ In(tab, b, Queue)
               /\ tab.queue[1].t <= now.t
               /\ pc = "pop" => tab.queue[1].t < tab.timestamp
               /\ pc = "expire" => tab.queue[1].t <= tab.timestamp
               /\ \A c \in Callouts, m \in Everywhere :
                     In(tab', c, m) <=> IF c = b THEN m = Immediate ELSE In(tab, c, m)
<1> DEFINE b == tab.queue[1].co
<1>1. /\ tab.queue # << >> /\ Expiring /\ pc' = pc /\ dco' = dco
      /\ pc = "pop" => tab.queue[1].t < tab.timestamp
      /\ pc = "expire" => tab.timestamp >= now.t /\ NotAfter(tab.queue[1], now)
    BY DEF FromQueue, Expiring
<1>2. PICK i \in NewIndices(tab) : tab' = ExpireFirst(tab, i)
    BY DEF FromQueue
<1>3. /\ dco \in Times /\ tab \in Table /\ now \in Time
      /\ Sound(tab) /\ Timed(tab, dco, pc = "pop")
    BY AInvFacts
<1>4. tab.timestamp \in Nat /\ now.t \in Nat /\ tab.queue[1].t \in Nat
    <2>1. tab.queue \in Seq(QueueEntry)
        BY <1>3, TableFields
    <2>2. 1 \in 1 .. Len(tab.queue)
        BY <1>1, <2>1
    <2>3. tab.queue[1].t \in Nat
        BY <2>1, <2>2, QueueEntries
    <2> QED  BY <1>3, <2>3, TableFields DEF Time
<1>5. pc = "expire" => tab.queue[1].t <= now.t
    BY <1>1, <1>4 DEF NotAfter, Later
<1>6. pc = "pop" => tab.timestamp <= now.t
    BY DEF AInv, ExpiresNow
<1>7. /\ tab.queue[1].t <= now.t
      /\ tab.queue[1].t <= tab.timestamp
    BY <1>1, <1>4, <1>5, <1>6 DEF Expiring
<1>8. /\ Sound(tab') /\ Timed(tab', dco, pc = "pop")
      /\ tab'.timestamp = tab.timestamp /\ tab'.timeout = tab.timeout
      /\ b \in Callouts /\ In(tab, b, Queue) /\ dco[b].t = tab.queue[1].t
      /\ \A c \in Callouts, m \in Everywhere :
            In(tab', c, m) <=> IF c = b THEN m = Immediate ELSE In(tab, c, m)
    BY <1>1, <1>2, <1>3, <1>7, ExpireFirstAgrees
<1> HIDE DEF b
<1>9. \A c \in Callouts, s \in Slots : In(tab', c, s) <=> In(tab, c, s)
    <2>1. ASSUME NEW c \in Callouts, NEW s \in Slots
          PROVE  In(tab', c, s) <=> In(tab, c, s)
        <3>1. CASE c = b
            <4>1. ~In(tab, b, s)
                BY <1>3, <1>8, SlotsEverywhere DEF Sound, Placed
            <4> QED  BY <1>8, <3>1, <4>1, SlotsEverywhere
        <3>2. CASE c # b
            BY <1>8, <3>2, SlotsEverywhere
        <3> QED  BY <3>1, <3>2
    <2> QED  BY <2>1
<1>10. TabAgrees'
    <2>1. \A ahead : Soonest(tab, dco, ahead) => Soonest(tab', dco, ahead)
        BY <1>8, <1>9 DEF Soonest
    <2>2. CASE pc = "pop"
        <3>1. Soonest(tab, dco, tab.timeout >= tab.timestamp)
            BY <2>2 DEF AInv, TabAgrees, AtSecond
        <3>2. Soonest(tab', dco, tab'.timeout >= tab'.timestamp)
            BY <1>8, <2>1, <3>1
        <3>3. Timed(tab', dco, TRUE)
            BY <1>8, <2>2 DEF Timed, InWindow
        <3> QED  BY <1>1, <1>8, <2>2, <3>2, <3>3 DEF TabAgrees, AtSecond
    <2>3. CASE pc = "expire"
        <3>1. Soonest(tab, dco, tab.timeout > tab.timestamp)
            BY <2>3 DEF AInv, TabAgrees, Between
        <3>2. Soonest(tab', dco, tab'.timeout > tab'.timestamp)
            BY <1>8, <2>1, <3>1
        <3>3. Timed(tab', dco, FALSE)
            BY <1>8, <2>3 DEF Timed, InWindow
        <3> QED  BY <1>1, <1>8, <2>3, <3>2, <3>3 DEF TabAgrees, Between
    <2> QED  BY <1>1, <2>2, <2>3 DEF Expiring
<1> QED  BY <1>1, <1>7, <1>8, <1>10 DEF b

(* The slot of the second that has come is collected.                      *)
LEMMA FromCycbufStep ==
    ASSUME AInv, FromCycbuf
    PROVE  LET s == Slot(tab.timestamp)
           IN  /\ Between(tab', dco') /\ WentOver(tab', tab, s, Immediate)
               /\ s \in Slots /\ tab.timestamp <= now.t
               /\ tab.queue # << >> => tab.queue[1].t >= tab.timestamp
               /\ \A c \in Callouts : In(tab, c, s) => dco[c].t = tab.timestamp
<1>1. /\ pc = "pop" /\ tab' = ExpireSlot(tab) /\ dco' = dco
      /\ tab.queue # << >> => tab.queue[1].t >= tab.timestamp
    BY DEF FromCycbuf
<1>2. dco \in Times /\ AtSecond(tab, dco) /\ tab.timestamp <= now.t
    BY <1>1, AInvFacts DEF AInv, TabAgrees, ExpiresNow
<1> QED  BY <1>1, <1>2, ExpireSlotAgrees

LEMMA CollectedStep ==
    ASSUME AInv, Collected
    PROVE  Agree(tab', dco') /\ WentOver(tab', tab, Immediate, Running)
<1>1. /\ pc = "expire" /\ tab' = StartRunning(ExpireTimeout(tab)) /\ dco' = dco
    BY DEF Collected
<1>2. dco \in Times /\ Between(tab, dco) /\ tab.list[Running] = << >>
    BY <1>1, AInvFacts DEF AInv, TabAgrees, IInv, NothingRuns, Expiring
<1> QED  BY <1>1, <1>2, CollectedAgrees

LEMMA RunStep ==
    ASSUME AInv, Run
    PROVE  LET c == Head(tab.list[Running]).co
           IN  /\ Agree(tab', dco') /\ Went(tab', tab, c) /\ c \in Callouts
<1> DEFINE c == Head(tab.list[Running]).co
<1>1. /\ pc = "run" /\ tab.list[Running] # << >>
      /\ tab' = FreeCallout(tab, Running, 1, 0)
      /\ dco' = [dco EXCEPT ![c] = NoCallout]
    BY DEF Run
<1>2. Agree(tab, dco) /\ dco \in Times /\ tab \in Table
    BY <1>1, AInvFacts DEF Expiring
<1>3. tab.list[Running] \in Seq(Element) /\ Running \in Lists /\ Running \notin Slots
    BY <1>2, TableFields, ListNames, ListLengths
<1>4. 1 \in 1 .. Len(tab.list[Running]) /\ c = tab.list[Running][1].co
    BY <1>1, <1>3
<1>5. c \in Callouts
    BY <1>2, <1>3, <1>4, TableFields, ListLengths
<1> HIDE DEF c
<1> QED  BY <1>1, <1>2, <1>3, <1>4, <1>5, FreeAgrees DEF c

---------------------------------------------------------------------------
(* The invariant of the loop.                                              *)

LEMMA InitAInv == Init => AInv
<1> SUFFICES ASSUME Init  PROVE AInv
    OBVIOUS
<1>1. tab = EmptyTable /\ dco = [c \in Callouts |-> NoCallout] /\ pc = "boot"
      /\ cotime = << >> /\ rtime = << >>
    BY DEF Init
<1>2. Agree(tab, dco)
    BY <1>1, EmptyAgrees
<1> QED  BY <1>1, <1>2, InitIInv DEF AInv, TabAgrees, CachedTime, ExpiresNow, Expiring

(* The places of the callouts, the time of the thread and of co_expire()   *)
(* after a step that leaves the table and the dataspaces alone.            *)
LEMMA NoTableStep ==
    ASSUME AInv, IInv', UNCHANGED << tab, dco, rtime >>,
           ~Expiring, ~Expiring', cotime' = cotime \/ cotime' = << >>,
           InThread => InThread' \/ cotime' = << >>
    PROVE  AInv'
<1>1. Agree(tab', dco')
    BY AInvFacts
<1>2. TabAgrees' /\ ExpiresNow'
    BY <1>1 DEF TabAgrees, ExpiresNow, Expiring
<1>3. CachedTime'
    BY DEF AInv, CachedTime
<1> QED  BY <1>2, <1>3 DEF AInv

LEMMA AgreeStep ==
    ASSUME IInv', Agree(tab', dco'), CachedTime', ~Expiring'
    PROVE  AInv'
BY DEF AInv, TabAgrees, ExpiresNow, Expiring

(* Outside of the threads no time is cached.                               *)
LEMMA NothingCached ==
    ASSUME AInv, ~InThread, UNCHANGED << cotime, rtime >>
    PROVE  CachedTime'
BY DEF AInv, CachedTime

LEMMA NextAInv == ~Copying /\ AInv /\ [Next]_vars => AInv'
<1> SUFFICES ASSUME ~Copying, AInv, [Next]_vars  PROVE AInv'
    OBVIOUS
<1>0. IInv'
    BY NextIInv DEF AInv
<1>1. CASE Tick \/ TurnBack
    <2>1. UNCHANGED << tab, cotime, dco, pc, rtime >> /\ TimePasses
        BY <1>1 DEF Tick, TurnBack
    <2> QED  BY <1>0, <2>1, NoTableStep DEF TimePasses, Expiring, InThread, Threads
<1>2. ASSUME NEW c \in Callouts, NEW d \in Delays, NEW md \in Mdelays, New(c, d, md)
      PROVE  AInv'
    <2>1. ~Expiring'
        BY <1>2 DEF New, InThread, Threads, Expiring
    <2> QED  BY <1>0, <1>2, <2>1, NewStep, AgreeStep
<1>3. ASSUME NEW c \in Callouts, Del(c)
      PROVE  AInv'
    <2>1. ~Expiring'
        BY <1>3 DEF Del, InThread, Threads, Expiring
    <2> QED  BY <1>0, <1>3, <2>1, DelStep, AgreeStep
<1>4. CASE Query
    <2>1. ~Expiring'
        BY <1>4 DEF Query, InThread, Threads, Expiring
    <2> QED  BY <1>0, <1>4, <2>1, QueryStep, AgreeStep
<1>5. CASE EndThread
    <2>1. ~Expiring /\ ~Expiring'
        BY <1>5 DEF EndThread, AfterThread, InThread, Threads, Expiring
    <2>2. UNCHANGED << tab, dco, rtime >> /\ cotime' = << >>
        BY <1>5 DEF EndThread
    <2> QED  BY <1>0, <2>1, <2>2, NoTableStep
<1>6. CASE \/ NoRebuild \/ Interrupt \/ Served \/ AllRun
           \/ Input \/ Timeout \/ NoInput \/ NoDelay
    <2>1. UNCHANGED << tab, cotime, dco, rtime >> /\ ~InThread
          /\ ~Expiring /\ ~Expiring'
        BY <1>6 DEF NoRebuild, Interrupt, Served, AllRun, Input, Timeout, NoInput,
                    NoDelay, InThread, Threads, Expiring
    <2> QED  BY <1>0, <2>1, NoTableStep
<1>7. CASE RebuildLater \/ Rebuild \/ Delay
    <2>1. Agree(tab', dco') /\ CachedTime' /\ ~Expiring'
        BY <1>7, LoopTimeStep DEF Expiring
    <2> QED  BY <1>0, <2>1, AgreeStep
<1>8. CASE NoneExpired
    <2>1. ~InThread /\ ~Expiring' /\ UNCHANGED << cotime, rtime >>
        BY <1>8 DEF NoneExpired, InThread, Threads, Expiring
    <2> QED  BY <1>0, <1>8, <2>1, NoneExpiredStep, NothingCached, AgreeStep
<1>9. CASE SomeExpired
    <2>1. /\ UNCHANGED << tab, dco, clock, cotime, rtime >> /\ now' = clock
          /\ pc = "call" /\ pc' = "expire"
        BY <1>9 DEF SomeExpired
    <2>2. Agree(tab, dco)
        BY <2>1, AInvFacts DEF Expiring
    <2>3. Between(tab', dco')
        BY <2>1, <2>2, AgreeBetween
    <2>4. CachedTime'
        BY <2>1, NothingCached DEF InThread, Threads
    <2> QED  BY <1>0, <2>1, <2>3, <2>4 DEF AInv, TabAgrees, ExpiresNow
<1>10. CASE NextSecond
    <2>1. /\ UNCHANGED << clock, now, cotime, rtime >>
          /\ pc = "expire" /\ pc' = "pop"
        BY <1>10 DEF NextSecond
    <2>2. AtSecond(tab', dco') /\ tab'.timestamp <= now'.t
        BY <1>10, <2>1, NextSecondStep
    <2>3. CachedTime'
        BY <2>1, NothingCached DEF InThread, Threads
    <2>4. now' = clock'
        BY <2>1 DEF AInv, ExpiresNow, Expiring
    <2> QED  BY <1>0, <2>1, <2>2, <2>3, <2>4 DEF AInv, TabAgrees, ExpiresNow
<1>11. CASE FromQueue
    <2>1. UNCHANGED << clock, now, cotime, rtime, pc >> /\ Expiring
        BY <1>11 DEF FromQueue, Expiring
    <2>2. TabAgrees' /\ tab'.timestamp = tab.timestamp
        BY <1>11, FromQueueStep
    <2>3. CachedTime'
        BY <2>1, NothingCached DEF InThread, Threads, Expiring
    <2>4. ExpiresNow'
        BY <2>1, <2>2 DEF AInv, ExpiresNow, Expiring
    <2> QED  BY <1>0, <2>2, <2>3, <2>4 DEF AInv
<1>12. CASE FromCycbuf
    <2>1. /\ UNCHANGED << clock, now, cotime, rtime >>
          /\ pc = "pop" /\ pc' = "expire"
        BY <1>12 DEF FromCycbuf
    <2>2. Between(tab', dco')
        BY <1>12, FromCycbufStep
    <2>3. CachedTime'
        BY <2>1, NothingCached DEF InThread, Threads
    <2>4. now' = clock'
        BY <2>1 DEF AInv, ExpiresNow, Expiring
    <2> QED  BY <1>0, <2>1, <2>2, <2>3, <2>4 DEF AInv, TabAgrees, ExpiresNow
<1>13. CASE Collected
    <2>1. ~InThread /\ ~Expiring' /\ UNCHANGED << cotime, rtime >>
        BY <1>13 DEF Collected, InThread, Threads, Expiring
    <2> QED  BY <1>0, <1>13, <2>1, CollectedStep, NothingCached, AgreeStep
<1>14. CASE Run
    <2>1. ~InThread /\ ~Expiring' /\ UNCHANGED << cotime, rtime >>
        BY <1>14 DEF Run, InThread, Threads, Expiring
    <2> QED  BY <1>0, <1>14, <2>1, RunStep, NothingCached, AgreeStep
<1>15. CASE UNCHANGED vars
    <2>1. UNCHANGED << tab, cotime, dco, clock, pc, now, wake, rebuild, rtime >>
        BY <1>15 DEF vars
    <2> QED  BY <1>0, <2>1 DEF AInv, TabAgrees, CachedTime, ExpiresNow, Expiring, InThread
<1> QED  BY <1>1, <1>2, <1>3, <1>4, <1>5, <1>6, <1>7, <1>8, <1>9, <1>10, <1>11,
            <1>12, <1>13, <1>14, <1>15
         DEF Next, Loop, Call, Expire, Thread

---------------------------------------------------------------------------
(* The properties.                                                         *)

LEMMA EntriesAre ==
    ASSUME AInv
    PROVE  /\ \A l \in Lists : \A k \in 1 .. Len(tab.list[l]) : << l, k >> \in Entries
           /\ \A e \in Entries : \E l \in Lists : \E k \in 1 .. Len(tab.list[l]) :
                                     e = << l, k >>
           /\ \A l \in Lists : DOMAIN tab.list[l] = 1 .. Len(tab.list[l])
<1>1. tab.list \in AllLists
    BY AInvFacts, TableFields
<1>2. \A l \in Lists : tab.list[l] \in Seq(Element)
    BY <1>1, ListLengths
<1>3. \A l \in Lists : DOMAIN tab.list[l] = 1 .. Len(tab.list[l])
    BY <1>2
<1> QED  BY <1>3 DEF Entries

(* How often callout c is in the table.                                    *)
ListTimes(c) == {e \in Entries : tab.list[e[1]][e[2]].co = c}
QueueTimes(c) == {k \in DOMAIN tab.queue : tab.queue[k].co = c}

LEMMA OnceInLists ==
    ASSUME AInv, NEW c \in Callouts, NEW l \in Lists, In(tab, c, l)
    PROVE  \E e : ListTimes(c) = {e}
<1>1. Apart(tab.list) /\ tab.list \in AllLists
    BY AInvFacts, TableFields DEF Sound, Placed
<1>2. PICK k \in 1 .. Len(tab.list[l]) : tab.list[l][k].co = c
    BY <1>1, HoldsIs, InIs, ListLengths
<1>3. << l, k >> \in ListTimes(c)
    BY <1>2, EntriesAre DEF ListTimes
<1>4. ASSUME NEW e \in ListTimes(c)
      PROVE  e = << l, k >>
    <2>1. PICK m \in Lists : \E i \in 1 .. Len(tab.list[m]) : e = << m, i >>
        BY <1>4, EntriesAre DEF ListTimes
    <2>2. PICK j \in 1 .. Len(tab.list[m]) : e = << m, j >>
        BY <2>1
    <2>3. tab.list[m][j].co = tab.list[l][k].co
        BY <1>2, <1>4, <2>2 DEF ListTimes
    <2> QED  BY <1>1, <2>2, <2>3 DEF Apart
<1> QED  BY <1>3, <1>4

LEMMA NotInLists ==
    ASSUME AInv, NEW c \in Callouts, \A l \in Lists : ~In(tab, c, l)
    PROVE  ListTimes(c) = {}
<1>1. tab.list \in AllLists
    BY AInvFacts, TableFields
<1>2. ASSUME NEW e \in ListTimes(c)
      PROVE  FALSE
    <2>1. PICK l \in Lists : \E i \in 1 .. Len(tab.list[l]) : e = << l, i >>
        BY <1>2, EntriesAre DEF ListTimes
    <2>2. PICK k \in 1 .. Len(tab.list[l]) : e = << l, k >>
        BY <2>1
    <2>3. tab.list[l][k].co = c
        BY <1>2, <2>2 DEF ListTimes
    <2> QED  BY <1>1, <2>2, <2>3, HoldsIs, InIs, ListLengths
<1> QED  BY <1>2

LEMMA QueueTimesAre ==
    ASSUME AInv, NEW c \in Callouts
    PROVE  /\ In(tab, c, Queue) => \E k : QueueTimes(c) = {k}
           /\ ~In(tab, c, Queue) => QueueTimes(c) = {}
<1>1. tab.queue \in Seq(QueueEntry) /\ Once(tab.queue)
    BY AInvFacts, TableFields DEF Sound, Placed
<1>2. DOMAIN tab.queue = 1 .. Len(tab.queue)
    BY <1>1
<1>3. In(tab, c, Queue) <=> \E k \in 1 .. Len(tab.queue) : tab.queue[k].co = c
    BY <1>1, HoldsIs, InIs
<1> QED  BY <1>1, <1>2, <1>3, ZenonT(60) DEF Once, QueueTimes

LEMMA AInvFound == AInv => Found
<1> SUFFICES ASSUME AInv, NEW c \in Callouts
             PROVE  LET l == DelList(tab, c, dco[c].t, dco[c].m)
                        times == Cardinality(ListTimes(c)) + Cardinality(QueueTimes(c))
                    IN IF dco[c].live
                       THEN times = 1 /\ (l = Queue /\ ~Expiring => InQueue(c))
                       ELSE times = 0
    BY DEF Found, ListTimes, QueueTimes
<1>1. Placed(tab) /\ Timed(tab, dco, pc = "pop") /\ dco \in Times
    BY AInvFacts DEF Sound
<1>2. dco[c].live <=> \E l \in Everywhere : In(tab, c, l)
    BY <1>1 DEF Timed
<1>3. Cardinality({}) = 0 /\ \A e : Cardinality({e}) = 1
    BY FS_EmptySet, FS_Singleton
<1>4. CASE ~dco[c].live
    <2>1. ListTimes(c) = {} /\ QueueTimes(c) = {}
        BY <1>2, <1>4, NotInLists, QueueTimesAre DEF Everywhere
    <2> QED  BY <1>3, <1>4, <2>1
<1>5. CASE dco[c].live
    <2>1. Cardinality(ListTimes(c)) + Cardinality(QueueTimes(c)) = 1
        <3>1. CASE In(tab, c, Queue)
            <4>1. \A l \in Lists : ~In(tab, c, l)
                BY <1>1, <3>1, ListNames DEF Placed, Everywhere
            <4>2. ListTimes(c) = {}
                BY <4>1, NotInLists
            <4>3. PICK k : QueueTimes(c) = {k}
                BY <3>1, QueueTimesAre
            <4>4. Cardinality(ListTimes(c)) = 0 /\ Cardinality(QueueTimes(c)) = 1
                BY <1>3, <4>2, <4>3
            <4> QED  BY <4>4
        <3>2. CASE ~In(tab, c, Queue)
            <4>1. PICK l \in Lists : In(tab, c, l)
                BY <1>2, <1>5, <3>2 DEF Everywhere
            <4>2. PICK e : ListTimes(c) = {e}
                BY <4>1, OnceInLists
            <4>3. QueueTimes(c) = {}
                BY <3>2, QueueTimesAre
            <4>4. Cardinality(ListTimes(c)) = 1 /\ Cardinality(QueueTimes(c)) = 0
                BY <1>3, <4>2, <4>3
            <4> QED  BY <4>4
        <3> QED  BY <3>1, <3>2
    <2>2. ASSUME DelList(tab, c, dco[c].t, dco[c].m) = Queue, ~Expiring
          PROVE  InQueue(c)
        <3>1. Sound(tab) /\ Timed(tab, dco, FALSE)
            BY <2>2, AInvFacts DEF Agree
        <3>2. In(tab, c, Queue)
            BY <1>1, <1>5, <2>2, <3>1, DelFinds
        <3> QED  BY <3>2, InIs DEF InQueue
    <2> QED  BY <1>5, <2>1, <2>2
<1> QED  BY <1>4, <1>5

(* A callout that a dataspace holds is in the table exactly once, where    *)
(* co_del() looks for it, and no other is: a removed callout cannot run,   *)
(* and removal never runs off the queue.                                   *)
THEOREM AlwaysFound == ~Copying => (Spec => []Found)
<1> SUFFICES ASSUME ~Copying
             PROVE  Spec => []Found
    OBVIOUS
<1>1. AInv /\ [Next]_vars => AInv'
    BY NextAInv
<1> QED  BY <1>1, InitAInv, AInvFound, PTL DEF Spec

LEMMA AInvCycWindow == AInv => CycWindow
<1> SUFFICES ASSUME AInv, NEW s \in Slots, NEW k \in DOMAIN tab.list[s]
             PROVE  LET t == dco[tab.list[s][k].co].t
                    IN  /\ s = Slot(t)
                        /\ t < tab.timestamp + CYCBUF_SIZE
                        /\ t > tab.timestamp \/ (pc = "pop" /\ t = tab.timestamp)
    BY DEF CycWindow
<1> DEFINE c == tab.list[s][k].co
<1>1. /\ tab.list \in AllLists /\ Timed(tab, dco, pc = "pop") /\ dco \in Times
      /\ tab.timestamp \in Nat
    BY AInvFacts, TableFields
<1>2. s \in Lists /\ k \in 1 .. Len(tab.list[s]) /\ tab.list[s] \in Seq(Element)
    BY <1>1, ListNames, ListLengths
<1>3. c \in Callouts /\ In(tab, c, s)
    BY <1>1, <1>2, ListLengths, HoldsIs, InIs
<1> HIDE DEF c
<1>4. InWindow(dco[c], s, tab, pc = "pop")
    BY <1>1, <1>3 DEF Timed
<1>5. dco[c].t \in Nat
    BY <1>1, <1>3, TimesType
<1> QED  BY <1>1, <1>4, <1>5 DEF InWindow, c

(* Everything in the cyclic buffer is due within one round of it, in the   *)
(* slot of its second: co_expire(), which looks at the slot of one second  *)
(* after the other, neither passes a callout over nor takes it a round     *)
(* early, however the clock jumps or the timestamp lags behind.            *)
THEOREM AlwaysInWindow == ~Copying => (Spec => []CycWindow)
<1> SUFFICES ASSUME ~Copying
             PROVE  Spec => []CycWindow
    OBVIOUS
<1>1. AInv /\ [Next]_vars => AInv'
    BY NextAInv
<1> QED  BY <1>1, InitAInv, AInvCycWindow, PTL DEF Spec

LEMMA AInvTimeoutFirst == AInv => TimeoutFirst
<1> SUFFICES ASSUME AInv, ~Expiring
             PROVE  LET times == {dco[c].t : c \in {x \in Callouts : InSlot(x)}}
                    IN IF times = {} THEN tab.timeout = 0
                       ELSE tab.timeout \in times /\ \A t \in times : tab.timeout <= t
    BY DEF TimeoutFirst
<1>1. Soonest(tab, dco, TRUE)
    BY AInvFacts DEF Agree
<1>2. \A c \in Callouts : InSlot(c) <=> \E s \in Slots : In(tab, c, s)
    BY InIs, ListNames DEF InSlot, InList
<1> QED  BY <1>1, <1>2 DEF Soonest

(* The elements of the lists have indices of their own.                    *)
LEMMA AInvShared == AInv => Shared
<1> SUFFICES ASSUME AInv  PROVE Shared
    OBVIOUS
<1>1. /\ Packed(tab) /\ Apart(tab.list) /\ tab \in Table /\ tab.list \in AllLists
      /\ tab.queue \in Seq(QueueEntry)
    BY AInvFacts, TableFields DEF Sound, Placed
<1>2. /\ tab.cycbrk \in Int /\ COTABSZ \in Nat /\ tab.flist \subseteq Int
      /\ Len(tab.queue) \in Nat
    BY <1>1, TableFields
<1>3. \A i : i \in InUse <=> UsedAt(tab.list, i)
    <2>1. ASSUME NEW i \in InUse
          PROVE  UsedAt(tab.list, i)
        <3>1. PICK e \in Entries : i = tab.list[e[1]][e[2]].at
            BY <2>1 DEF InUse
        <3>2. PICK l \in Lists : \E k \in 1 .. Len(tab.list[l]) : e = << l, k >>
            BY EntriesAre
        <3> QED  BY <3>1, <3>2 DEF UsedAt
    <2>2. ASSUME NEW i, UsedAt(tab.list, i)
          PROVE  i \in InUse
        <3>1. PICK l \in Lists : \E k \in 1 .. Len(tab.list[l]) : tab.list[l][k].at = i
            BY <2>2 DEF UsedAt
        <3>2. PICK k \in 1 .. Len(tab.list[l]) : tab.list[l][k].at = i
            BY <3>1
        <3>3. << l, k >> \in Entries
            BY EntriesAre
        <3> QED  BY <3>2, <3>3 DEF InUse
    <2> QED  BY <2>1, <2>2
<1>4. InUse \subseteq Int
    <2>1. \A l \in Lists : \A k \in 1 .. Len(tab.list[l]) : tab.list[l][k].at \in Int
        BY <1>1, ListLengths, TableFields
    <2> QED  BY <1>3, <2>1 DEF UsedAt
<1>5. InUse \cup tab.flist = tab.cycbrk .. COTABSZ - 1
    <2>1. \A i \in Int : i \in InUse \cup tab.flist <=> i \in tab.cycbrk .. COTABSZ - 1
        BY <1>1, <1>2, <1>3 DEF Packed
    <2>2. (InUse \cup tab.flist) \subseteq Int /\ (tab.cycbrk .. COTABSZ - 1) \subseteq Int
        <3>1. (InUse \cup tab.flist) \subseteq Int
            BY <1>2, <1>4
        <3>2. (tab.cycbrk .. COTABSZ - 1) \subseteq Int
            BY <1>2
        <3> QED  BY <3>1, <3>2
    <2> DEFINE A == InUse \cup tab.flist
               B == tab.cycbrk .. COTABSZ - 1
    <2>3. A = B
        <3>1. A \subseteq Int /\ B \subseteq Int /\ \A i \in Int : i \in A <=> i \in B
            BY <2>1, <2>2
        <3> HIDE DEF A, B
        <3> QED  BY <3>1
    <2> QED  BY <2>3
<1>6. InUse \cap tab.flist = {}
    BY <1>1, <1>3 DEF Packed
<1>7. Cardinality(InUse) = Cardinality(Entries)
    <2> DEFINE at(e) == tab.list[e[1]][e[2]].at
               f == [e \in Entries |-> at(e)]
    <2>1. IsFiniteSet(InUse)
        <3>1. IsFiniteSet(tab.cycbrk .. COTABSZ - 1)
            <4>1. tab.cycbrk \in Int /\ COTABSZ - 1 \in Int
                BY <1>2
            <4> QED  BY <4>1, FS_Interval
        <3> QED  BY <1>5, <3>1, FS_Subset
    <2>2. \A x \in Entries, y \in Entries : at(x) = at(y) => x = y
        <3>1. ASSUME NEW x \in Entries, NEW y \in Entries, at(x) = at(y)
              PROVE  x = y
            <4>1. PICK l \in Lists : \E j \in 1 .. Len(tab.list[l]) : x = << l, j >>
                BY EntriesAre
            <4>2. PICK j \in 1 .. Len(tab.list[l]) : x = << l, j >>
                BY <4>1
            <4>3. PICK m \in Lists : \E k \in 1 .. Len(tab.list[m]) : y = << m, k >>
                BY EntriesAre
            <4>4. PICK k \in 1 .. Len(tab.list[m]) : y = << m, k >>
                BY <4>3
            <4> QED  BY <1>1, <3>1, <4>2, <4>4 DEF Apart
        <3> QED  BY <3>1
    <2>3. InUse = {at(e) : e \in Entries}
        BY DEF InUse
    <2>4. f \in Bijection(Entries, InUse)
        BY <2>2, <2>3 DEF Bijection, Injection, IsInjective, Surjection
    <2> HIDE DEF f
    <2>5. f \in Injection(Entries, InUse) /\ f \in Surjection(Entries, InUse)
        BY <2>4 DEF Bijection
    <2> QED  BY <2>1, <2>5, FS_Injection
<1> QED  BY <1>1, <1>5, <1>6, <1>7 DEF Shared, Packed

LEMMA AInvSecondsHeap == AInv => SecondsHeap
BY AInvFacts DEF Sound, Heap, SecondsHeap

---------------------------------------------------------------------------
(* Index 0 of the array is never needed as long as there are fewer         *)
(* callouts than the array has elements.                                   *)

Few == IsFiniteSet(Callouts) /\ Cardinality(Callouts) < COTABSZ

(* A callout that is not in the lists, while all elements but the first    *)
(* are, would be one callout too many.                                     *)
LEMMA OneTooMany ==
    ASSUME Few, NEW tb, Sound(tb), NEW c \in Callouts,
           \A l \in Lists : ~In(tb, c, l), tb.flist = {}
    PROVE  tb.cycbrk # 1
<1> SUFFICES ASSUME tb.cycbrk = 1  PROVE FALSE
    OBVIOUS
<1>1. Packed(tb) /\ Apart(tb.list) /\ tb.list \in AllLists
    BY TableFields DEF Sound, Placed, Good
<1>2. COTABSZ \in Nat /\ COTABSZ > 0
    BY TableAssumption
<1> DEFINE S == 0 .. COTABSZ - 1
           At(b, i) == \E l \in Lists : \E k \in 1 .. Len(tb.list[l]) :
                           tb.list[l][k].at = i /\ tb.list[l][k].co = b
           f == [i \in S |-> IF i = 0 THEN c ELSE CHOOSE b \in Callouts : At(b, i)]
<1>3. \A i \in S : i # 0 => \E b \in Callouts : At(b, i)
    <2>1. TAKE i \in S
    <2>2. HAVE i # 0
    <2>3. UsedAt(tb.list, i)
        BY <1>1, <1>2, <2>2 DEF Packed
    <2> QED  BY <1>1, <2>3, ListLengths DEF UsedAt
<1>4. \A i \in S : /\ f[i] \in Callouts
                   /\ i = 0 => f[i] = c
                   /\ i # 0 => At(f[i], i)
    <2> HIDE DEF At, S
    <2> QED  BY <1>3
<1>5. f \in [S -> Callouts]
    <2> HIDE DEF At, S
    <2> QED  BY <1>4
<1>6. IsFiniteSet(S) /\ Cardinality(S) = COTABSZ
    <2>1. Cardinality(S) = IF 0 > COTABSZ - 1 THEN 0 ELSE COTABSZ - 1 - 0 + 1
        BY <1>2, FS_Interval
    <2>2. IsFiniteSet(S)
        BY <1>2, FS_Interval
    <2> QED  BY <1>2, <2>1, <2>2
<1>7. PICK x \in S, y \in S : x # y /\ f[x] = f[y]
    <2> HIDE DEF S, f
    <2> QED  BY <1>5, <1>6, FS_PigeonHole DEF Few
<1> HIDE DEF f
<1>8. \A i \in S : ~At(c, i)
    BY <1>1, HoldsIs, InIs, ListLengths
<1>9. x # 0 /\ y # 0
    <2> HIDE DEF At
    <2> QED  BY <1>4, <1>7, <1>8
<1>10. At(f[x], x) /\ At(f[x], y)
    <2> HIDE DEF At
    <2> QED  BY <1>4, <1>7, <1>9
<1>11. x = y
    BY <1>1, <1>10 DEF Apart
<1> QED  BY <1>7, <1>11

AboveZero == tab.cycbrk > 0

LEMMA FreeBreak ==
    ASSUME NEW tb \in Table, NEW l \in Lists, NEW k \in 1 .. Len(tb.list[l]), NEW t
    PROVE  FreeCallout(tb, l, k, t).cycbrk >= tb.cycbrk
<1> DEFINE i == tb.list[l][k].at
           brk == IF i = tb.cycbrk THEN Recede(tb) ELSE tb.cycbrk
<1>1. FreeCallout(tb, l, k, t).cycbrk = brk
    BY DEF FreeCallout, Table
<1>2. i \in Int /\ i < COTABSZ /\ tb.cycbrk \in Int
    BY TableFields, ListLengths
<1> HIDE DEF i
<1>3. brk >= tb.cycbrk
    BY <1>2, RecedeIs
<1> QED  BY <1>1, <1>3

LEMMA NewBreak ==
    ASSUME NEW tb \in Table, NEW l \in Lists, NEW t, NEW c, NEW i \in NewIndices(tb)
    PROVE  LET new == NewCallout(tb, l, t, c, i)
           IN  \/ new.cycbrk = tb.cycbrk
               \/ tb.flist = {} /\ new.cycbrk = tb.cycbrk - 1
BY DEF NewCallout, NewIndices, Table

LEMMA NewAboveZero ==
    ASSUME AInv, AboveZero, NEW c \in Callouts, NEW delay \in Delays,
           NEW mdelay \in Mdelays, New(c, delay, mdelay)
    PROVE  AboveZero'
<1> DEFINE uses == UsesClock(tab, 0, delay, mdelay)
           r == IF uses THEN CoTime(tab, cotime, clock) ELSE [tab |-> tab, now |-> Zero]
           due == Due(r.tab, r.now, delay, mdelay)
<1>1. tab.cycbrk # 1 /\ tab.cycbrk \in Int /\ tab.cycbrk > 0
    BY NewStep, AInvFacts, TableFields DEF AboveZero
<1>2. PICK i \in NewIndices(tab) : tab' = CoNew(r.tab, c, due, i)
    BY DEF New
<1>3. r.tab \in Table /\ r.tab.cycbrk = tab.cycbrk /\ NewIndices(r.tab) = NewIndices(tab)
    <2>1. CASE uses
        <3>1. InThread /\ ~Expiring
            BY ThreadNotExpiring DEF New
        <3> QED  BY <2>1, <3>1, ThreadTime DEF Agree, Sound, Good
    <2>2. CASE ~uses
        <3>1. r.tab = tab
            BY <2>2
        <3> QED  BY <3>1, AInvFacts
    <2> QED  BY <2>1, <2>2
<1> HIDE DEF r
<1>4. delay \in Nat /\ mdelay \in Msecs \cup {NoMsec} /\ r.now \in Time
    <2>1. delay \in Nat /\ mdelay \in Msecs \cup {NoMsec}
        BY LoopAssumption
    <2>2. r.now \in Time
        <3>1. CASE uses
            <4>1. InThread /\ ~Expiring
                BY ThreadNotExpiring DEF New
            <4> QED  BY <3>1, <4>1, ThreadTime DEF r
        <3>2. CASE ~uses
            <4>1. r.now = Zero
                BY <3>2 DEF r
            <4> QED  BY <4>1, ZeroType
        <3> QED  BY <3>1, <3>2
    <2> QED  BY <2>1, <2>2
<1>5. due.q \in Slots \cup {Immediate, Queue}
    BY <1>3, <1>4, DueType
<1> HIDE DEF due
<1>6. CASE due.q = Queue
    <2>1. tab'.cycbrk = tab.cycbrk
        BY <1>2, <1>3, <1>6 DEF CoNew, Table
    <2> QED  BY <1>1, <2>1 DEF AboveZero
<1>7. CASE due.q # Queue
    <2>1. due.q \in Lists /\ i \in NewIndices(r.tab)
        BY <1>3, <1>5, <1>7, ListNames
    <2>2. tab' = NewCallout(r.tab, due.q, due.t, c, i)
        BY <1>2, <1>7 DEF CoNew
    <2>3. tab'.cycbrk = tab.cycbrk \/ tab'.cycbrk = tab.cycbrk - 1
        BY <1>3, <2>1, <2>2, NewBreak
    <2> QED  BY <1>1, <2>3 DEF AboveZero
<1> QED  BY <1>6, <1>7

LEMMA DelAboveZero ==
    ASSUME AInv, AboveZero, NEW c \in Callouts, Del(c)
    PROVE  AboveZero'
<1> DEFINE r == CoTime(tab, cotime, clock)
           l == DelList(r.tab, c, dco[c].t, dco[c].m)
<1>1. InThread /\ ~Expiring /\ dco[c].live
      /\ tab' = CoDel(r.tab, c, dco[c].t, dco[c].m)
    BY ThreadNotExpiring DEF Del
<1>2. Agree(r.tab, dco) /\ r.tab.cycbrk = tab.cycbrk /\ dco \in Times
    BY <1>1, ThreadTime, AInvFacts
<1> HIDE DEF r
<1>3. r.tab \in Table /\ Sound(r.tab) /\ Timed(r.tab, dco, FALSE)
    BY <1>2 DEF Agree, Sound, Good
<1>4. l \in Everywhere /\ In(r.tab, c, l)
    BY <1>1, <1>2, <1>3, DelFinds
<1>5. tab'.cycbrk >= tab.cycbrk
    <2>1. CASE l = Queue
        <3>1. tab'.cycbrk = r.tab.cycbrk
            BY <1>1, <1>3, <2>1 DEF CoDel, Table
        <3> QED  BY <1>2, <1>3, <3>1, TableFields
    <2>2. CASE l # Queue
        <3> DEFINE k == Position(r.tab.list[l], c)
                   t == IF l \in Slots THEN dco[c].t ELSE 0
        <3>1. l \in Lists
            BY <1>4, <2>2 DEF Everywhere
        <3>2. r.tab.list[l] \in Seq(Element) /\ Holds(r.tab.list[l], c)
            BY <1>3, <1>4, <3>1, TableFields, ListLengths, InIs
        <3>3. k \in 1 .. Len(r.tab.list[l])
            BY <3>2, PositionIs
        <3>4. tab' = FreeCallout(r.tab, l, k, t)
            BY <1>1, <2>2 DEF CoDel
        <3> HIDE DEF k, l, t
        <3> QED  BY <1>2, <1>3, <3>1, <3>3, <3>4, FreeBreak
    <2> QED  BY <2>1, <2>2
<1>6. tab' \in Table
    BY DelStep DEF Agree, Sound, Good
<1>7. tab.cycbrk \in Int /\ tab'.cycbrk \in Int
    BY <1>6, AInvFacts, TableFields
<1> QED  BY <1>5, <1>7 DEF AboveZero

(* co_expire() takes no element too many either, though it does not look   *)
(* whether there is one.                                                   *)
LEMMA FromQueueAboveZero ==
    ASSUME Few, AInv, AboveZero, FromQueue
    PROVE  AboveZero'
<1> DEFINE c == tab.queue[1].co
           tb == [tab EXCEPT !.queue = Dequeue(@, 1)]
<1>1. PICK i \in NewIndices(tab) : tab' = NewCallout(tb, Immediate, 0, c, i)
    BY DEF FromQueue, ExpireFirst
<1>2. tab \in Table /\ Sound(tab) /\ tab.cycbrk \in Int
    BY AInvFacts, TableFields
<1>3. c \in Callouts /\ In(tab, c, Queue)
    BY FromQueueStep
<1>4. \A l \in Lists : ~In(tab, c, l)
    BY <1>2, <1>3, ListNames DEF Sound, Placed, Everywhere
<1>5. tab.flist = {} => tab.cycbrk # 1
    BY <1>2, <1>3, <1>4, OneTooMany
<1>6. \/ tab'.cycbrk = tab.cycbrk
      \/ tab.flist = {} /\ tab'.cycbrk = tab.cycbrk - 1
    <2>1. tab'.cycbrk = IF tab.flist = {} THEN i ELSE tab.cycbrk
        BY <1>1, <1>2 DEF NewCallout, Table
    <2> QED  BY <2>1 DEF NewIndices
<1> QED  BY <1>2, <1>5, <1>6 DEF AboveZero

LEMMA NextAboveZero == ~Copying /\ Few /\ AInv /\ AboveZero /\ [Next]_vars => AboveZero'
<1> SUFFICES ASSUME ~Copying, Few, AInv, AboveZero, [Next]_vars  PROVE AboveZero'
    OBVIOUS
<1>0. tab \in Table /\ tab.cycbrk \in Int
    BY AInvFacts, TableFields
<1>1. CASE UNCHANGED tab
    BY <1>1 DEF AboveZero
<1>2. CASE Query \/ RebuildLater \/ Rebuild \/ Delay
    <2>1. ~Expiring /\ (InThread \/ cotime = << >>)
        BY <1>2 DEF Query, RebuildLater, Rebuild, Delay, InThread, Threads, Expiring,
                    AInv, CachedTime
    <2>2. tab' = CoTime(tab, cotime, clock).tab
        BY <1>2 DEF Query, RebuildLater, Rebuild, Delay
    <2> QED  BY <2>1, <2>2, ThreadTime DEF AboveZero
<1>3. CASE NoneExpired \/ NextSecond \/ FromCycbuf \/ Collected
    <2>1. tab'.cycbrk = tab.cycbrk
        BY <1>0, <1>3 DEF NoneExpired, NextSecond, FromCycbuf, Collected, StartRunning,
                          ExpireTimeout, ExpireSlot, Table
    <2> QED  BY <2>1 DEF AboveZero
<1>4. CASE Run
    <2>1. tab.list[Running] # << >> /\ tab' = FreeCallout(tab, Running, 1, 0)
        BY <1>4 DEF Run
    <2>2. tab.list[Running] \in Seq(Element) /\ Running \in Lists
        BY <1>0, TableFields, ListLengths, ListNames
    <2>3. 1 \in 1 .. Len(tab.list[Running])
        BY <2>1, <2>2
    <2>4. tab'.cycbrk >= tab.cycbrk
        BY <1>0, <2>1, <2>2, <2>3, FreeBreak
    <2>5. tab'.cycbrk \in Int
        BY <1>4, RunStep, TableFields DEF Agree, Sound, Good
    <2> QED  BY <1>0, <2>4, <2>5 DEF AboveZero
<1>5. CASE UNCHANGED vars
    BY <1>1, <1>5 DEF vars
<1>6. CASE Tick \/ TurnBack \/ NoRebuild \/ NoDelay \/ Timeout \/ Interrupt \/ Input
           \/ NoInput \/ Served \/ SomeExpired \/ AllRun \/ EndThread
    BY <1>1, <1>6 DEF Tick, TurnBack, NoRebuild, NoDelay, Timeout, Interrupt, Input,
                      NoInput, Served, SomeExpired, AllRun, EndThread
<1>7. CASE FromQueue
    BY <1>7, FromQueueAboveZero
<1>8. CASE Thread
    BY <1>2, <1>6, <1>8, NewAboveZero, DelAboveZero DEF Thread
<1> QED  BY <1>2, <1>3, <1>4, <1>5, <1>6, <1>7, <1>8 DEF Next, Loop, Call, Expire

LEMMA AInvNoOverflow == AInv /\ AboveZero => NoOverflow
<1> SUFFICES ASSUME AInv, AboveZero, NEW i \in InUse
             PROVE  i > 0 /\ i >= Len(tab.queue)
    BY DEF NoOverflow
<1>1. Shared
    BY AInvShared
<1>2. /\ tab.cycbrk \in Int /\ COTABSZ \in Nat /\ Len(tab.queue) \in Nat
    BY AInvFacts, TableFields
<1>3. i \in tab.cycbrk .. COTABSZ - 1
    BY <1>1 DEF Shared
<1> QED  BY <1>1, <1>2, <1>3 DEF Shared, AboveZero

(* As long as there are fewer callouts than the table has elements: the    *)
(* heap and the lists share the array without overlap, every element is    *)
(* used once or free, newcallout() never lacks an element and never takes  *)
(* the first, which stands for the end of a list; "timeout" is the time of *)
(* the first callout in the cyclic buffer; the queue stays a heap.         *)
THEOREM AlwaysSound == ~Copying /\ Few => (Spec => []TableSound)
<1> SUFFICES ASSUME ~Copying, Few
             PROVE  Spec => []TableSound
    OBVIOUS
<1>1. AInv /\ [Next]_vars => AInv'
    BY NextAInv
<1>2. Init => AboveZero
    BY TableAssumption DEF Init, EmptyTable, AboveZero
<1>3. AInv /\ AboveZero /\ [Next]_vars => AboveZero'
    BY NextAboveZero
<1>4. AInv /\ AboveZero => TableSound
    BY AInvTimeoutFirst, AInvShared, AInvNoOverflow, AInvSecondsHeap DEF TableSound
<1> QED  BY <1>1, <1>2, <1>3, <1>4, InitAInv, PTL DEF Spec

---------------------------------------------------------------------------
(* Waking up in time.                                                      *)

LEMMA WholeSeconds ==
    ASSUME NEW w \in Nat, NEW t \in Nat
    PROVE  w \div MSECS <= t <=> w < t * MSECS + MSECS
<1> DEFINE M == MSECS
           q == w \div M
           r == w % M
<1>1. M \in Nat /\ M > 0
    BY TableAssumption
<1>2. q \in Nat /\ r \in 0 .. M - 1 /\ w = q * M + r
    BY <1>1
<1>3. t * M \in Nat /\ q * M \in Nat
    BY <1>1, <1>2
<1>4. CASE q <= t
    <2>1. PICK e \in Nat : t = q + e
        <3>1. t - q \in Nat /\ t = q + (t - q)
            BY <1>2, <1>4
        <3> QED  BY <3>1
    <2>2. t * M = q * M + e * M /\ e * M \in Nat
        BY <1>1, <1>2, <2>1
    <2> HIDE DEF M, q, r
    <2> QED  BY <1>1, <1>2, <1>3, <1>4, <2>2 DEF M, q
<1>5. CASE q > t
    <2>1. PICK e \in Nat : q = t + 1 + e
        <3>1. q - t - 1 \in Nat /\ q = t + 1 + (q - t - 1)
            BY <1>2, <1>5
        <3> QED  BY <3>1
    <2>2. q * M = t * M + M + e * M /\ e * M \in Nat
        BY <1>1, <1>2, <2>1
    <2> HIDE DEF M, q, r
    <2> QED  BY <1>1, <1>2, <1>3, <1>5, <2>2 DEF M, q
<1> QED  BY <1>2, <1>4, <1>5

(* Units grow with the seconds.                                            *)
LEMMA UnitsBounds ==
    ASSUME NEW x \in Time
    PROVE  x.t * MSECS <= Units(x) /\ Units(x) < x.t * MSECS + MSECS
<1>1. x.t \in Nat /\ x.m \in Nat /\ MSECS \in Nat /\ x.m < MSECS
    BY TableAssumption DEF Time, Msecs
<1>2. x.t * MSECS \in Nat
    BY <1>1
<1> QED  BY <1>1, <1>2 DEF Units

LEMMA SecondsGrow ==
    ASSUME NEW t \in Nat, NEW u \in Nat, t <= u
    PROVE  /\ t * MSECS <= u * MSECS
           /\ t < u => t * MSECS + MSECS <= u * MSECS
<1>1. MSECS \in Nat
    BY TableAssumption
<1>2. PICK e \in Nat : u = t + e
    <2>1. u - t \in Nat /\ u = t + (u - t)
        OBVIOUS
    <2> QED  BY <2>1
<1>3. /\ u * MSECS = t * MSECS + e * MSECS
      /\ t * MSECS \in Nat /\ e * MSECS \in Nat /\ u * MSECS \in Nat
    BY <1>1, <1>2
<1>4. t < u => e * MSECS >= MSECS
    <2>1. SUFFICES ASSUME t < u  PROVE e * MSECS >= MSECS
        OBVIOUS
    <2>2. PICK f \in Nat : e = f + 1
        <3>1. e - 1 \in Nat /\ e = (e - 1) + 1
            BY <1>2, <2>1
        <3> QED  BY <3>1
    <2>3. e * MSECS = f * MSECS + MSECS /\ f * MSECS \in Nat
        BY <1>1, <2>2
    <2> QED  BY <1>1, <2>3
<1> QED  BY <1>1, <1>3, <1>4

LEMMA UnitsFollow ==
    ASSUME NEW x \in Time, NEW y \in Time, NotAfter(x, y)
    PROVE  Units(x) <= Units(y) /\ x.t <= y.t
<1>1. /\ x.t \in Nat /\ x.m \in Nat /\ y.t \in Nat /\ y.m \in Nat /\ MSECS \in Nat
      /\ x.t * MSECS \in Nat /\ y.t * MSECS \in Nat
      /\ Units(x) \in Nat /\ Units(y) \in Nat
    BY TableAssumption, UnitsType DEF Time, Msecs
<1>2. x.t < y.t \/ (x.t = y.t /\ x.m <= y.m)
    BY <1>1 DEF NotAfter, Later
<1>3. CASE x.t < y.t
    BY <1>1, <1>3, UnitsBounds, SecondsGrow
<1>4. CASE x.t = y.t /\ x.m <= y.m
    BY <1>1, <1>4 DEF Units
<1> QED  BY <1>1, <1>2, <1>3, <1>4

(* When nothing has been collected, every callout is in a slot or in the   *)
(* queue, and co_delay() waits for a time that is not after it.            *)
LEMMA DeadlineBefore ==
    ASSUME AInv, ~Expiring, tab.nzero = 0, NEW c \in Callouts, dco[c].live
    PROVE  /\ tab.list[Running] = << >>
           /\ Deadlines # {} /\ FirstDeadline.t <= dco[c].t
<1>1. /\ Sound(tab) /\ Timed(tab, dco, FALSE) /\ Soonest(tab, dco, TRUE) /\ dco \in Times
      /\ tab \in Table /\ CountsLists(tab) /\ TypeOK
    BY AInvFacts DEF Agree, Good, AInv, IInv
<1>2. tab.list \in AllLists /\ tab.queue \in Seq(QueueEntry) /\ tab.timeout \in Nat
    BY <1>1, TableFields
<1>3. tab.list[Immediate] = << >> /\ tab.list[Running] = << >>
    <2>1. /\ tab.list[Immediate] \in Seq(Element) /\ tab.list[Running] \in Seq(Element)
          /\ Len(tab.list[Immediate]) \in Nat /\ Len(tab.list[Running]) \in Nat
        BY <1>2, ListLengths, ListNames
    <2>2. Len(tab.list[Immediate]) + Len(tab.list[Running]) = 0
        BY <1>1 DEF CountsLists, NotInSlots
    <2> DEFINE a == Len(tab.list[Immediate])
               b == Len(tab.list[Running])
    <2>3. a = 0 /\ b = 0
        <3>1. a \in Nat /\ b \in Nat /\ a + b = 0
            BY <2>1, <2>2
        <3> HIDE DEF a, b
        <3> QED  BY <3>1
    <2> QED  BY <2>1, <2>3
<1>4. ~In(tab, c, Immediate) /\ ~In(tab, c, Running)
    BY <1>2, <1>3, SomeoneIn, InIs, ListNames
<1>5. PICK l \in Everywhere : In(tab, c, l)
    BY <1>1 DEF Timed
<1>6. \E y \in Deadlines : y.t <= dco[c].t
    <2>1. CASE l \in Slots
        <3> DEFINE y == [t |-> tab.timeout, m |-> 0]
        <3>1. tab.timeout # 0 /\ tab.timeout <= dco[c].t
            BY <1>1, <1>5, <2>1 DEF Soonest
        <3>2. y \in Deadlines
            BY <3>1 DEF Deadlines
        <3> QED  BY <3>1, <3>2
    <2>2. CASE l = Queue
        <3>1. PICK k \in 1 .. Len(tab.queue) : tab.queue[k].co = c
            BY <1>2, <1>5, <2>2, HoldsIs, InIs
        <3>2. tab.queue[k] = Entry(c, dco[c])
            BY <1>1, <3>1 DEF Timed
        <3>3. tab.queue[k].t = dco[c].t
            BY <3>2 DEF Entry
        <3>4. tab.queue[1].t <= tab.queue[k].t
            BY <1>1, <1>2, <3>1, RootFirst DEF Sound
        <3>5. tab.queue # << >>
            BY <1>2, <3>1
        <3>6. When(tab.queue[1]) \in Deadlines /\ When(tab.queue[1]).t = tab.queue[1].t
            BY <3>5 DEF Deadlines, When
        <3> QED  BY <3>3, <3>4, <3>6
    <2> QED  BY <1>4, <1>5, <2>1, <2>2, SlotsEverywhere
<1>7. PICK y \in Deadlines : y.t <= dco[c].t
    BY <1>6
<1>8. FirstDeadline \in Time /\ y \in Time /\ NotAfter(FirstDeadline, y)
    BY <1>1, <1>7, FirstDeadlineType
<1>9. FirstDeadline.t <= y.t
    BY <1>8, UnitsFollow
<1>10. FirstDeadline.t \in Nat /\ y.t \in Nat /\ dco[c].t \in Nat
    BY <1>1, <1>8, TimesType DEF Time
<1>11. FirstDeadline.t <= dco[c].t
    BY <1>7, <1>9, <1>10
<1> QED  BY <1>3, <1>6, <1>11

(* If the time that co_delay() counts from is behind the clock, something  *)
(* in the cyclic buffer is overdue and it does not wait.                   *)
LEMMA DelayCounts ==
    ASSUME AInv, ~Expiring, tab.list[Running] = << >>, Deadlines # {}, cotime = << >>
    PROVE  LET r == CoTime(tab, cotime, clock)
           IN  \/ Units(r.now) >= Units(clock)
               \/ Units(FirstDeadline) <= Units(r.now)
<1> DEFINE ts == Timestamp(tab, clock)
           at == CoTime(tab, cotime, clock).now
<1>1. /\ Timed(tab, dco, FALSE) /\ Soonest(tab, dco, TRUE) /\ dco \in Times
      /\ tab \in Table /\ TypeOK /\ clock \in Time
    BY AInvFacts DEF Agree, AInv, IInv
<1>2. /\ tab.timestamp \in Nat /\ tab.timeout \in Nat /\ clock.t \in Nat
      /\ MAXLAG \in Nat /\ MAXLAG > 0 /\ MSECS > 0
    BY <1>1, TableFields, TableAssumption DEF Time
<1>3. at = CASE clock.t < tab.timestamp -> [t |-> tab.timestamp, m |-> 0]
             [] clock.t > ts + MAXLAG -> [t |-> ts + MAXLAG, m |-> 0]
             [] OTHER -> clock
    BY DEF CoTime
<1>4. ts \in Nat /\ tab.timestamp <= ts
    BY <1>1, TimestampBounds
<1>5. at \in Time
    BY <1>1, AInvFacts, CoTimeGood
<1>6. CASE clock.t < tab.timestamp
    <2>1. at.t = tab.timestamp
        <3>1. ~(clock.t > ts + MAXLAG)
            BY <1>2, <1>4, <1>6
        <3>2. at = [t |-> tab.timestamp, m |-> 0]
            BY <1>3, <1>6, <3>1
        <3> QED  BY <3>2
    <2>2. NotAfter(clock, at)
        BY <1>2, <1>6, <2>1 DEF NotAfter, Later
    <2>3. Units(clock) <= Units(at)
        BY <1>1, <1>5, <2>2, UnitsFollow
    <2> QED  BY <1>1, <1>5, <2>3, UnitsType
<1>7. CASE ~(clock.t < tab.timestamp) /\ clock.t > ts + MAXLAG
    <2> DEFINE y == [t |-> tab.timeout, m |-> 0]
    <2>1. at = [t |-> ts + MAXLAG, m |-> 0]
        BY <1>3, <1>7
    <2>2. /\ ts = IF tab.timeout = 0 \/ tab.timeout > clock.t THEN clock.t
                  ELSE IF tab.timestamp < tab.timeout THEN tab.timeout - 1
                  ELSE tab.timestamp
        <3>1. clock.t > tab.timestamp
            BY <1>2, <1>4, <1>7
        <3> QED  BY <1>2, <3>1 DEF Timestamp
    <2>3. ts # clock.t
        BY <1>2, <1>4, <1>7
    <2>4. tab.timeout # 0
        BY <2>2, <2>3
    <2>5. tab.timestamp < tab.timeout
        <3>1. PICK c \in Callouts, s \in Slots : In(tab, c, s) /\ dco[c].t = tab.timeout
            BY <1>1, <2>4 DEF Soonest
        <3>2. InWindow(dco[c], s, tab, FALSE)
            BY <1>1, <3>1 DEF Timed
        <3> QED  BY <3>1, <3>2, WindowIs
    <2>6. ts = tab.timeout - 1
        BY <2>2, <2>3, <2>4, <2>5
    <2>7. y.t <= at.t /\ y.m = 0 /\ at.m = 0
        BY <1>2, <2>1, <2>6
    <2>8. y \in Deadlines /\ y \in Time
        <3>1. y \in Deadlines
            BY <2>4 DEF Deadlines
        <3> QED  BY <1>1, <3>1, FirstDeadlineType
    <2>9. NotAfter(FirstDeadline, y) /\ FirstDeadline \in Time
        BY <1>1, <2>8, FirstDeadlineType
    <2> HIDE DEF y, at
    <2>10. NotAfter(y, at)
        <3>1. y.t \in Nat /\ at.t \in Nat
            BY <1>5, <2>8 DEF Time
        <3> QED  BY <2>7, <3>1 DEF NotAfter, Later
    <2>11. Units(FirstDeadline) <= Units(y) /\ Units(y) <= Units(at)
        BY <1>5, <2>8, <2>9, <2>10, UnitsFollow
    <2>12. Units(FirstDeadline) \in Nat /\ Units(y) \in Nat /\ Units(at) \in Nat
        BY <1>5, <2>8, <2>9, UnitsType
    <2>13. Units(FirstDeadline) <= Units(at)
        BY <2>11, <2>12
    <2> QED  BY <2>13 DEF at
<1>8. CASE ~(clock.t < tab.timestamp) /\ ~(clock.t > ts + MAXLAG)
    <2>1. at = clock
        BY <1>3, <1>8
    <2>2. Units(clock) \in Nat
        BY <1>1, UnitsType
    <2> QED  BY <2>1, <2>2
<1> QED  BY <1>6, <1>7, <1>8

LEMMA DelayInTime ==
    ASSUME AInv, Delay, NEW c \in Callouts, dco[c].live
    PROVE  /\ wake' # << >>
           /\ wake'[1] <= Units(clock) \/ wake'[1] \div MSECS <= dco[c].t
<1> DEFINE r == CoTime(tab, cotime, clock)
           fd == Units(FirstDeadline)
           rn == Units(r.now)
           uc == Units(clock)
           w == uc + (IF fd - rn > 0 THEN fd - rn ELSE 0)
<1>1. tab.nzero = 0 /\ Deadlines # {} /\ wake' = << w >>
    BY DEF Delay
<1>2. ~Expiring /\ ~InThread
    BY DEF Delay, Expiring, InThread, Threads
<1>3. cotime = << >>
    BY <1>2 DEF AInv, CachedTime
<1>4. FirstDeadline.t <= dco[c].t /\ tab.list[Running] = << >>
    BY <1>1, <1>2, DeadlineBefore
<1>5. rn >= uc \/ fd <= rn
    BY <1>1, <1>2, <1>3, <1>4, DelayCounts
<1>6. FirstDeadline \in Time /\ clock \in Time /\ r.now \in Time /\ dco[c].t \in Nat
    BY <1>1, AInvFacts, FirstDeadlineType, CoTimeGood, TimesType DEF AInv, IInv
<1>7. fd \in Nat /\ rn \in Nat /\ uc \in Nat
    BY <1>6, UnitsType
<1>8. fd < dco[c].t * MSECS + MSECS
    <2>1. FirstDeadline.t \in Nat /\ MSECS \in Nat
        BY <1>6, TableAssumption DEF Time
    <2>2. fd < FirstDeadline.t * MSECS + MSECS
        BY <1>6, UnitsBounds
    <2>3. FirstDeadline.t * MSECS <= dco[c].t * MSECS
        BY <1>4, <1>6, <2>1, SecondsGrow
    <2>4. FirstDeadline.t * MSECS \in Nat /\ dco[c].t * MSECS \in Nat
        BY <1>6, <2>1
    <2> HIDE DEF fd
    <2> QED  BY <1>7, <2>1, <2>2, <2>3, <2>4
<1> HIDE DEF fd, rn, uc
<1>9. w <= uc \/ w <= fd
    BY <1>5, <1>7
<1>10. w \in Nat
    BY <1>7
<1>11. w <= uc \/ w < dco[c].t * MSECS + MSECS
    <2>1. dco[c].t * MSECS \in Nat /\ MSECS \in Nat
        BY <1>6, TableAssumption
    <2> HIDE DEF w
    <2> QED  BY <1>7, <1>8, <1>9, <1>10, <2>1
<1> HIDE DEF w
<1> QED  BY <1>1, <1>6, <1>10, <1>11, WholeSeconds DEF uc

LEMMA NoDelayInTime ==
    ASSUME AInv, NoDelay, NEW c \in Callouts, dco[c].live
    PROVE  /\ wake' # << >>
           /\ wake'[1] <= Units(clock) \/ wake'[1] \div MSECS <= dco[c].t
<1>1. ~Expiring
    BY DEF NoDelay, Expiring
<1>2. tab.nzero # 0
    BY <1>1, DeadlineBefore DEF NoDelay
<1>3. wake' = << Units(clock) >>
    BY <1>2 DEF NoDelay
<1>4. Units(clock) \in Nat
    BY AInvFacts, UnitsType
<1> HIDE DEF NoDelay
<1> QED  BY <1>3, <1>4

LEMMA TickUnits ==
    ASSUME clock \in Time, Tick
    PROVE  Units(clock') = Units(clock) + 1
<1>1. /\ clock.t \in Nat /\ clock.m \in Nat /\ MSECS \in Nat /\ clock.m < MSECS
    BY TableAssumption DEF Time, Msecs
<1>2. clock.t * MSECS \in Nat /\ (clock.t + 1) * MSECS = clock.t * MSECS + MSECS
    BY <1>1
<1>3. CASE clock.m + 1 < MSECS
    <2>1. clock' = [clock EXCEPT !.m = @ + 1]
        BY <1>3 DEF Tick
    <2>2. clock'.t = clock.t /\ clock'.m = clock.m + 1
        BY <2>1 DEF Time
    <2> QED  BY <1>1, <1>2, <2>2 DEF Units
<1>4. CASE ~(clock.m + 1 < MSECS)
    <2>1. clock'.t = clock.t + 1 /\ clock'.m = 0
        BY <1>4 DEF Tick
    <2>2. clock.m + 1 = MSECS
        BY <1>1, <1>4
    <2>3. Units(clock') = clock.t * MSECS + MSECS
        BY <1>1, <1>2, <2>1 DEF Units
    <2>4. Units(clock) = clock.t * MSECS + clock.m
        BY DEF Units
    <2> QED  BY <1>1, <1>2, <2>2, <2>3, <2>4
<1> QED  BY <1>3, <1>4

LEMMA TurnBackUnits ==
    ASSUME clock \in Time, TurnBack
    PROVE  Units(clock') = Units(clock) - MSECS
<1>1. /\ clock.t \in Nat /\ clock.m \in Nat /\ MSECS \in Nat /\ clock.t > 0
    BY TableAssumption DEF Time, Msecs, TurnBack
<1>2. PICK e \in Nat : clock.t = e + 1
    <2>1. clock.t - 1 \in Nat /\ clock.t = (clock.t - 1) + 1
        BY <1>1
    <2> QED  BY <2>1
<1>3. clock' = [clock EXCEPT !.t = @ - 1]
    BY DEF TurnBack
<1>4. clock'.t = clock.t - 1 /\ clock'.m = clock.m
    BY <1>3 DEF Time
<1>5. clock'.t = e
    BY <1>2, <1>4
<1>6. e * MSECS \in Nat /\ clock.t * MSECS = e * MSECS + MSECS
    BY <1>1, <1>2
<1> QED  BY <1>1, <1>4, <1>5, <1>6 DEF Units

LEMMA NextInTime == AInv /\ WakesInTime /\ [Next]_vars => WakesInTime'
<1> SUFFICES ASSUME AInv, WakesInTime, [Next]_vars, pc' = "receive",
                    NEW c \in Callouts, dco'[c].live
             PROVE  /\ wake' # << >>
                    /\ \/ wake'[1] <= Units(clock')
                       \/ wake'[1] \div MSECS <= dco'[c].t
    BY DEF WakesInTime
<1>1. /\ clock \in Time /\ Units(clock) \in Nat /\ dco \in Times /\ dco[c].t \in Nat
      /\ wake \in Seq(Nat) /\ MSECS \in Nat /\ MSECS > 0
    BY AInvFacts, UnitsType, TimesType, TableAssumption DEF AInv, IInv, TypeOK
<1>2. CASE Delay
    BY <1>2, DelayInTime DEF Delay
<1>3. CASE NoDelay
    BY <1>3, NoDelayInTime DEF NoDelay
<1>4. ASSUME pc = "receive", UNCHANGED << pc, dco >>
      PROVE  /\ wake # << >> /\ wake[1] \in Nat
             /\ wake[1] <= Units(clock) \/ wake[1] \div MSECS <= dco[c].t
    BY <1>1, <1>4 DEF WakesInTime
<1>5. CASE Tick
    <2>1. pc = "receive" /\ UNCHANGED << pc, dco, wake >>
        BY <1>5 DEF Tick
    <2> QED  BY <1>1, <1>4, <1>5, <2>1, TickUnits
<1>6. CASE TurnBack
    <2>1. pc = "receive" /\ UNCHANGED << pc, dco >>
        BY <1>6 DEF TurnBack
    <2> DEFINE w == IF wake[1] > MSECS THEN wake[1] - MSECS ELSE 0
               uc == Units(clock)
               t == dco[c].t
    <2>2. wake' = << w >>
        BY <1>4, <1>6, <2>1 DEF TurnBack
    <2>3. Units(clock') = uc - MSECS
        BY <1>1, <1>6, TurnBackUnits
    <2>4. Units(clock') \in Nat
        BY <1>6, NextIInv, UnitsType DEF AInv, IInv, TypeOK, Next
    <2>5. w \in Nat /\ (w = 0 \/ w = wake[1] - MSECS)
        BY <1>1, <1>4, <2>1
    <2>6. wake[1] \in Nat /\ (wake[1] <= uc \/ wake[1] \div MSECS <= t)
        BY <1>4, <2>1
    <2>7. CASE wake[1] <= uc
        <3>1. w <= Units(clock')
            <4> HIDE DEF w, uc
            <4> QED  BY <1>1, <2>3, <2>4, <2>5, <2>6, <2>7 DEF uc
        <3> HIDE DEF w
        <3> QED  BY <2>2, <3>1
    <2>8. CASE wake[1] \div MSECS <= t
        <3>1. wake[1] < t * MSECS + MSECS /\ t * MSECS \in Nat
            <4>1. wake[1] \in Nat /\ t \in Nat
                BY <1>1, <2>6
            <4>2. wake[1] < t * MSECS + MSECS
                BY <2>8, <4>1, WholeSeconds
            <4> HIDE DEF t
            <4> QED  BY <1>1, <4>1, <4>2
        <3>2. w < t * MSECS + MSECS
            <4> HIDE DEF w, t
            <4> QED  BY <1>1, <2>5, <2>6, <3>1
        <3>3. w \div MSECS <= t
            <4> HIDE DEF w
            <4> QED  BY <1>1, <2>5, <3>2, WholeSeconds
        <3> HIDE DEF w
        <3> QED  BY <2>1, <2>2, <3>3
    <2> QED  BY <2>6, <2>7, <2>8
<1>7. CASE UNCHANGED vars
    <2>1. pc = "receive" /\ UNCHANGED << pc, dco, wake, clock >>
        BY <1>7 DEF vars
    <2> QED  BY <1>4, <2>1
<1>8. CASE NoRebuild \/ RebuildLater \/ Rebuild \/ Timeout \/ Interrupt \/ Input
           \/ NoInput \/ Served \/ Call
    BY <1>8 DEF NoRebuild, RebuildLater, Rebuild, Timeout, Interrupt, Input,
                NoInput, Served, Call, NoneExpired, SomeExpired, Expire, NextSecond,
                FromQueue, FromCycbuf, Collected, Run, AllRun
<1>9. CASE Thread
    BY <1>9 DEF Thread, New, Del, Query, EndThread, AfterThread, InThread, Threads
<1> QED  BY <1>2, <1>3, <1>5, <1>6, <1>7, <1>8, <1>9 DEF Next, Loop

(* co_delay() never lets the process sleep past the second at which a      *)
(* callout is due, though the time it counts from may be behind the clock, *)
(* before the start of the cyclic buffer, or turned back while it sleeps.  *)
THEOREM AlwaysInTime == ~Copying => (Spec => []WakesInTime)
<1> SUFFICES ASSUME ~Copying
             PROVE  Spec => []WakesInTime
    OBVIOUS
<1>1. AInv /\ [Next]_vars => AInv'
    BY NextAInv
<1>2. Init => WakesInTime
    BY DEF Init, WakesInTime
<1> QED  BY <1>1, <1>2, InitAInv, NextInTime, PTL DEF Spec

---------------------------------------------------------------------------
(* The order of collecting.                                                *)

LEMMA WaitingIs ==
    ASSUME NEW c
    PROVE  /\ Waiting(c) <=> \E l \in Slots \cup {Queue} : In(tab, c, l)
           /\ Ready(c) <=> In(tab, c, Immediate) \/ In(tab, c, Running)
           /\ Waiting(c)' <=> \E l \in Slots \cup {Queue} : In(tab', c, l)
           /\ Ready(c)' <=> In(tab', c, Immediate) \/ In(tab', c, Running)
BY ListNames DEF Waiting, Ready, InSlot, InList, InQueue, In

LEMMA NotBoth ==
    ASSUME AInv, NEW c \in Callouts, Waiting(c)
    PROVE  ~Ready(c)
<1>1. \A l \in Everywhere, m \in Everywhere : In(tab, c, l) /\ In(tab, c, m) => l = m
    BY AInvFacts DEF Sound, Placed
<1> QED  BY <1>1, WaitingIs, SlotsEverywhere

(* No other action than the two of co_expire() readies a waiting callout.  *)
LEMMA NotReadied ==
    ASSUME ~Copying, AInv, [Next]_vars, ~FromQueue, ~FromCycbuf,
           NEW c \in Callouts, Waiting(c)
    PROVE  ~Ready(c)'
<1>1. ~Ready(c)
    BY NotBoth
<1>2. ~In(tab, c, Immediate) /\ ~In(tab, c, Running)
    BY <1>1, WaitingIs
<1>3. CASE UNCHANGED tab
    BY <1>2, <1>3, WaitingIs
<1>4. ASSUME SameIn(tab', tab)
      PROVE  ~Ready(c)'
    BY <1>2, <1>4, WaitingIs, SlotsEverywhere DEF SameIn
<1>5. ASSUME NEW b, Went(tab', tab, b)
      PROVE  ~Ready(c)'
    BY <1>2, <1>5, WaitingIs, SlotsEverywhere DEF Went
<1>6. ASSUME WentOver(tab', tab, Immediate, Running)
      PROVE  ~Ready(c)'
    BY <1>2, <1>6, WaitingIs, SlotsEverywhere DEF WentOver
<1>7. ASSUME NEW b \in Callouts, NEW d \in Delays, NEW md \in Mdelays, New(b, d, md)
      PROVE  ~Ready(c)'
    <2>1. PICK l \in Everywhere : Came(tab', tab, b, l)
        BY <1>7, NewStep
    <2>2. c # b
        <3>1. ~dco[b].live
            BY <1>7 DEF New
        <3>2. \A m \in Everywhere : ~In(tab, b, m)
            BY <3>1, AInvFacts DEF Timed
        <3> QED  BY <3>2, WaitingIs, SlotsEverywhere
    <2> QED  BY <1>2, <2>1, <2>2, WaitingIs, SlotsEverywhere DEF Came
<1>8. ASSUME NEW b \in Callouts, Del(b)
      PROVE  ~Ready(c)'
    BY <1>5, <1>8, DelStep
<1>9. CASE Query \/ RebuildLater \/ Rebuild \/ Delay \/ NextSecond
    BY <1>4, <1>9, QueryStep, LoopTimeStep, NextSecondStep
<1>10. CASE NoneExpired \/ Collected
    BY <1>6, <1>10, NoneExpiredStep, CollectedStep
<1>11. CASE Run
    BY <1>5, <1>11, RunStep
<1>12. CASE Tick \/ TurnBack \/ NoRebuild \/ NoDelay \/ Timeout \/ Interrupt \/ Input
            \/ NoInput \/ Served \/ SomeExpired \/ AllRun \/ EndThread
    BY <1>3, <1>12 DEF Tick, TurnBack, NoRebuild, NoDelay, Timeout, Interrupt, Input,
                       NoInput, Served, SomeExpired, AllRun, EndThread
<1>13. CASE UNCHANGED vars
    BY <1>3, <1>13 DEF vars
<1> QED  BY <1>7, <1>8, <1>9, <1>10, <1>11, <1>12, <1>13
         DEF Next, Loop, Call, Expire, Thread

(* Nothing in the queue is due before its first entry.                     *)
LEMMA QueueAfter ==
    ASSUME AInv, NEW c \in Callouts, In(tab, c, Queue)
    PROVE  tab.queue # << >> /\ tab.queue[1].t <= dco[c].t
<1>1. /\ tab.queue \in Seq(QueueEntry) /\ Heap(tab.queue)
      /\ Timed(tab, dco, pc = "pop")
    BY AInvFacts, TableFields DEF Sound
<1>2. PICK k \in 1 .. Len(tab.queue) : tab.queue[k].co = c
    BY <1>1, HoldsIs, InIs
<1>3. tab.queue[k] = Entry(c, dco[c])
    BY <1>1, <1>2 DEF Timed
<1>4. tab.queue[k].t = dco[c].t
    BY <1>3 DEF Entry
<1> QED  BY <1>1, <1>2, <1>4, RootFirst

LEMMA SlotAfter ==
    ASSUME AInv, NEW c \in Callouts, NEW s \in Slots, In(tab, c, s)
    PROVE  /\ tab.timestamp <= dco[c].t
           /\ pc # "pop" => tab.timestamp < dco[c].t
<1>1. /\ Timed(tab, dco, pc = "pop") /\ dco \in Times /\ tab \in Table
    BY AInvFacts
<1>2. InWindow(dco[c], s, tab, pc = "pop")
    BY <1>1 DEF Timed
<1>3. dco[c].t \in Nat /\ tab.timestamp \in Nat
    BY <1>1, TimesType, TableFields
<1> QED  BY <1>2, <1>3 DEF InWindow

(* What co_expire() takes is not due after anything that waits.            *)
LEMMA QueueFirst ==
    ASSUME AInv, FromQueue, NEW d \in Callouts, Waiting(d)
    PROVE  tab.queue[1].t <= dco[d].t
<1> DEFINE t == tab.queue[1].t
           b == tab.queue[1].co
<1>1. /\ b \in Callouts /\ dco[b].t = t
      /\ pc = "pop" => t < tab.timestamp
      /\ pc = "expire" => t <= tab.timestamp
    BY FromQueueStep
<1>2. /\ tab.timestamp \in Nat /\ dco \in Times /\ dco[b].t \in Nat /\ dco[d].t \in Nat
    BY <1>1, AInvFacts, TableFields, TimesType
<1> HIDE DEF b, t
<1>3. CASE In(tab, d, Queue)
    BY <1>3, QueueAfter DEF t
<1>4. ASSUME NEW s \in Slots, In(tab, d, s)
      PROVE  t <= dco[d].t
    <2>1. tab.timestamp <= dco[d].t
        BY <1>4, SlotAfter
    <2>2. pc = "pop" \/ pc = "expire"
        BY DEF FromQueue
    <2> QED  BY <1>1, <1>2, <2>1, <2>2
<1> QED  BY <1>3, <1>4, WaitingIs DEF t

LEMMA SlotFirst ==
    ASSUME AInv, FromCycbuf, NEW d \in Callouts, Waiting(d)
    PROVE  tab.timestamp <= dco[d].t
<1>1. tab.queue # << >> => tab.queue[1].t >= tab.timestamp
    BY FromCycbufStep
<1>2. tab.timestamp \in Nat /\ dco[d].t \in Nat
    BY AInvFacts, TableFields, TimesType
<1>3. CASE In(tab, d, Queue)
    <2>1. tab.queue # << >> /\ tab.queue[1].t <= dco[d].t
        BY <1>3, QueueAfter
    <2>2. tab.queue[1].t \in Nat
        BY <2>1, AInvFacts, TableFields, QueueEntries
    <2> QED  BY <1>1, <1>2, <2>1, <2>2
<1>4. ASSUME NEW m \in Slots, In(tab, d, m)
      PROVE  tab.timestamp <= dco[d].t
    BY <1>4, SlotAfter
<1> QED  BY <1>3, <1>4, WaitingIs

(* Callouts are collected in the order of the seconds they are due, from   *)
(* the queue and the cyclic buffer together, and none before its time.     *)
THEOREM AlwaysInOrder == ~Copying => (Spec => InOrder)
<1> DEFINE Order(c) ==
        Waiting(c) /\ Ready(c)' =>
            /\ dco[c].t <= clock.t
            /\ \A d \in Callouts : Waiting(d) /\ Waiting(d)' => dco[c].t <= dco[d].t
<1> SUFFICES ASSUME ~Copying
             PROVE  Spec => InOrder
    OBVIOUS
<1>1. AInv /\ [Next]_vars => AInv'
    BY NextAInv
<1>2. AInv /\ [Next]_vars => [\A c \in Callouts : Order(c)]_vars
    <2> SUFFICES ASSUME AInv, [Next]_vars, NEW c \in Callouts, Waiting(c), Ready(c)'
                 PROVE  /\ dco[c].t <= clock.t
                        /\ \A d \in Callouts :
                               Waiting(d) /\ Waiting(d)' => dco[c].t <= dco[d].t
        OBVIOUS
    <2>1. FromQueue \/ FromCycbuf
        BY NotReadied
    <2>2. /\ tab.timestamp \in Nat /\ now.t \in Nat /\ dco \in Times
          /\ \A d \in Callouts : dco[d].t \in Nat
        BY AInvFacts, TableFields, TimesType DEF Time
    <2>3. now = clock
        BY <2>1 DEF FromQueue, FromCycbuf, AInv, ExpiresNow, Expiring
    <2>4. CASE FromQueue
        <3> DEFINE b == tab.queue[1].co
                   t == tab.queue[1].t
        <3>1. /\ b \in Callouts /\ dco[b].t = t /\ t <= now.t
              /\ pc = "pop" => t < tab.timestamp
              /\ pc = "expire" => t <= tab.timestamp
              /\ \A d \in Callouts, m \in Everywhere :
                     In(tab', d, m) <=> IF d = b THEN m = Immediate ELSE In(tab, d, m)
            BY <2>4, FromQueueStep
        <3> HIDE DEF b, t
        <3>2. c = b
            BY <3>1, NotBoth, WaitingIs, SlotsEverywhere
        <3>3. ASSUME NEW d \in Callouts, Waiting(d)
              PROVE  t <= dco[d].t
            BY <2>4, <3>3, QueueFirst DEF t
        <3> QED  BY <2>3, <3>1, <3>2, <3>3
    <2>5. CASE FromCycbuf
        <3> DEFINE s == Slot(tab.timestamp)
        <3>1. /\ WentOver(tab', tab, s, Immediate)
              /\ s \in Slots /\ tab.timestamp <= now.t
              /\ tab.queue # << >> => tab.queue[1].t >= tab.timestamp
              /\ \A d \in Callouts : In(tab, d, s) => dco[d].t = tab.timestamp
            BY <2>5, FromCycbufStep
        <3> HIDE DEF s
        <3>2. In(tab, c, s)
            BY <3>1, NotBoth, WaitingIs, SlotsEverywhere DEF WentOver
        <3>3. dco[c].t = tab.timestamp
            BY <3>1, <3>2
        <3>4. ASSUME NEW d \in Callouts, Waiting(d)
              PROVE  tab.timestamp <= dco[d].t
            BY <2>5, <3>4, SlotFirst
        <3> QED  BY <2>3, <3>1, <3>3, <3>4
    <2> QED  BY <2>1, <2>4, <2>5
<1> HIDE DEF Order
<1>3. Spec => [][\A c \in Callouts : Order(c)]_vars
    BY <1>1, <1>2, InitAInv, PTL DEF Spec
<1> QED  BY <1>3 DEF InOrder, Order

---------------------------------------------------------------------------
(* The main loop with its callout table keeps the promises of              *)
(* CallOutContract: every step of CallOut is a step of the contract or     *)
(* changes nothing that the contract speaks of.                            *)

(* The abstract state that table tb and dataspaces d stand for.            *)
Stamp(x) == [t |-> x.t, m |-> IF x.m = NoMsec THEN 0 ELSE x.m]
WaitSet(tb) == {c \in Callouts : \E l \in Slots \cup {Queue} : In(tb, c, l)}
AbsWaiting(tb, d) == [c \in WaitSet(tb) |-> Stamp(d[c])]
AbsReady(tb) == Ids(tb.list[Running] \o tb.list[Immediate])

---------------------------------------------------------------------------
(* What comes to the ready callouts and what goes.                         *)

LEMMA IdsAre ==
    ASSUME NEW s \in Seq(Element)
    PROVE  /\ Ids(s) \in Seq(Callouts) /\ Len(Ids(s)) = Len(s) /\ Len(s) \in Nat
           /\ \A k \in 1 .. Len(s) : Ids(s)[k] = s[k].co
<1>1. DOMAIN s = 1 .. Len(s) /\ Len(s) \in Nat /\ \A k \in 1 .. Len(s) : s[k] \in Element
    OBVIOUS
<1>2. \A x \in Element : x.co \in Callouts
    BY DEF Element
<1>3. \A k \in 1 .. Len(s) : s[k].co \in Callouts
    BY <1>1, <1>2
<1> QED  BY <1>1, <1>3 DEF Ids

LEMMA Halves ==
    ASSUME NEW m \in Nat, NEW n \in Nat, NEW k \in 1 .. m + n
    PROVE  k \in 1 .. m \/ \E i \in 1 .. n : k = m + i
<1>1. CASE k <= m
    BY <1>1
<1>2. CASE k > m
    <2>1. k - m \in 1 .. n /\ k = m + (k - m)
        BY <1>2
    <2> QED  BY <2>1
<1> QED  BY <1>1, <1>2

(* A sequence is known by its two halves.                                  *)
LEMMA JoinedSame ==
    ASSUME NEW S, NEW r \in Seq(S), NEW q \in Seq(S), NEW s, NEW t,
           Joined(r, s, t), Joined(q, s, t)
    PROVE  r = q
<1> DEFINE m == Len(s)
           n == Len(t)
<1>1. m \in Nat /\ n \in Nat /\ Len(r) = m + n /\ Len(q) = m + n
    BY DEF Joined
<1>2. /\ \A k \in 1 .. m : r[k] = q[k]
      /\ \A k \in 1 .. n : r[m + k] = q[m + k]
    BY DEF Joined
<1> HIDE DEF m, n
<1>3. \A k \in 1 .. m + n : r[k] = q[k]
    BY <1>1, <1>2, Halves
<1> QED  BY <1>1, <1>3, SeqEqual

LEMMA IdsConcat ==
    ASSUME NEW s \in Seq(Element), NEW t \in Seq(Element)
    PROVE  Ids(s \o t) = Ids(s) \o Ids(t)
<1> DEFINE r == s \o t
           i == Ids(s)
           j == Ids(t)
           q == i \o j
           ir == Ids(r)
<1>1. r \in Seq(Element) /\ Joined(r, s, t)
    BY ConcatElem
<1>2. i \in Seq(Callouts) /\ j \in Seq(Callouts) /\ Len(i) = Len(s) /\ Len(j) = Len(t)
    BY IdsAre
<1>3. q \in Seq(Callouts) /\ Joined(q, i, j)
    BY <1>2, ConcatElem
<1>4. ir \in Seq(Callouts) /\ Len(ir) = Len(r)
    BY <1>1, IdsAre
<1>5. Joined(ir, i, j)
    <2>1. /\ \A k \in 1 .. Len(s) : i[k] = s[k].co
          /\ \A k \in 1 .. Len(t) : j[k] = t[k].co
          /\ \A k \in 1 .. Len(r) : ir[k] = r[k].co
        BY <1>1, IdsAre
    <2> HIDE DEF r, i, j, q, ir
    <2> DEFINE m == Len(s)
               n == Len(t)
    <2>2. m \in Nat /\ n \in Nat /\ Len(r) = m + n
          /\ (\A k \in 1 .. m : r[k] = s[k]) /\ (\A k \in 1 .. n : r[m + k] = t[k])
        BY <1>1 DEF Joined
    <2>3. Len(i) = m /\ Len(j) = n /\ Len(ir) = m + n
        BY <1>2, <1>4, <2>2
    <2>4. /\ \A k \in 1 .. m : i[k] = s[k].co
          /\ \A k \in 1 .. n : j[k] = t[k].co
          /\ \A k \in 1 .. m + n : ir[k] = r[k].co
        BY <2>1, <2>2
    <2> HIDE DEF m, n
    <2>5. \A k \in 1 .. m : ir[k] = i[k]
        <3>1. \A k \in 1 .. m : k \in 1 .. m + n
            BY <2>2
        <3> QED  BY <2>2, <2>4, <3>1
    <2>6. \A k \in 1 .. n : ir[m + k] = j[k]
        <3>1. \A k \in 1 .. n : m + k \in 1 .. m + n
            BY <2>2
        <3> QED  BY <2>2, <2>4, <3>1
    <2> QED  BY <2>2, <2>3, <2>5, <2>6 DEF Joined
<1> QED  BY <1>3, <1>4, <1>5, JoinedSame

LEMMA ReadyIs ==
    ASSUME NEW tb \in Table
    PROVE  LET a == tb.list[Running]
               b == tb.list[Immediate]
           IN  /\ a \in Seq(Element) /\ b \in Seq(Element)
               /\ Ids(a) \in Seq(Callouts) /\ Ids(b) \in Seq(Callouts)
               /\ AbsReady(tb) = Ids(a) \o Ids(b)
               /\ AbsReady(tb) \in Seq(Callouts)
               /\ Joined(AbsReady(tb), Ids(a), Ids(b))
<1> DEFINE a == tb.list[Running]
           b == tb.list[Immediate]
<1>1. a \in Seq(Element) /\ b \in Seq(Element)
    BY TableFields, ListLengths, ListNames
<1>2. Ids(a) \in Seq(Callouts) /\ Ids(b) \in Seq(Callouts)
    BY <1>1, IdsAre
<1>3. AbsReady(tb) = Ids(a) \o Ids(b)
    BY <1>1, IdsConcat DEF AbsReady
<1> HIDE DEF a, b
<1>4. AbsReady(tb) \in Seq(Callouts) /\ Joined(AbsReady(tb), Ids(a), Ids(b))
    BY <1>2, <1>3, ConcatElem
<1> QED  BY <1>1, <1>2, <1>3, <1>4 DEF a, b

(* Those of the list of a second follow the ones collected before.         *)
LEMMA ReadyConcat ==
    ASSUME NEW tb \in Table, NEW new \in Table, NEW s \in Seq(Element),
           new.list[Running] = tb.list[Running],
           new.list[Immediate] = tb.list[Immediate] \o s
    PROVE  AbsReady(new) = AbsReady(tb) \o Ids(s)
<1> DEFINE a == tb.list[Running]
           b == tb.list[Immediate]
<1>1. /\ a \in Seq(Element) /\ b \in Seq(Element)
      /\ Ids(a) \in Seq(Callouts) /\ Ids(b) \in Seq(Callouts)
      /\ AbsReady(tb) = Ids(a) \o Ids(b)
    BY ReadyIs
<1>2. AbsReady(new) = Ids(a) \o Ids(b \o s)
    BY ReadyIs
<1> HIDE DEF a, b
<1>3. Ids(b \o s) = Ids(b) \o Ids(s)
    BY <1>1, IdsConcat
<1>4. Ids(s) \in Seq(Callouts)
    BY IdsAre
<1>5. (Ids(a) \o Ids(b)) \o Ids(s) = Ids(a) \o (Ids(b) \o Ids(s))
    BY <1>1, <1>4, ConcatAssociative, SMTT(30)
<1> QED  BY <1>1, <1>2, <1>3, <1>5

LEMMA ReadyAppend ==
    ASSUME NEW tb \in Table, NEW new \in Table, NEW x \in Element,
           new.list[Running] = tb.list[Running],
           new.list[Immediate] = Append(tb.list[Immediate], x)
    PROVE  AbsReady(new) = Append(AbsReady(tb), x.co)
<1>1. tb.list[Immediate] \in Seq(Element) /\ AbsReady(tb) \in Seq(Callouts)
    BY ReadyIs
<1>2. Append(tb.list[Immediate], x) = tb.list[Immediate] \o << x >>
    BY <1>1, AppendIsConcat
<1>3. AbsReady(new) = AbsReady(tb) \o Ids(<< x >>)
    <2>1. << x >> \in Seq(Element)
        OBVIOUS
    <2> QED  BY <1>2, <2>1, ReadyConcat
<1>4. Ids(<< x >>) = << x.co >>
    BY DEF Ids
<1>5. x.co \in Callouts
    BY DEF Element
<1> QED  BY <1>1, <1>3, <1>4, <1>5, AppendIsConcat

(* Removal from a sequence of two parts is removal from one of them.       *)
LEMMA RemoveFromFirst ==
    ASSUME NEW S, NEW s \in Seq(S), NEW t \in Seq(S), NEW j \in 1 .. Len(s)
    PROVE  j \in 1 .. Len(s \o t) /\ RemoveAt(s \o t, j) = RemoveAt(s, j) \o t
<1> DEFINE r == s \o t
           q == RemoveAt(r, j)
           u == RemoveAt(s, j)
           m == Len(s)
           n == Len(t)
<1>1. r \in Seq(S) /\ Joined(r, s, t)
    BY ConcatElem
<1>2. m \in Nat /\ n \in Nat /\ Len(r) = m + n /\ j \in 1 .. m /\ j \in 1 .. m + n
    BY <1>1 DEF Joined
<1>3. u \in Seq(S) /\ Len(u) = m - 1
      /\ \A k \in 1 .. m - 1 : u[k] = IF k < j THEN s[k] ELSE s[k + 1]
    BY RemoveElem
<1> HIDE DEF r, u, m, n
<1>31. j \in 1 .. Len(r)
    BY <1>2
<1>4. q \in Seq(S) /\ Len(q) = m + n - 1
      /\ \A k \in 1 .. m + n - 1 : q[k] = IF k < j THEN r[k] ELSE r[k + 1]
    <2>1. q \in Seq(S) /\ Len(q) = Len(r) - 1
          /\ \A k \in 1 .. Len(r) - 1 : q[k] = IF k < j THEN r[k] ELSE r[k + 1]
        BY <1>1, <1>31, RemoveElem
    <2> HIDE DEF q
    <2> QED  BY <1>2, <2>1
<1>5. /\ \A k \in 1 .. m : r[k] = s[k]
      /\ \A k \in 1 .. n : r[m + k] = t[k]
    BY <1>1 DEF Joined, m, n
<1> HIDE DEF q
<1>6. ASSUME NEW k \in 1 .. m - 1
      PROVE  q[k] = u[k]
    <2>1. k \in 1 .. m + n - 1 /\ k \in 1 .. m /\ k + 1 \in 1 .. m
        BY <1>2
    <2> QED  BY <1>3, <1>4, <1>5, <2>1
<1>7. ASSUME NEW k \in 1 .. n
      PROVE  q[m - 1 + k] = t[k]
    <2>1. m - 1 + k \in 1 .. m + n - 1 /\ ~(m - 1 + k < j) /\ m - 1 + k + 1 = m + k
        BY <1>2
    <2>2. q[m - 1 + k] = r[m + k]
        BY <1>4, <2>1
    <2> QED  BY <1>5, <2>2
<1>8. Joined(q, u, t)
    BY <1>2, <1>3, <1>4, <1>6, <1>7 DEF Joined, n
<1>9. u \o t \in Seq(S) /\ Joined(u \o t, u, t)
    BY <1>3, ConcatElem
<1>10. q = u \o t
    BY <1>3, <1>4, <1>8, <1>9, JoinedSame
<1> QED  BY <1>2, <1>10 DEF q, u, r

LEMMA RemoveFromSecond ==
    ASSUME NEW S, NEW s \in Seq(S), NEW t \in Seq(S), NEW j \in 1 .. Len(t)
    PROVE  /\ Len(s) + j \in 1 .. Len(s \o t)
           /\ RemoveAt(s \o t, Len(s) + j) = s \o RemoveAt(t, j)
<1> DEFINE r == s \o t
           m == Len(s)
           n == Len(t)
           p == m + j
           q == RemoveAt(r, p)
           u == RemoveAt(t, j)
<1>1. r \in Seq(S) /\ Joined(r, s, t)
    BY ConcatElem
<1>2. m \in Nat /\ n \in Nat /\ Len(r) = m + n /\ j \in 1 .. n /\ p \in 1 .. m + n
    BY <1>1 DEF Joined
<1>3. u \in Seq(S) /\ Len(u) = n - 1
      /\ \A k \in 1 .. n - 1 : u[k] = IF k < j THEN t[k] ELSE t[k + 1]
    BY RemoveElem
<1> HIDE DEF r, p, u, m, n
<1>31. p \in 1 .. Len(r)
    BY <1>2
<1>4. q \in Seq(S) /\ Len(q) = m + n - 1
      /\ \A k \in 1 .. m + n - 1 : q[k] = IF k < p THEN r[k] ELSE r[k + 1]
    <2>1. q \in Seq(S) /\ Len(q) = Len(r) - 1
          /\ \A k \in 1 .. Len(r) - 1 : q[k] = IF k < p THEN r[k] ELSE r[k + 1]
        BY <1>1, <1>31, RemoveElem
    <2> HIDE DEF q
    <2> QED  BY <1>2, <2>1
<1>5. /\ \A k \in 1 .. m : r[k] = s[k]
      /\ \A k \in 1 .. n : r[m + k] = t[k]
    BY <1>1 DEF Joined, m, n
<1> HIDE DEF q
<1>6. ASSUME NEW k \in 1 .. m
      PROVE  q[k] = s[k]
    <2>1. k \in 1 .. m + n - 1 /\ k < p
        BY <1>2 DEF p
    <2> QED  BY <1>4, <1>5, <2>1
<1>7. ASSUME NEW k \in 1 .. n - 1
      PROVE  q[m + k] = u[k]
    <2>1. m + k \in 1 .. m + n - 1 /\ m + k + 1 = m + (k + 1)
          /\ k \in 1 .. n /\ k + 1 \in 1 .. n /\ (m + k < p <=> k < j)
        BY <1>2 DEF p
    <2>2. q[m + k] = IF k < j THEN r[m + k] ELSE r[m + (k + 1)]
        BY <1>4, <2>1
    <2> QED  BY <1>3, <1>5, <2>1, <2>2
<1>8. Joined(q, s, u)
    BY <1>2, <1>3, <1>4, <1>6, <1>7 DEF Joined, m
<1>9. s \o u \in Seq(S) /\ Joined(s \o u, s, u)
    BY <1>3, ConcatElem
<1>10. q = s \o u
    BY <1>4, <1>8, <1>9, JoinedSame
<1> QED  BY <1>2, <1>10 DEF q, u, r, p, m

LEMMA IdsRemove ==
    ASSUME NEW s \in Seq(Element), NEW j \in 1 .. Len(s)
    PROVE  Ids(RemoveAt(s, j)) = RemoveAt(Ids(s), j)
<1> DEFINE u == RemoveAt(s, j)
           i == Ids(s)
           iu == Ids(u)
           q == RemoveAt(i, j)
           n == Len(s)
<1>1. n \in Nat /\ u \in Seq(Element) /\ Len(u) = n - 1
      /\ \A k \in 1 .. n - 1 : u[k] = IF k < j THEN s[k] ELSE s[k + 1]
    BY RemoveElem
<1>2. i \in Seq(Callouts) /\ Len(i) = n /\ \A k \in 1 .. n : i[k] = s[k].co
    BY IdsAre
<1> HIDE DEF u, i
<1>3. iu \in Seq(Callouts) /\ Len(iu) = n - 1 /\ \A k \in 1 .. n - 1 : iu[k] = u[k].co
    BY <1>1, IdsAre
<1>4. q \in Seq(Callouts) /\ Len(q) = n - 1
      /\ \A k \in 1 .. n - 1 : q[k] = IF k < j THEN i[k] ELSE i[k + 1]
    BY <1>2, RemoveElem
<1> HIDE DEF iu, q, n
<1>5. ASSUME NEW k \in 1 .. n - 1
      PROVE  iu[k] = q[k]
    <2>1. k \in 1 .. n /\ k + 1 \in 1 .. n
        BY <1>1
    <2> QED  BY <1>1, <1>2, <1>3, <1>4, <2>1
<1>6. iu = q
    BY <1>1, <1>3, <1>4, <1>5, SeqEqual
<1> QED  BY <1>6 DEF iu, q, i, u

(* A callout removed from either list leaves the ready ones.               *)
LEMMA ReadyRemove ==
    ASSUME NEW tb \in Table, NEW new \in Table,
           NEW l \in {Running, Immediate}, NEW j \in 1 .. Len(tb.list[l]),
           new.list[l] = RemoveAt(tb.list[l], j),
           \A m \in {Running, Immediate} \ {l} : new.list[m] = tb.list[m]
    PROVE  LET p == IF l = Running THEN j ELSE Len(tb.list[Running]) + j
           IN  /\ p \in 1 .. Len(AbsReady(tb)) /\ AbsReady(tb)[p] = tb.list[l][j].co
               /\ AbsReady(new) = RemoveAt(AbsReady(tb), p)
<1> DEFINE a == tb.list[Running]
           b == tb.list[Immediate]
<1>1. /\ a \in Seq(Element) /\ b \in Seq(Element)
      /\ Ids(a) \in Seq(Callouts) /\ Ids(b) \in Seq(Callouts)
      /\ AbsReady(tb) = Ids(a) \o Ids(b) /\ Joined(AbsReady(tb), Ids(a), Ids(b))
    BY ReadyIs
<1>2. AbsReady(new) = Ids(new.list[Running]) \o Ids(new.list[Immediate])
    BY ReadyIs
<1>3. Len(Ids(a)) = Len(a) /\ Len(Ids(b)) = Len(b)
      /\ (\A k \in 1 .. Len(a) : Ids(a)[k] = a[k].co)
      /\ \A k \in 1 .. Len(b) : Ids(b)[k] = b[k].co
    BY <1>1, IdsAre
<1>4. Running # Immediate
    BY ListNames
<1>5. CASE l = Running
    <2>1. j \in 1 .. Len(a) /\ new.list[Running] = RemoveAt(a, j) /\ new.list[Immediate] = b
        BY <1>4, <1>5
    <2> HIDE DEF a, b
    <2>0. j \in 1 .. Len(Ids(a))
        BY <1>3, <2>1
    <2>2. Ids(RemoveAt(a, j)) = RemoveAt(Ids(a), j)
        BY <1>1, <2>1, IdsRemove
    <2>3. j \in 1 .. Len(Ids(a) \o Ids(b))
          /\ RemoveAt(Ids(a) \o Ids(b), j) = RemoveAt(Ids(a), j) \o Ids(b)
        BY <1>1, <2>0, RemoveFromFirst
    <2>4. AbsReady(tb)[j] = a[j].co
        BY <1>1, <1>3, <2>1 DEF Joined
    <2> QED  BY <1>1, <1>2, <1>5, <2>1, <2>2, <2>3, <2>4 DEF a
<1>6. CASE l = Immediate
    <2>1. j \in 1 .. Len(b) /\ new.list[Immediate] = RemoveAt(b, j) /\ new.list[Running] = a
        BY <1>4, <1>6
    <2> HIDE DEF a, b
    <2>0. j \in 1 .. Len(Ids(b)) /\ Len(Ids(a)) = Len(a)
        BY <1>3, <2>1
    <2>2. Ids(RemoveAt(b, j)) = RemoveAt(Ids(b), j)
        BY <1>1, <2>1, IdsRemove
    <2>3. Len(a) + j \in 1 .. Len(Ids(a) \o Ids(b))
          /\ RemoveAt(Ids(a) \o Ids(b), Len(a) + j) = Ids(a) \o RemoveAt(Ids(b), j)
        BY <1>1, <2>0, RemoveFromSecond
    <2>4. AbsReady(tb)[Len(a) + j] = b[j].co
        BY <1>1, <1>3, <2>1 DEF Joined
    <2> QED  BY <1>1, <1>2, <1>4, <1>6, <2>1, <2>2, <2>3, <2>4 DEF a, b
<1> QED  BY <1>5, <1>6

---------------------------------------------------------------------------
(* Where the contract's state comes from.                                  *)
LEMMA Mapped ==
    /\ AbsWaiting(tab, dco) =
           [c \in {x \in Callouts : Waiting(x)} |->
               [t |-> dco[c].t, m |-> IF dco[c].m = NoMsec THEN 0 ELSE dco[c].m]]
    /\ AbsReady(tab) = Ids(tab.list[Running] \o tab.list[Immediate])
<1>1. WaitSet(tab) = {x \in Callouts : Waiting(x)}
    BY WaitingIs DEF WaitSet
<1> QED  BY <1>1 DEF AbsWaiting, AbsReady, Stamp

(* A table with the same places and the same lists to be run stands for    *)
(* the same state.                                                         *)
LEMMA SameAbs ==
    ASSUME NEW tb, NEW new, NEW d, SameIn(new, tb),
           new.list[Running] = tb.list[Running], new.list[Immediate] = tb.list[Immediate]
    PROVE  AbsWaiting(new, d) = AbsWaiting(tb, d) /\ AbsReady(new) = AbsReady(tb)
<1>1. WaitSet(new) = WaitSet(tb)
    BY SlotsEverywhere DEF SameIn, WaitSet
<1> QED  BY <1>1 DEF AbsWaiting, AbsReady

(* The collected callouts become the running ones: nobody can tell.        *)
LEMMA OverAbs ==
    ASSUME NEW tb \in Table, NEW new \in Table, NEW d,
           WentOver(new, tb, Immediate, Running), tb.list[Running] = << >>,
           new.list[Running] = tb.list[Immediate], new.list[Immediate] = << >>
    PROVE  AbsWaiting(new, d) = AbsWaiting(tb, d) /\ AbsReady(new) = AbsReady(tb)
<1>1. WaitSet(new) = WaitSet(tb)
    BY SlotsEverywhere DEF WentOver, WaitSet
<1>2. tb.list[Immediate] \in Seq(Element)
    BY ReadyIs
<1>3. new.list[Running] \o new.list[Immediate] = tb.list[Running] \o tb.list[Immediate]
    BY <1>2
<1> QED  BY <1>1, <1>3 DEF AbsWaiting, AbsReady

---------------------------------------------------------------------------
(* The steps of the contract, from the waiting callouts w and the ready    *)
(* ones r to w2 and r2.                                                    *)

Calls(c, w, r, w2, r2) ==
    /\ c \notin DOMAIN w /\ c \notin Contract!ToSet(r)
    /\ \/ r2 = Append(r, c) /\ w2 = w
       \/ \E due \in Dues :
              /\ w2 = [x \in DOMAIN w \cup {c} |-> IF x = c THEN due ELSE w[x]]
              /\ r2 = r

Cancels(c, w, r, w2, r2) ==
    \/ c \in DOMAIN w /\ w2 = Contract!Restrict(w, DOMAIN w \ {c}) /\ r2 = r
    \/ \E k \in DOMAIN r : r[k] = c /\ r2 = Contract!RemoveAt(r, k) /\ w2 = w

Expires(s, k, w, r, w2, r2) ==
    /\ \A c \in Contract!ToSet(s) :
          /\ w[c].t * MSECS + w[c].m <= k.t * MSECS + k.m
          /\ \A d \in DOMAIN w \ Contract!ToSet(s) : w[c].t <= w[d].t
    /\ w2 = Contract!Restrict(w, DOMAIN w \ Contract!ToSet(s))
    /\ r2 = r \o s

Runs(w, r, w2, r2) == r # << >> /\ r2 = Tail(r) /\ w2 = w

AbsStep(k, w, r, w2, r2) ==
    \/ w2 = w /\ r2 = r
    \/ \E c \in Callouts : Calls(c, w, r, w2, r2) \/ Cancels(c, w, r, w2, r2)
    \/ \E S \in SUBSET DOMAIN w : \E s \in Contract!SetToSeqs(S) : Expires(s, k, w, r, w2, r2)
    \/ Runs(w, r, w2, r2)

(* A step that is one of them, and lets the time alone unless it is        *)
(* nothing else, is a step of the contract.                                *)
LEMMA Connected ==
    ASSUME AbsStep(clock, AbsWaiting(tab, dco), AbsReady(tab),
                   AbsWaiting(tab', dco'), AbsReady(tab')),
           clock' = clock
    PROVE  [Contract!CNext]_(Contract!cvars)
<1> DEFINE w == AbsWaiting(tab, dco)
           r == AbsReady(tab)
           w2 == AbsWaiting(tab', dco')
           r2 == AbsReady(tab')
<1>1. w = [c \in {x \in Callouts : Waiting(x)} |->
               [t |-> dco[c].t, m |-> IF dco[c].m = NoMsec THEN 0 ELSE dco[c].m]]
      /\ r = Ids(tab.list[Running] \o tab.list[Immediate])
    BY Mapped
<1>2. w2 = [c \in {x \in Callouts : Waiting(x)} |->
               [t |-> dco[c].t, m |-> IF dco[c].m = NoMsec THEN 0 ELSE dco[c].m]]'
      /\ r2 = Ids(tab.list[Running] \o tab.list[Immediate])'
    <2>1. WaitSet(tab') = {x \in Callouts : Waiting(x)'}
        BY WaitingIs DEF WaitSet
    <2> QED  BY <2>1 DEF AbsWaiting, AbsReady, Stamp
<1> HIDE DEF w, r, w2, r2
<1>3. CASE w2 = w /\ r2 = r
    BY <1>1, <1>2, <1>3 DEF Contract!cvars
<1>4. ASSUME NEW c \in Callouts, Calls(c, w, r, w2, r2)
      PROVE  Contract!Call(c)
    BY <1>1, <1>2, <1>4, ZenonT(60) DEF Contract!Call, Contract!Live, Calls
<1>5. ASSUME NEW c \in Callouts, Cancels(c, w, r, w2, r2)
      PROVE  Contract!Cancel(c)
    BY <1>1, <1>2, <1>5 DEF Contract!Cancel, Cancels
<1>6. ASSUME NEW S \in SUBSET DOMAIN w, NEW s \in Contract!SetToSeqs(S),
             Expires(s, clock, w, r, w2, r2)
      PROVE  Contract!CNext
    <2>1. Contract!Expire(s)
        BY <1>1, <1>2, <1>6 DEF Contract!Expire, Contract!Reached, Expires
    <2> QED  BY <1>1, <2>1 DEF Contract!CNext
<1>7. CASE Runs(w, r, w2, r2)
    <2>1. Contract!Run
        BY <1>1, <1>2, <1>7 DEF Contract!Run, Runs
    <2> QED  BY <2>1 DEF Contract!CNext
<1> QED  BY <1>3, <1>4, <1>5, <1>6, <1>7 DEF AbsStep, Contract!CNext, w, r, w2, r2

---------------------------------------------------------------------------
(* What the steps of the table are for the contract.                       *)

LEMMA ReadySet ==
    ASSUME NEW tb \in Table
    PROVE  \A c : c \in Contract!ToSet(AbsReady(tb))
                      <=> In(tb, c, Running) \/ In(tb, c, Immediate)
<1> DEFINE a == tb.list[Running]
           b == tb.list[Immediate]
           r == AbsReady(tb)
           m == Len(a)
           n == Len(b)
<1>1. /\ a \in Seq(Element) /\ b \in Seq(Element)
      /\ r \in Seq(Callouts) /\ Joined(r, Ids(a), Ids(b))
    BY ReadyIs
<1>2. \A c : /\ In(tb, c, Running) <=> Holds(a, c)
             /\ In(tb, c, Immediate) <=> Holds(b, c)
    BY InIs, ListNames
<1> HIDE DEF a, b, r
<1>3. \A c : /\ Holds(a, c) <=> \E k \in 1 .. m : a[k].co = c
             /\ Holds(b, c) <=> \E k \in 1 .. n : b[k].co = c
    BY <1>1, HoldsIs
<1>4. /\ Len(Ids(a)) = m /\ Len(Ids(b)) = n /\ m \in Nat /\ n \in Nat
      /\ \A k \in 1 .. m : Ids(a)[k] = a[k].co
      /\ \A k \in 1 .. n : Ids(b)[k] = b[k].co
    BY <1>1, IdsAre
<1>5. /\ DOMAIN r = 1 .. m + n
      /\ \A k \in 1 .. m : r[k] = a[k].co
      /\ \A k \in 1 .. n : r[m + k] = b[k].co
    BY <1>1, <1>4 DEF Joined
<1> HIDE DEF m, n
<1>6. ASSUME NEW c, c \in Contract!ToSet(r)
      PROVE  In(tb, c, Running) \/ In(tb, c, Immediate)
    <2>1. PICK k \in 1 .. m + n : r[k] = c
        BY <1>5, <1>6 DEF Contract!ToSet
    <2>2. k \in 1 .. m \/ \E i \in 1 .. n : k = m + i
        BY <1>4, Halves
    <2> QED  BY <1>2, <1>3, <1>5, <2>1, <2>2
<1>7. ASSUME NEW c, In(tb, c, Running) \/ In(tb, c, Immediate)
      PROVE  c \in Contract!ToSet(r)
    <2>1. (\E k \in 1 .. m : r[k] = c) \/ (\E k \in 1 .. n : r[m + k] = c)
        BY <1>2, <1>3, <1>5, <1>7
    <2>2. \A k \in 1 .. m : k \in 1 .. m + n
        BY <1>4
    <2>3. \A k \in 1 .. n : m + k \in 1 .. m + n
        BY <1>4
    <2> QED  BY <1>5, <2>1, <2>2, <2>3 DEF Contract!ToSet
<1> QED  BY <1>6, <1>7 DEF r

(* A new callout waits for its time, or is ready after all the others.     *)
LEMMA NewAbs ==
    ASSUME NEW tb \in Table, NEW new \in Table, NEW d \in Times, NEW c \in Callouts,
           NEW x, Stamp(x) \in Dues, \A m \in Everywhere : ~In(tb, c, m),
           NEW l \in Everywhere, Came(new, tb, c, l), NEW e, e = [d EXCEPT ![c] = x],
           new.list[Running] = tb.list[Running],
           \/ /\ l \in Slots \cup {Queue}
              /\ new.list[Immediate] = tb.list[Immediate]
           \/ /\ l = Immediate
              /\ \E y \in Element :
                    y.co = c /\ new.list[Immediate] = Append(tb.list[Immediate], y)
    PROVE  Calls(c, AbsWaiting(tb, d), AbsReady(tb), AbsWaiting(new, e), AbsReady(new))
<1>1. c \notin WaitSet(tb)
    BY SlotsEverywhere DEF WaitSet
<1>2. c \notin DOMAIN AbsWaiting(tb, d)
    BY <1>1 DEF AbsWaiting
<1>3. c \notin Contract!ToSet(AbsReady(tb))
    BY ReadySet, SlotsEverywhere
<1>4. \A b \in Callouts : b # c => e[b] = d[b]
    BY DEF Times
<1>5. e[c] = x
    BY DEF Times
<1>6. CASE l \in Slots \cup {Queue}
    <2>1. WaitSet(new) = WaitSet(tb) \cup {c}
        BY <1>6, SlotsEverywhere DEF WaitSet, Came
    <2>2. AbsReady(new) = AbsReady(tb)
        BY <1>6, SlotsEverywhere DEF AbsReady
    <2> DEFINE w == AbsWaiting(tb, d)
               f == [b \in DOMAIN w \cup {c} |-> IF b = c THEN Stamp(x) ELSE w[b]]
    <2>3. WaitSet(tb) \subseteq Callouts
        BY DEF WaitSet
    <2>4. AbsWaiting(new, e) = f
        BY <1>1, <1>4, <1>5, <2>1, <2>3 DEF AbsWaiting
    <2> QED  BY <1>2, <1>3, <2>2, <2>4 DEF Calls
<1>7. CASE l = Immediate
    <2>1. WaitSet(new) = WaitSet(tb)
        BY <1>7, SlotsEverywhere DEF WaitSet, Came
    <2>2. AbsWaiting(new, e) = AbsWaiting(tb, d)
        BY <1>1, <1>4, <2>1 DEF AbsWaiting, WaitSet
    <2>3. AbsReady(new) = Append(AbsReady(tb), c)
        BY <1>7, SlotsEverywhere, ReadyAppend
    <2> QED  BY <1>2, <1>3, <2>2, <2>3 DEF Calls
<1> QED  BY <1>6, <1>7

(* A callout that goes waited, or was among the ready.                     *)
GoneFrom(w, w2, c, l) ==
    /\ l \in Slots \cup {Queue} =>
          c \in DOMAIN w /\ w2 = Contract!Restrict(w, DOMAIN w \ {c})
    /\ l \notin Slots \cup {Queue} => w2 = w

LEMMA GoneAbs ==
    ASSUME NEW tb \in Table, NEW new \in Table, NEW d \in Times, NEW c \in Callouts,
           Placed(tb), NEW l \in Everywhere, In(tb, c, l), Went(new, tb, c),
           NEW e, e = [d EXCEPT ![c] = NoCallout]
    PROVE  GoneFrom(AbsWaiting(tb, d), AbsWaiting(new, e), c, l)
<1> DEFINE w == AbsWaiting(tb, d)
<1>1. \A b \in Callouts : b # c => e[b] = d[b]
    BY DEF Times
<1>2. WaitSet(new) = WaitSet(tb) \ {c}
    BY SlotsEverywhere DEF WaitSet, Went
<1>3. CASE l \in Slots \cup {Queue}
    <2>1. c \in WaitSet(tb)
        BY <1>3 DEF WaitSet
    <2>2. AbsWaiting(new, e) = Contract!Restrict(w, DOMAIN w \ {c})
        BY <1>1, <1>2 DEF AbsWaiting, WaitSet, Contract!Restrict
    <2> QED  BY <1>3, <2>1, <2>2 DEF AbsWaiting, GoneFrom
<1>4. CASE l \notin Slots \cup {Queue}
    <2>1. c \notin WaitSet(tb)
        BY <1>4, SlotsEverywhere DEF WaitSet, Placed
    <2>2. AbsWaiting(new, e) = w
        BY <1>1, <1>2, <2>1 DEF AbsWaiting, WaitSet
    <2> QED  BY <1>4, <2>2 DEF GoneFrom
<1> QED  BY <1>3, <1>4 DEF GoneFrom

LEMMA NewAbsStep ==
    ASSUME AInv, AInv', NEW c \in Callouts, NEW delay \in Delays, NEW mdelay \in Mdelays,
           New(c, delay, mdelay)
    PROVE  Calls(c, AbsWaiting(tab, dco), AbsReady(tab), AbsWaiting(tab', dco'), AbsReady(tab'))
<1> DEFINE r == IF UsesClock(tab, 0, delay, mdelay)
                THEN CoTime(tab, cotime, clock) ELSE [tab |-> tab, now |-> Zero]
           due == Due(r.tab, r.now, delay, mdelay)
           x == [live |-> TRUE, t |-> due.t, m |-> due.m]
<1>1. /\ ~dco[c].live
      /\ due.t < MaxSec \/ (due.t = MaxSec /\ due.m \in {NoMsec, 0})
      /\ dco' = [dco EXCEPT ![c] = x]
    BY DEF New
<1>2. /\ tab \in Table /\ dco \in Times /\ tab' \in Table /\ dco' \in Times
      /\ \A m \in Everywhere : ~In(tab, c, m)
    <2>1. tab \in Table /\ dco \in Times /\ Timed(tab, dco, pc = "pop")
        BY AInvFacts
    <2>2. tab' \in Table /\ dco' \in Times
        BY DEF AInv, IInv, TypeOK, Times
    <2> QED  BY <1>1, <2>1, <2>2 DEF Timed
<1> HIDE DEF due
<1>3. dco'[c] = x /\ x \in Dcallout
    BY <1>1, <1>2 DEF Times
<1>4. due.t \in Nat /\ due.m \in Msecs \cup {NoMsec}
    BY <1>3 DEF Dcallout
<1>5. Stamp(x) \in Dues
    <2>1. due.t \in 0 .. MaxSec
        BY <1>1, <1>4, LoopAssumption
    <2>2. 0 \in Msecs
        BY TableAssumption DEF Msecs
    <2> QED  BY <1>4, <2>1, <2>2 DEF Stamp, Dues
<1> HIDE DEF x
<1>6. PICK l \in Everywhere : Came(tab', tab, c, l) /\ Listed(tab', tab, c, l)
    BY NewStep
<1>7. tab.list \in AllLists /\ DOMAIN tab.list = Lists
    BY <1>2, TableFields DEF AllLists
<1>8. CASE l = Queue
    <2>1. tab'.list = tab.list
        BY <1>6, <1>8 DEF Listed
    <2> QED  BY <1>1, <1>2, <1>5, <1>6, <1>8, <2>1, NewAbs
<1>9. CASE l # Queue
    <2>1. PICK i \in Index :
              tab'.list = [tab.list EXCEPT ![l] = Append(@, [co |-> c, at |-> i])]
        BY <1>6, <1>9 DEF Listed
    <2>2. l \in Lists /\ l # Running
        BY <1>6, <1>9 DEF Listed, Everywhere
    <2>3. tab'.list[Running] = tab.list[Running]
        BY <1>7, <2>1, <2>2, ListNames
    <2>4. CASE l = Immediate
        <3>1. tab'.list[Immediate] = Append(tab.list[Immediate], [co |-> c, at |-> i])
            BY <1>7, <2>1, <2>4, ListNames
        <3>2. [co |-> c, at |-> i] \in Element
            BY DEF Element
        <3> QED  BY <1>1, <1>2, <1>5, <1>6, <2>3, <2>4, <3>1, <3>2, NewAbs
    <2>5. CASE l \in Slots
        <3>1. tab'.list[Immediate] = tab.list[Immediate]
            BY <1>7, <2>1, <2>5, ListNames, SlotsEverywhere
        <3> QED  BY <1>1, <1>2, <1>5, <1>6, <2>3, <2>5, <3>1, NewAbs
    <2> QED  BY <1>9, <2>2, <2>4, <2>5, SlotsEverywhere
<1> QED  BY <1>8, <1>9

(* What freecallout() does to the lists.                                   *)
LEMMA FreeLists ==
    ASSUME NEW tb \in Table, NEW l \in Lists, NEW k, NEW t, NEW new,
           new = FreeCallout(tb, l, k, t)
    PROVE  /\ new.list[l] = RemoveAt(tb.list[l], k)
           /\ \A m \in Lists : m # l => new.list[m] = tb.list[m]
<1>1. new.list = [tb.list EXCEPT ![l] = RemoveAt(@, k)]
    BY DEF FreeCallout, Table
<1>2. DOMAIN tb.list = Lists
    BY TableFields DEF AllLists
<1> QED  BY <1>1, <1>2

LEMMA DelAbsStep ==
    ASSUME AInv, AInv', NEW c \in Callouts, Del(c)
    PROVE  Cancels(c, AbsWaiting(tab, dco), AbsReady(tab), AbsWaiting(tab', dco'), AbsReady(tab'))
<1> DEFINE tb == CoTime(tab, cotime, clock).tab
           l == DelList(tb, c, dco[c].t, dco[c].m)
           j == Position(tb.list[l], c)
           w == AbsWaiting(tab, dco)
<1>1. /\ ~Expiring /\ InThread /\ dco[c].live
      /\ tab' = CoDel(tb, c, dco[c].t, dco[c].m)
      /\ dco' = [dco EXCEPT ![c] = NoCallout]
    BY ThreadNotExpiring DEF Del
<1>2. /\ tab \in Table /\ dco \in Times /\ tab' \in Table /\ Placed(tab)
    <2>1. tab \in Table /\ dco \in Times /\ Sound(tab)
        BY AInvFacts
    <2>2. tab' \in Table
        BY DEF AInv, IInv, TypeOK
    <2> QED  BY <2>1, <2>2 DEF Sound
<1>3. Agree(tb, dco) /\ SameIn(tb, tab) /\ tb.list = tab.list
    BY <1>1, ThreadTime
<1> HIDE DEF tb
<1>4. Sound(tb) /\ Timed(tb, dco, FALSE) /\ tb \in Table
    BY <1>3 DEF Agree, Sound, Good
<1>5. l \in Everywhere /\ In(tb, c, l) /\ In(tab, c, l)
    <2>1. l \in Everywhere /\ In(tb, c, l)
        BY <1>1, <1>2, <1>4, DelFinds
    <2> QED  BY <1>3, <2>1 DEF SameIn
<1>6. Went(tab', tab, c)
    BY DelStep
<1>7. /\ l \in Slots \cup {Queue} =>
            /\ c \in DOMAIN w
            /\ AbsWaiting(tab', dco') = Contract!Restrict(w, DOMAIN w \ {c})
      /\ l \notin Slots \cup {Queue} => AbsWaiting(tab', dco') = w
    <2> HIDE DEF l
    <2>1. GoneFrom(w, AbsWaiting(tab', dco'), c, l)
        BY <1>1, <1>2, <1>5, <1>6, GoneAbs
    <2> HIDE DEF w
    <2> QED  BY <2>1 DEF GoneFrom
<1>8. l # Queue => tab' = FreeCallout(tb, l, j, IF l \in Slots THEN dco[c].t ELSE 0)
    BY <1>1 DEF CoDel
<1>9. l = Queue => tab'.list = tab.list
    <2>1. l = Queue => tab'.list = tb.list
        BY <1>1, <1>4 DEF CoDel, Table
    <2> QED  BY <1>3, <2>1
<1> HIDE DEF l, j, w
<1>10. ASSUME l # Queue
       PROVE  /\ l \in Lists
              /\ tab'.list[l] = RemoveAt(tab.list[l], j)
              /\ \A m \in Lists : m # l => tab'.list[m] = tab.list[m]
    <2>1. l \in Lists
        BY <1>5, <1>10 DEF Everywhere
    <2> QED  BY <1>3, <1>4, <1>8, <1>10, <2>1, FreeLists
<1>11. CASE l \in Slots \cup {Queue}
    <2>1. tab'.list[Running] = tab.list[Running] /\ tab'.list[Immediate] = tab.list[Immediate]
        BY <1>9, <1>10, <1>11, SlotsEverywhere, ListNames
    <2>2. AbsReady(tab') = AbsReady(tab)
        BY <2>1 DEF AbsReady
    <2> QED  BY <1>7, <1>11, <2>2 DEF Cancels, w
<1>12. CASE l \in {Running, Immediate}
    <2>1. l # Queue /\ l \notin Slots \cup {Queue}
        BY <1>12, SlotsEverywhere
    <2>2. j \in 1 .. Len(tab.list[l]) /\ tab.list[l][j].co = c
        <3>1. tab.list[l] \in Seq(Element) /\ Holds(tab.list[l], c)
            BY <1>2, <1>5, <1>10, <2>1, TableFields, ListLengths, InIs
        <3> QED  BY <1>3, <3>1, PositionIs DEF j
    <2> DEFINE p == IF l = Running THEN j ELSE Len(tab.list[Running]) + j
    <2>3. /\ p \in 1 .. Len(AbsReady(tab)) /\ AbsReady(tab)[p] = c
          /\ AbsReady(tab') = RemoveAt(AbsReady(tab), p)
        BY <1>2, <1>10, <1>12, <2>1, <2>2, ListNames, ReadyRemove
    <2>4. AbsReady(tab) \in Seq(Callouts)
        BY <1>2, ReadyIs
    <2> HIDE DEF p
    <2>5. p \in DOMAIN AbsReady(tab)
        BY <2>3, <2>4
    <2>6. AbsReady(tab') = Contract!RemoveAt(AbsReady(tab), p)
        BY <2>3 DEF RemoveAt, Contract!RemoveAt
    <2> QED  BY <1>7, <2>1, <2>3, <2>5, <2>6 DEF Cancels, w
<1> QED  BY <1>5, <1>11, <1>12, SlotsEverywhere

LEMMA RunAbsStep ==
    ASSUME AInv, AInv', Run
    PROVE  Runs(AbsWaiting(tab, dco), AbsReady(tab), AbsWaiting(tab', dco'), AbsReady(tab'))
<1> DEFINE c == Head(tab.list[Running]).co
           r == AbsReady(tab)
<1>1. /\ pc = "run" /\ tab.list[Running] # << >>
      /\ tab' = FreeCallout(tab, Running, 1, 0)
      /\ dco' = [dco EXCEPT ![c] = NoCallout]
    BY DEF Run
<1>2. tab \in Table /\ dco \in Times /\ tab' \in Table /\ Placed(tab)
    <2>1. tab \in Table /\ dco \in Times /\ Sound(tab)
        BY AInvFacts
    <2>2. tab' \in Table
        BY DEF AInv, IInv, TypeOK
    <2> QED  BY <2>1, <2>2 DEF Sound
<1>3. tab.list[Running] \in Seq(Element)
    BY <1>2, ReadyIs
<1>4. 1 \in 1 .. Len(tab.list[Running]) /\ c = tab.list[Running][1].co
    BY <1>1, <1>3
<1>5. Went(tab', tab, c) /\ c \in Callouts
    BY RunStep
<1> HIDE DEF c
<1>6. In(tab, c, Running)
    BY <1>3, <1>4, HoldsIs, InIs, ListNames
<1>7. AbsWaiting(tab', dco') = AbsWaiting(tab, dco)
    <2>1. Running \in Everywhere /\ Running \notin Slots \cup {Queue}
        BY SlotsEverywhere
    <2>2. GoneFrom(AbsWaiting(tab, dco), AbsWaiting(tab', dco'), c, Running)
        BY <1>1, <1>2, <1>5, <1>6, <2>1, GoneAbs
    <2> QED  BY <2>1, <2>2 DEF GoneFrom
<1>8. /\ 1 \in 1 .. Len(r) /\ AbsReady(tab') = RemoveAt(r, 1)
    <2>1. tab'.list[Running] = RemoveAt(tab.list[Running], 1)
          /\ tab'.list[Immediate] = tab.list[Immediate]
        BY <1>1, <1>2, ListNames, FreeLists
    <2> QED  BY <1>2, <1>4, <2>1, ListNames, ReadyRemove
<1>9. r \in Seq(Callouts)
    BY <1>2, ReadyIs
<1> HIDE DEF r
<1>10. r # << >> /\ RemoveAt(r, 1) = Tail(r)
    <2>1. r # << >>
        BY <1>8, <1>9
    <2>2. SubSeq(r, 1, 0) = << >> /\ Tail(r) = SubSeq(r, 2, Len(r)) /\ Tail(r) \in Seq(Callouts)
        BY <1>9, <2>1, SubSeqEmpty, TailIsSubSeq, HeadTailProperties
    <2>3. << >> \o Tail(r) = Tail(r)
        BY <2>2, ConcatEmptySeq
    <2> QED  BY <2>1, <2>2, <2>3 DEF RemoveAt
<1> QED  BY <1>7, <1>8, <1>10 DEF Runs, r

LEMMA SameCardinality ==
    ASSUME NEW S
    PROVE  Contract!Cardinality(S) = Cardinality(S)
BY DEF Contract!Cardinality, Cardinality

(* Different callouts, in some order, are a sequence of their set.         *)
LEMMA SeqOfSet ==
    ASSUME NEW s \in Seq(Callouts),
           \A i \in 1 .. Len(s), j \in 1 .. Len(s) : s[i] = s[j] => i = j
    PROVE  s \in Contract!SetToSeqs(Contract!ToSet(s))
<1> DEFINE S == Contract!ToSet(s)
           n == Len(s)
<1>1. n \in Nat /\ DOMAIN s = 1 .. n /\ S = {s[k] : k \in 1 .. n} /\ s \in [1 .. n -> S]
    BY DEF Contract!ToSet
<1> HIDE DEF S
<1>2. s \in Bijection(1 .. n, S)
    BY <1>1 DEF Bijection, Injection, Surjection, IsInjective
<1>3. \A i \in 1 .. n, j \in 1 .. n : i # j => s[i] # s[j]
    OBVIOUS
<1> HIDE DEF n
<1>4. Cardinality(S) = n
    BY <1>1, <1>2, FS_CountingElements DEF ExistsBijection
<1>5. Contract!Cardinality(S) = n
    BY <1>4, SameCardinality
<1> QED  BY <1>1, <1>3, <1>5 DEF Contract!SetToSeqs, S

(* The callouts s, all of which have come and none of which is due after   *)
(* one that still waits, become ready.                                     *)
LEMMA ExpireAbs ==
    ASSUME NEW tb, NEW new, NEW d, NEW k, NEW s \in Seq(Callouts),
           \A i \in 1 .. Len(s), j \in 1 .. Len(s) : s[i] = s[j] => i = j,
           NEW S, S = Contract!ToSet(s), S \subseteq WaitSet(tb),
           WaitSet(new) = WaitSet(tb) \ S,
           \A c \in S : /\ Units(Stamp(d[c])) <= Units(k)
                        /\ \A b \in WaitSet(tb) \ S : d[c].t <= d[b].t,
           AbsReady(new) = AbsReady(tb) \o s
    PROVE  AbsStep(k, AbsWaiting(tb, d), AbsReady(tb), AbsWaiting(new, d), AbsReady(new))
<1> DEFINE w == AbsWaiting(tb, d)
<1>1. s \in Contract!SetToSeqs(S)
    BY SeqOfSet
<1>2. DOMAIN w = WaitSet(tb) /\ \A c \in WaitSet(tb) : w[c] = Stamp(d[c])
    BY DEF AbsWaiting
<1>3. AbsWaiting(new, d) = Contract!Restrict(w, DOMAIN w \ S)
    BY <1>2 DEF AbsWaiting, Contract!Restrict
<1> HIDE DEF w
<1>4. \A c \in WaitSet(tb) : w[c].t = d[c].t
    BY <1>2 DEF Stamp
<1>5. ASSUME NEW c \in S
      PROVE  /\ w[c].t * MSECS + w[c].m <= k.t * MSECS + k.m
             /\ \A b \in DOMAIN w \ S : w[c].t <= w[b].t
    <2>1. c \in WaitSet(tb)
        OBVIOUS
    <2>2. w[c].t * MSECS + w[c].m <= k.t * MSECS + k.m
        BY <1>2, <2>1 DEF Units
    <2>3. \A b \in DOMAIN w \ S : w[c].t <= w[b].t
        BY <1>2, <1>4, <2>1
    <2> QED  BY <2>2, <2>3
<1>6. Expires(s, k, w, AbsReady(tb), AbsWaiting(new, d), AbsReady(new))
    BY <1>3, <1>5 DEF Expires
<1>7. S \in SUBSET DOMAIN w
    BY <1>2
<1> QED  BY <1>1, <1>6, <1>7 DEF AbsStep, w

LEMMA StampType ==
    ASSUME NEW x \in Dcallout
    PROVE  Stamp(x) \in Time /\ Stamp(x).t = x.t /\ (x.m = NoMsec => Stamp(x).m = 0)
BY TableAssumption DEF Stamp, Dcallout, Time, Msecs

LEMMA StepTypes ==
    ASSUME AInv, AInv'
    PROVE  /\ tab \in Table /\ tab' \in Table /\ dco \in Times /\ clock \in Time
           /\ Placed(tab) /\ Timed(tab, dco, pc = "pop")
<1>1. tab' \in Table
    BY DEF AInv, IInv, TypeOK
<1> QED  BY <1>1, AInvFacts DEF Sound

LEMMA FromQueueAbsStep ==
    ASSUME AInv, AInv', FromQueue
    PROVE  AbsStep(clock, AbsWaiting(tab, dco), AbsReady(tab), AbsWaiting(tab', dco'), AbsReady(tab'))
<1> DEFINE b == tab.queue[1].co
           t == tab.queue[1].t
           s == << b >>
           S == Contract!ToSet(s)
<1>1. /\ b \in Callouts /\ dco[b].t = t /\ t <= now.t /\ In(tab, b, Queue)
      /\ pc = "pop" => t < tab.timestamp
      /\ \A d \in Callouts, m \in Everywhere :
             In(tab', d, m) <=> IF d = b THEN m = Immediate ELSE In(tab, d, m)
    BY FromQueueStep
<1>2. /\ tab.queue # << >> /\ Expiring /\ dco' = dco /\ now = clock
      /\ pc = "pop" => tab.timestamp <= now.t
      /\ pc = "pop" \/ (pc = "expire" /\ NotAfter(tab.queue[1], now))
    BY DEF FromQueue, Expiring, AInv, ExpiresNow
<1>3. /\ tab \in Table /\ tab' \in Table /\ dco \in Times /\ clock \in Time
      /\ Timed(tab, dco, pc = "pop") /\ tab.queue \in Seq(QueueEntry)
    BY StepTypes, TableFields
<1>4. tab.queue[1] = Entry(b, dco[b])
    <2>1. 1 \in 1 .. Len(tab.queue)
        BY <1>2, <1>3
    <2> QED  BY <1>3, <2>1 DEF Timed
<1>5. dco[b] \in Dcallout
    BY <1>1, <1>3 DEF Times
<1>6. PICK i \in NewIndices(tab) : tab' = ExpireFirst(tab, i)
    BY DEF FromQueue
<1>7. AbsReady(tab') = AbsReady(tab) \o s
    <2> DEFINE x == [co |-> b, at |-> i]
    <2>1. tab'.list = [tab.list EXCEPT ![Immediate] = Append(@, x)]
        BY <1>3, <1>6 DEF ExpireFirst, NewCallout, Table
    <2>2. x \in Element
        BY <1>1, <1>3, <1>6, NewIndicesType DEF Element
    <2>3. x.co = b
        OBVIOUS
    <2> HIDE DEF x
    <2>4. /\ tab'.list[Running] = tab.list[Running]
          /\ tab'.list[Immediate] = Append(tab.list[Immediate], x)
        BY <1>3, <2>1, TableFields, ListNames DEF AllLists
    <2>5. AbsReady(tab') = Append(AbsReady(tab), b)
        BY <1>3, <2>2, <2>3, <2>4, ReadyAppend
    <2> QED  BY <1>1, <1>3, <2>5, ReadyIs, AppendIsConcat
<1> HIDE DEF b, t
<1>8. S = {b} /\ s \in Seq(Callouts) /\ Len(s) = 1
    BY <1>1 DEF Contract!ToSet
<1>9. WaitSet(tab') = WaitSet(tab) \ S /\ S \subseteq WaitSet(tab)
    <2>1. b \in WaitSet(tab)
        BY <1>1 DEF WaitSet
    <2>2. WaitSet(tab') = WaitSet(tab) \ {b}
        BY <1>1, SlotsEverywhere DEF WaitSet
    <2> QED  BY <1>8, <2>1, <2>2
<1>10. Units(Stamp(dco[b])) <= Units(clock)
    <2>1. /\ Stamp(dco[b]) \in Time /\ Stamp(dco[b]).t = t
          /\ tab.queue[1].t = Stamp(dco[b]).t /\ tab.queue[1].m = Stamp(dco[b]).m
        BY <1>1, <1>4, <1>5, StampType DEF Entry, Stamp
    <2>2. /\ t \in Nat /\ tab.timestamp \in Nat /\ clock.t \in Nat
        BY <1>3, <2>1, TableFields DEF Time
    <2>3. NotAfter(Stamp(dco[b]), clock)
        <3>1. CASE pc = "pop"
            <4>1. t < clock.t
                BY <1>1, <1>2, <2>2, <3>1
            <4> QED  BY <2>1, <2>2, <4>1 DEF NotAfter, Later
        <3>2. CASE NotAfter(tab.queue[1], now)
            BY <1>2, <2>1, <3>2 DEF NotAfter, Later
        <3> QED  BY <1>2, <3>1, <3>2
    <2> QED  BY <1>3, <2>1, <2>3, UnitsFollow
<1>11. \A d \in WaitSet(tab) : dco[b].t <= dco[d].t
    <2>1. \A d \in WaitSet(tab) : d \in Callouts /\ Waiting(d)
        BY WaitingIs DEF WaitSet
    <2> QED  BY <1>1, <2>1, QueueFirst DEF t
<1> HIDE DEF s, S
<1>12. \A j \in 1 .. Len(s), k \in 1 .. Len(s) : s[j] = s[k] => j = k
    BY <1>8
<1> QED  BY <1>2, <1>7, <1>8, <1>9, <1>10, <1>11, <1>12, ExpireAbs DEF S

LEMMA FromCycbufAbsStep ==
    ASSUME AInv, AInv', FromCycbuf
    PROVE  AbsStep(clock, AbsWaiting(tab, dco), AbsReady(tab), AbsWaiting(tab', dco'), AbsReady(tab'))
<1> DEFINE l == Slot(tab.timestamp)
           q == tab.list[l]
           s == Ids(q)
           S == Contract!ToSet(s)
<1>1. /\ WentOver(tab', tab, l, Immediate)
      /\ l \in Slots /\ tab.timestamp <= now.t
      /\ \A c \in Callouts : In(tab, c, l) => dco[c].t = tab.timestamp
    BY FromCycbufStep
<1>2. /\ tab' = ExpireSlot(tab) /\ dco' = dco /\ now = clock
    BY DEF FromCycbuf, Expiring, AInv, ExpiresNow
<1>3. /\ tab \in Table /\ tab' \in Table /\ dco \in Times /\ clock \in Time
      /\ Placed(tab) /\ Timed(tab, dco, pc = "pop")
    BY StepTypes
<1>4. tab'.list = [tab.list EXCEPT ![l] = << >>,
                                   ![Immediate] = tab.list[Immediate] \o tab.list[l]]
    BY <1>2, <1>3 DEF ExpireSlot, Table
<1> HIDE DEF l
<1>5. q \in Seq(Element) /\ l \in Lists /\ tab.list \in AllLists
    BY <1>1, <1>3, TableFields, ListLengths, ListNames
<1>6. AbsReady(tab') = AbsReady(tab) \o s
    <2>1. /\ tab'.list[Running] = tab.list[Running]
          /\ tab'.list[Immediate] = tab.list[Immediate] \o q
        BY <1>1, <1>4, <1>5, SlotsEverywhere, ListNames DEF AllLists
    <2> HIDE DEF q
    <2> QED  BY <1>3, <1>5, <2>1, ReadyConcat
<1>7. s \in Seq(Callouts) /\ Len(s) = Len(q) /\ Len(q) \in Nat
      /\ \A k \in 1 .. Len(q) : s[k] = q[k].co
    BY <1>5, IdsAre
<1>8. \A i \in 1 .. Len(s), j \in 1 .. Len(s) : s[i] = s[j] => i = j
    BY <1>3, <1>5, <1>7 DEF Placed, Apart
<1>9. S \subseteq Callouts /\ \A c \in Callouts : c \in S <=> In(tab, c, l)
    <2>1. \A c : In(tab, c, l) <=> \E k \in 1 .. Len(q) : q[k].co = c
        BY <1>5, InIs, HoldsIs
    <2> HIDE DEF q, s
    <2>2. S = {s[k] : k \in 1 .. Len(s)}
        BY <1>7 DEF Contract!ToSet
    <2> QED  BY <1>7, <2>1, <2>2
<1> HIDE DEF s, S, q
<1>10. WaitSet(tab') = WaitSet(tab) \ S /\ S \subseteq WaitSet(tab)
    <2>1. S \subseteq WaitSet(tab)
        BY <1>1, <1>9 DEF WaitSet
    <2>2. ASSUME NEW c \in Callouts
          PROVE  c \in WaitSet(tab') <=> c \in WaitSet(tab) /\ c \notin S
        <3>1. \A m \in Everywhere, k \in Everywhere : In(tab, c, m) /\ In(tab, c, k) => m = k
            BY <1>3 DEF Placed
        <3>2. \A m \in Slots \cup {Queue} : In(tab', c, m) <=> m # l /\ In(tab, c, m)
            BY <1>1, SlotsEverywhere DEF WentOver
        <3> QED  BY <1>1, <1>9, <3>1, <3>2, SlotsEverywhere DEF WaitSet
    <2>3. WaitSet(tab') \subseteq Callouts /\ WaitSet(tab) \subseteq Callouts
        BY DEF WaitSet
    <2> QED  BY <2>1, <2>2, <2>3
<1>11. ASSUME NEW c \in S
       PROVE  /\ Units(Stamp(dco[c])) <= Units(clock)
              /\ \A b \in WaitSet(tab) \ S : dco[c].t <= dco[b].t
    <2>1. c \in Callouts /\ In(tab, c, l) /\ dco[c].t = tab.timestamp
        BY <1>1, <1>9
    <2>2. dco[c] \in Dcallout /\ dco[c].m = NoMsec
        BY <1>1, <1>3, <2>1 DEF Timed, InWindow, Times
    <2>3. Stamp(dco[c]) \in Time /\ Stamp(dco[c]).t = tab.timestamp /\ Stamp(dco[c]).m = 0
        BY <2>1, <2>2, StampType
    <2>4. tab.timestamp \in Nat /\ clock.t \in Nat /\ clock.m \in Nat
        BY <1>3, TableFields DEF Time, Msecs
    <2>5. NotAfter(Stamp(dco[c]), clock)
        BY <1>1, <1>2, <2>3, <2>4 DEF NotAfter, Later
    <2>6. \A b \in WaitSet(tab) : b \in Callouts /\ Waiting(b)
        BY WaitingIs DEF WaitSet
    <2> QED  BY <1>3, <2>1, <2>3, <2>5, <2>6, UnitsFollow, SlotFirst
<1> QED  BY <1>2, <1>6, <1>7, <1>8, <1>10, <1>11, ExpireAbs DEF S

(* The steps that the contract does not speak of.                          *)
LEMMA QuietStep ==
    ASSUME ~Copying, AInv, AInv',
           \/ Query \/ RebuildLater \/ Rebuild \/ Delay \/ NextSecond
           \/ NoneExpired \/ Collected
    PROVE  AbsWaiting(tab', dco') = AbsWaiting(tab, dco) /\ AbsReady(tab') = AbsReady(tab)
<1>1. tab \in Table /\ tab' \in Table /\ dco \in Times /\ dco' = dco
    BY StepTypes DEF Query, RebuildLater, Rebuild, Delay, NextSecond, NoneExpired, Collected
<1>2. CASE Query \/ RebuildLater \/ Rebuild \/ Delay
    <2>1. SameIn(tab', tab)
        BY <1>2, QueryStep, LoopTimeStep
    <2>2. (InThread \/ cotime = << >>) /\ ~Expiring /\ tab' = CoTime(tab, cotime, clock).tab
        BY <1>2, ThreadNotExpiring
           DEF Query, RebuildLater, Rebuild, Delay, AInv, CachedTime, Expiring, InThread, Threads
    <2>3. tab'.list = tab.list
        BY <2>2, ThreadTime
    <2> QED  BY <1>1, <2>1, <2>3, SameAbs
<1>3. CASE NextSecond
    <2>1. SameIn(tab', tab)
        BY <1>3, NextSecondStep
    <2>2. tab'.list = tab.list
        BY <1>1, <1>3 DEF NextSecond, Table
    <2> QED  BY <1>1, <2>1, <2>2, SameAbs
<1>4. CASE NoneExpired \/ Collected
    <2>1. WentOver(tab', tab, Immediate, Running)
        BY <1>4, NoneExpiredStep, CollectedStep
    <2>2. tab.list[Running] = << >>
        BY <1>4 DEF NoneExpired, Collected, AInv, IInv, NothingRuns, Expiring
    <2>3. tab'.list = [tab.list EXCEPT ![Running] = tab.list[Immediate], ![Immediate] = << >>]
        BY <1>1, <1>4 DEF NoneExpired, Collected, StartRunning, ExpireTimeout, Table
    <2>4. tab'.list[Running] = tab.list[Immediate] /\ tab'.list[Immediate] = << >>
        BY <1>1, <2>3, TableFields, ListNames DEF AllLists
    <2> QED  BY <1>1, <2>1, <2>2, <2>4, OverAbs
<1> QED  BY <1>2, <1>3, <1>4

---------------------------------------------------------------------------
(* The refinement.                                                         *)

LEMMA InitContract == Init => Contract!CInit
<1> SUFFICES ASSUME Init  PROVE Contract!CInit
    OBVIOUS
<1>1. tab = EmptyTable /\ clock = Zero
    BY DEF Init
<1>2. \A c : \A l \in Everywhere : ~In(tab, c, l)
    BY <1>1, TableAssumption DEF EmptyTable, In, Holds, Everywhere
<1>3. {x \in Callouts : Waiting(x)} = {}
    BY <1>2, WaitingIs, SlotsEverywhere
<1>4. [c \in {x \in Callouts : Waiting(x)} |->
           [t |-> dco[c].t, m |-> IF dco[c].m = NoMsec THEN 0 ELSE dco[c].m]] = << >>
    BY <1>3
<1>5. tab.list[Running] = << >> /\ tab.list[Immediate] = << >>
    BY <1>1, ListNames DEF EmptyTable
<1>6. << >> \o << >> = << >>
    OBVIOUS
<1>7. Ids(tab.list[Running] \o tab.list[Immediate]) = << >>
    BY <1>5, <1>6 DEF Ids
<1> QED  BY <1>1, <1>4, <1>7 DEF Contract!CInit, Zero

LEMMA NextContract == ~Copying /\ AInv /\ AInv' /\ [Next]_vars => [Contract!CNext]_(Contract!cvars)
<1> SUFFICES ASSUME ~Copying, AInv, AInv', [Next]_vars
             PROVE  [Contract!CNext]_(Contract!cvars)
    OBVIOUS
<1> DEFINE w == AbsWaiting(tab, dco)
           r == AbsReady(tab)
           w2 == AbsWaiting(tab', dco')
           r2 == AbsReady(tab')
<1>1. ASSUME AbsStep(clock, w, r, w2, r2), clock' = clock
      PROVE  [Contract!CNext]_(Contract!cvars)
    BY <1>1, Connected
<1>2. CASE Tick \/ TurnBack
    <2>1. tab' = tab /\ dco' = dco
        BY <1>2 DEF Tick, TurnBack
    <2>2. clock' \in Time
        BY DEF AInv, IInv, TypeOK
    <2>3. \A x : Waiting(x)' <=> Waiting(x)
        BY <2>1 DEF Waiting, InSlot, InQueue, InList
    <2>4. Contract!Clock
        BY <2>1, <2>2, <2>3 DEF Contract!Clock, Time, Msecs
    <2> QED  BY <2>4 DEF Contract!CNext
<1>3. ASSUME UNCHANGED << tab, dco, clock >>
      PROVE  [Contract!CNext]_(Contract!cvars)
    <2>1. w2 = w /\ r2 = r
        BY <1>3
    <2> HIDE DEF w, r, w2, r2
    <2> QED  BY <1>1, <1>3, <2>1 DEF AbsStep
<1>4. CASE NoRebuild \/ NoDelay \/ Timeout \/ Interrupt \/ Input \/ NoInput \/ Served
           \/ SomeExpired \/ AllRun \/ EndThread \/ UNCHANGED vars
    BY <1>3, <1>4 DEF NoRebuild, NoDelay, Timeout, Interrupt, Input, NoInput, Served,
                      SomeExpired, AllRun, EndThread, vars
<1>5. CASE Query \/ RebuildLater \/ Rebuild \/ Delay \/ NextSecond \/ NoneExpired \/ Collected
    <2>1. w2 = w /\ r2 = r
        BY <1>5, QuietStep
    <2>2. clock' = clock
        BY <1>5 DEF Query, RebuildLater, Rebuild, Delay, NextSecond, NoneExpired, Collected
    <2> HIDE DEF w, r, w2, r2
    <2> QED  BY <1>1, <2>1, <2>2 DEF AbsStep
<1>6. ASSUME NEW c \in Callouts, NEW d \in Delays, NEW md \in Mdelays, New(c, d, md)
      PROVE  [Contract!CNext]_(Contract!cvars)
    <2>1. Calls(c, w, r, w2, r2)
        BY <1>6, NewAbsStep
    <2>2. clock' = clock
        BY <1>6 DEF New
    <2> HIDE DEF w, r, w2, r2
    <2> QED  BY <1>1, <2>1, <2>2 DEF AbsStep
<1>7. ASSUME NEW c \in Callouts, Del(c)
      PROVE  [Contract!CNext]_(Contract!cvars)
    <2>1. Cancels(c, w, r, w2, r2)
        BY <1>7, DelAbsStep
    <2>2. clock' = clock
        BY <1>7 DEF Del
    <2> HIDE DEF w, r, w2, r2
    <2> QED  BY <1>1, <2>1, <2>2 DEF AbsStep
<1>8. CASE Run
    <2>1. Runs(w, r, w2, r2)
        BY <1>8, RunAbsStep
    <2>2. clock' = clock
        BY <1>8 DEF Run
    <2> HIDE DEF w, r, w2, r2
    <2> QED  BY <1>1, <2>1, <2>2 DEF AbsStep
<1>9. CASE FromQueue \/ FromCycbuf
    <2>1. AbsStep(clock, w, r, w2, r2)
        BY <1>9, FromQueueAbsStep, FromCycbufAbsStep
    <2>2. clock' = clock
        BY <1>9 DEF FromQueue, FromCycbuf
    <2> HIDE DEF w, r, w2, r2
    <2> QED  BY <1>1, <2>1, <2>2
<1> QED  BY <1>2, <1>4, <1>5, <1>6, <1>7, <1>8, <1>9
         DEF Next, Loop, Call, Expire, Thread

(* The main loop and its callout table implement the contract: a callout   *)
(* is waiting for its time or ready, never both; it becomes ready when its *)
(* time has come and none that waits is due in an earlier second, runs     *)
(* once, in the order of becoming ready, and not after it was removed.     *)
THEOREM AlwaysImplements == ~Copying => (Spec => ImplementsContract)
<1> SUFFICES ASSUME ~Copying
             PROVE  Spec => ImplementsContract
    OBVIOUS
<1>1. AInv /\ [Next]_vars => AInv'
    BY NextAInv
<1>2. AInv /\ AInv' /\ [Next]_vars => [Contract!CNext]_(Contract!cvars)
    BY NextContract
<1> QED  BY <1>1, <1>2, InitAInv, InitContract, PTL DEF Spec, ImplementsContract, Contract!Spec

============================================================================
