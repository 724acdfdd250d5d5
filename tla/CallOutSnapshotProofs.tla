---------------------- MODULE CallOutSnapshotProofs ----------------------
(***************************************************************************)
(* Snapshots of the callout table: a process that continues from one has   *)
(* the callouts as the snapshot has them, and all that is proved of the    *)
(* main loop holds across any number of restarts.                          *)
(***************************************************************************)
EXTENDS CallOutSnapshot, CallOutProofs

(* The table of the snapshot and its dataspaces agree, as they do in every *)
(* thread: endthread() makes no snapshot while co_expire() collects.       *)
ImageAgrees ==
    image # << >> =>
        /\ image[1].dco \in Times
        /\ Agree(image[1].tab, image[1].dco)

SAInv == AInv /\ ImageAgrees

---------------------------------------------------------------------------
(* What is missing in the header of a snapshot: the number of the running  *)
(* and immediate callouts, and the time of the first one in the cyclic     *)
(* buffer, which is the first used slot from the timestamp on.             *)

LEMMA TimeoutIsNext ==
    ASSUME NEW tb, NEW d \in Times, Agree(tb, d)
    PROVE  tb.timeout = IF tb.nshort # tb.nzero
                        THEN NextTimeout(tb.list, tb.timestamp) ELSE 0
<1> DEFINE L == tb.list
           ts == tb.timestamp
           next == NextTimeout(L, ts)
<1>1. /\ Timed(tb, d, FALSE) /\ Soonest(tb, d, TRUE)
      /\ tb \in Table /\ CountsLists(tb)
    BY DEF Agree, Sound, Good
<1>2. L \in AllLists /\ ts \in Nat /\ tb.timeout \in Nat
    BY <1>1, TableFields
<1>3. tb.nshort # tb.nzero <=> InSlots(L) # 0
    <2>1. InSlots(L) \in Nat /\ NotInSlots(L) \in Nat
        BY <1>2, SlotEntriesFinite
    <2> QED  BY <1>1, <2>1 DEF CountsLists
<1>4. \A c \in Callouts, s \in Slots : In(tb, c, s) <=> Holds(L[s], c)
    BY InIs, ListNames
<1> HIDE DEF L, ts
<1>5. CASE InSlots(L) # 0
    <2>1. WithinRound(L, d, ts)
        <3>1. ASSUME NEW c \in Callouts, NEW s \in Slots, Holds(L[s], c)
              PROVE  s = Slot(d[c].t) /\ ts <= d[c].t /\ d[c].t < ts + CYCBUF_SIZE
            <4>1. InWindow(d[c], s, tb, FALSE)
                BY <1>1, <1>4, <3>1 DEF Timed
            <4>2. s = Slot(d[c].t) /\ ts < d[c].t /\ d[c].t < ts + CYCBUF_SIZE
                BY <4>1, WindowIs DEF ts
            <4>3. d[c].t \in Nat
                BY TimesType
            <4> QED  BY <1>2, <4>2, <4>3
        <3> QED  BY <3>1 DEF WithinRound
    <2>2. FirstInSlots(L, d, next)
        BY <1>2, <1>5, <2>1, NextIsFirst
    <2>3. PICK c \in Callouts, s \in Slots : In(tb, c, s) /\ d[c].t = next
        BY <1>4, <2>2 DEF FirstInSlots
    <2>4. tb.timeout # 0 /\ tb.timeout <= next
        BY <1>1, <2>3 DEF Soonest
    <2>5. PICK e \in Callouts, r \in Slots : In(tb, e, r) /\ d[e].t = tb.timeout
        BY <1>1, <2>4 DEF Soonest
    <2>6. next <= tb.timeout
        BY <1>4, <2>2, <2>5 DEF FirstInSlots
    <2>7. next \in Nat
        BY <2>3, TimesType
    <2> HIDE DEF next
    <2>8. tb.timeout = next
        BY <1>2, <2>4, <2>6, <2>7
    <2> QED  BY <1>3, <1>5, <2>8 DEF next, L, ts
<1>6. CASE InSlots(L) = 0
    <2>1. \A c \in Callouts, s \in Slots : ~In(tb, c, s)
        BY <1>2, <1>4, <1>6, NoneInSlots
    <2>2. tb.timeout = 0
        BY <1>1, <2>1 DEF Soonest
    <2> QED  BY <1>3, <1>6, <2>2
<1>7. InSlots(L) \in Nat
    BY <1>2, SlotEntriesFinite
<1> QED  BY <1>5, <1>6

(* co_restore() derives the very table that was dumped.                    *)
LEMMA RestoredSame ==
    ASSUME NEW tb, NEW d \in Times, Agree(tb, d)
    PROVE  Restored(tb) = tb
<1> DEFINE zero == Len(tb.list[Running]) + Len(tb.list[Immediate])
           first == IF tb.nshort # zero THEN NextTimeout(tb.list, tb.timestamp) ELSE 0
<1>1. tb \in Table /\ CountsLists(tb)
    BY DEF Agree, Sound, Good
<1>2. Len(tb.list[Running]) \in Nat /\ Len(tb.list[Immediate]) \in Nat
    <2>1. tb.list[Running] \in Seq(Element) /\ tb.list[Immediate] \in Seq(Element)
        BY <1>1, TableFields, ListLengths, ListNames
    <2> QED  BY <2>1
<1>3. zero = tb.nzero
    <2> DEFINE a == Len(tb.list[Running])
               b == Len(tb.list[Immediate])
    <2>1. tb.nzero = NotInSlots(tb.list)
        BY <1>1, Zenon DEF CountsLists
    <2>2. NotInSlots(tb.list) = b + a
        BY DEF NotInSlots
    <2>3. zero = a + b /\ a \in Nat /\ b \in Nat
        BY <1>2
    <2> HIDE DEF a, b, zero
    <2> QED  BY <2>1, <2>2, <2>3
<1>4. first = tb.timeout
    BY <1>3, TimeoutIsNext
<1>5. Restored(tb) = [tb EXCEPT !.nzero = zero, !.timeout = first]
    BY DEF Restored
<1> HIDE DEF zero, first
<1> QED  BY <1>1, <1>3, <1>4, <1>5 DEF Table

---------------------------------------------------------------------------
(* The invariant of the loop with its snapshots.                           *)

LEMMA DumpTime ==
    ASSUME NEW tb, NEW d \in Times, Agree(tb, d), NEW clk \in Time,
           NEW none, none = << >>
    PROVE  LET r == CoTime(tb, none, clk)
           IN  Agree(r.tab, d) /\ r.tab.cycbrk = tb.cycbrk
<1>1. none \in Seq(Time) /\ Len(none) <= 1
    OBVIOUS
<1> QED  BY <1>1, CoTimeAgrees

LEMMA DumpAInv ==
    ASSUME SAInv, DumpThread
    PROVE  SAInv'
<1> DEFINE r == CoTime(tab, << >>, clock)
<1>1. /\ InThread /\ tab' = r.tab /\ cotime' = << >>
      /\ image' = << [tab |-> r.tab, dco |-> dco] >>
      /\ rebuild' \in {rebuild, TRUE} /\ pc' = AfterThread(pc)
      /\ UNCHANGED << dco, clock, now, wake, rtime >>
    BY DEF DumpThread
<1>2. /\ AInv /\ IInv /\ TypeOK
    BY DEF SAInv, AInv, IInv
<1>3. << >> \in Seq(Time) /\ Len(<< >>) = 0
    OBVIOUS
<1>4. ~Expiring /\ pc' \in {"top", "delay", "served", "run"}
    BY <1>1 DEF InThread, Threads, Expiring, AfterThread
<1>5. Agree(tab, dco) /\ dco \in Times /\ clock \in Time /\ Good(tab)
    BY <1>2, <1>4, AInvFacts
<1>6. Agree(r.tab, dco)
    BY <1>5, DumpTime
<1> HIDE DEF r
<1>7. Good(tab') /\ Agree(tab', dco')
    BY <1>1, <1>6 DEF Agree, Sound
<1>8. ~Expiring'
    BY <1>4 DEF Expiring
<1>9. TypeOK'
    <2>1. pc' \in Places
        BY <1>4 DEF Places
    <2>2. cotime' \in Seq(Time) /\ Len(cotime') <= 1
        BY <1>1, <1>3
    <2>3. rebuild' \in BOOLEAN /\ rtime' \in Seq(Time) /\ Len(rtime') <= 1
          /\ wake' \in Seq(Nat) /\ Len(wake') <= 1
          /\ dco' \in [Callouts -> Dcallout] /\ clock' \in Time /\ now' \in Time
        BY <1>1, <1>2 DEF TypeOK
    <2> QED  BY <1>7, <2>1, <2>2, <2>3 DEF TypeOK, Good
<1>10. IInv'
    BY <1>7, <1>8, <1>9, TableStep
<1>11. CachedTime'
    BY <1>1, <1>2 DEF AInv, CachedTime
<1>12. AInv'
    BY <1>7, <1>8, <1>10, <1>11, AgreeStep
<1>13. ImageAgrees'
    <2>1. image'[1].tab = r.tab /\ image'[1].dco = dco
        BY <1>1
    <2> QED  BY <1>5, <1>6, <2>1 DEF ImageAgrees
<1> QED  BY <1>12, <1>13 DEF SAInv

LEMMA RestartTable ==
    ASSUME SAInv, Restart
    PROVE  /\ tab' = image[1].tab /\ dco' = image[1].dco /\ image # << >>
           /\ Agree(tab', dco') /\ dco' \in Times
BY RestoredSame DEF SAInv, ImageAgrees, Restart

LEMMA RestartAInv ==
    ASSUME SAInv, Restart
    PROVE  SAInv'
<1>1. /\ cotime' = << >> /\ pc' = "boot" /\ now' = Zero /\ wake' = << >>
      /\ rebuild' = TRUE /\ rtime' = << >> /\ UNCHANGED image
    BY DEF Restart
<1>2. Agree(tab', dco') /\ dco' \in Times
    BY RestartTable
<1>3. Good(tab') /\ tab' \in Table
    BY <1>2 DEF Agree, Sound, Good
<1>4. clock' \in Time
    <2>1. PICK m \in Msecs : clock' = [t |-> tab'.timestamp, m |-> m]
        BY DEF Restart
    <2>2. tab'.timestamp \in Nat
        BY <1>3, TableFields
    <2> QED  BY <2>1, <2>2 DEF Time
<1>5. ~Expiring' /\ pc' \in Places
    BY <1>1 DEF Expiring, Places, Threads
<1>6. TypeOK'
    <2>1. << >> \in Seq(Time) /\ << >> \in Seq(Nat) /\ Len(<< >>) = 0
        OBVIOUS
    <2> QED  BY <1>1, <1>2, <1>3, <1>4, <1>5, <2>1, ZeroType DEF TypeOK, Times
<1>7. IInv'
    BY <1>3, <1>5, <1>6, TableStep
<1>8. CachedTime'
    BY <1>1 DEF CachedTime
<1>9. AInv'
    BY <1>2, <1>5, <1>7, <1>8, AgreeStep
<1>10. ImageAgrees'
    BY <1>1 DEF SAInv, ImageAgrees
<1> QED  BY <1>9, <1>10 DEF SAInv

LEMMA StillRunningAInv ==
    ASSUME SAInv, StillRunning
    PROVE  SAInv'
<1>1. /\ pc = "call" /\ pc' = "run"
      /\ UNCHANGED << tab, cotime, dco, clock, now, wake, rebuild, rtime, image >>
    BY DEF StillRunning
<1>2. ~Expiring /\ ~Expiring' /\ ~InThread /\ pc' \in Places
    BY <1>1 DEF Expiring, InThread, Threads, Places
<1>3. IInv'
    BY <1>1, <1>2 DEF SAInv, AInv, IInv, TypeOK, Counted, NothingRuns
<1>4. AInv'
    BY <1>1, <1>2, <1>3, NoTableStep DEF SAInv
<1>5. ImageAgrees'
    BY <1>1 DEF SAInv, ImageAgrees
<1> QED  BY <1>4, <1>5 DEF SAInv

LEMMA NextSAInv == ~Copying /\ SAInv /\ [SNext]_svars => SAInv'
<1> SUFFICES ASSUME ~Copying, SAInv, [SNext]_svars  PROVE SAInv'
    OBVIOUS
<1>1. ASSUME [Next]_vars, UNCHANGED image
      PROVE  SAInv'
    BY <1>1, NextAInv DEF SAInv, ImageAgrees
<1>2. CASE UNCHANGED svars
    <2>1. UNCHANGED vars /\ UNCHANGED image
        BY <1>2 DEF svars
    <2> QED  BY <1>1, <2>1
<1> QED  BY <1>1, <1>2, DumpAInv, RestartAInv, StillRunningAInv DEF SNext

LEMMA InitSAInv == SInit => SAInv
BY InitAInv DEF SInit, SAInv, ImageAgrees

---------------------------------------------------------------------------
(* The properties.                                                         *)

(* A callout of a dataspace is in the table exactly once, where co_del()   *)
(* looks for it, also after restarts from snapshots made at any thread.    *)
THEOREM AlwaysFoundAgain == ~Copying => (SSpec => []Found)
<1> SUFFICES ASSUME ~Copying
             PROVE  SSpec => []Found
    OBVIOUS
<1>1. SAInv /\ [SNext]_svars => SAInv'
    BY NextSAInv
<1>2. SAInv => Found
    BY AInvFound DEF SAInv
<1> QED  BY <1>1, <1>2, InitSAInv, PTL DEF SSpec

(* What is in the cyclic buffer after a restart is due within a round of   *)
(* it: co_restore() sets the time on from the timestamp of the snapshot,   *)
(* however long ago that was.                                              *)
THEOREM AlwaysInWindowAgain == ~Copying => (SSpec => []CycWindow)
<1> SUFFICES ASSUME ~Copying
             PROVE  SSpec => []CycWindow
    OBVIOUS
<1>1. SAInv /\ [SNext]_svars => SAInv'
    BY NextSAInv
<1>2. SAInv => CycWindow
    BY AInvCycWindow DEF SAInv
<1> QED  BY <1>1, <1>2, InitSAInv, PTL DEF SSpec

(* The edge of the lists in the table, and in the one of the snapshot.     *)
ImageAboveZero == AboveZero /\ (image # << >> => image[1].tab.cycbrk > 0)

LEMMA NextImageAboveZero ==
    ~Copying /\ Few /\ SAInv /\ ImageAboveZero /\ [SNext]_svars => ImageAboveZero'
<1> SUFFICES ASSUME ~Copying, Few, SAInv, ImageAboveZero, [SNext]_svars
             PROVE  ImageAboveZero'
    OBVIOUS
<1>1. ASSUME [Next]_vars, UNCHANGED image
      PROVE  ImageAboveZero'
    <2>1. AboveZero'
        BY <1>1, NextAboveZero DEF SAInv, ImageAboveZero
    <2> QED  BY <1>1, <2>1 DEF ImageAboveZero
<1>2. CASE UNCHANGED svars
    <2>1. UNCHANGED vars /\ UNCHANGED image
        BY <1>2 DEF svars
    <2> QED  BY <1>1, <2>1
<1>3. CASE DumpThread
    <2> DEFINE r == CoTime(tab, << >>, clock)
    <2>1. tab' = r.tab /\ image'[1].tab = r.tab /\ ~Expiring
        BY <1>3 DEF DumpThread, InThread, Threads, Expiring
    <2>2. Agree(tab, dco) /\ dco \in Times /\ clock \in Time
        BY <2>1, AInvFacts DEF SAInv
    <2>3. r.tab.cycbrk = tab.cycbrk
        BY <2>2, DumpTime
    <2> HIDE DEF r
    <2> QED  BY <2>1, <2>3 DEF ImageAboveZero, AboveZero
<1>4. CASE Restart
    <2>1. tab' = image[1].tab /\ image # << >> /\ image' = image
        BY <1>4, RestartTable DEF Restart
    <2> QED  BY <2>1 DEF ImageAboveZero, AboveZero
<1>5. CASE StillRunning
    BY <1>5 DEF StillRunning, ImageAboveZero, AboveZero
<1> QED  BY <1>1, <1>2, <1>3, <1>4, <1>5 DEF SNext

(* The two structures of the table do not overlap either in a process that *)
(* continues from a snapshot, which takes their edges from it.             *)
THEOREM AlwaysSoundAgain == ~Copying /\ Few => (SSpec => []TableSound)
<1> SUFFICES ASSUME ~Copying, Few
             PROVE  SSpec => []TableSound
    OBVIOUS
<1>1. SAInv /\ [SNext]_svars => SAInv'
    BY NextSAInv
<1>2. SInit => ImageAboveZero
    BY TableAssumption DEF SInit, Init, EmptyTable, AboveZero, ImageAboveZero
<1>3. SAInv /\ ImageAboveZero /\ [SNext]_svars => ImageAboveZero'
    BY NextImageAboveZero
<1>4. SAInv /\ ImageAboveZero => TableSound
    BY AInvTimeoutFirst, AInvShared, AInvNoOverflow, AInvSecondsHeap
    DEF TableSound, SAInv, ImageAboveZero
<1> QED  BY <1>1, <1>2, <1>3, <1>4, InitSAInv, PTL DEF SSpec

LEMMA NextInTimeAgain == SAInv /\ WakesInTime /\ [SNext]_svars => WakesInTime'
<1> SUFFICES ASSUME SAInv, WakesInTime, [SNext]_svars  PROVE WakesInTime'
    OBVIOUS
<1>1. ASSUME [Next]_vars
      PROVE  WakesInTime'
    BY <1>1, NextInTime DEF SAInv
<1>2. CASE UNCHANGED svars
    <2>1. UNCHANGED vars
        BY <1>2 DEF svars
    <2> QED  BY <1>1, <2>1
<1>3. CASE DumpThread \/ Restart \/ StillRunning
    <2>1. pc' # "receive"
        BY <1>3 DEF DumpThread, Restart, StillRunning, AfterThread, InThread, Threads
    <2> QED  BY <2>1 DEF WakesInTime
<1> QED  BY <1>1, <1>2, <1>3 DEF SNext

(* The process does not sleep past a callout after a restart either, whose *)
(* "timeout" is computed anew.                                             *)
THEOREM AlwaysInTimeAgain == ~Copying => (SSpec => []WakesInTime)
<1> SUFFICES ASSUME ~Copying
             PROVE  SSpec => []WakesInTime
    OBVIOUS
<1>1. SAInv /\ [SNext]_svars => SAInv'
    BY NextSAInv
<1>2. SInit => WakesInTime
    BY DEF SInit, Init, WakesInTime
<1> QED  BY <1>1, <1>2, InitSAInv, NextInTimeAgain, PTL DEF SSpec

(* A process that continues from a snapshot runs what was to run in its    *)
(* order, and has the timer fields that the snapshot does not hold right,  *)
(* wherever in co_call() the snapshot was made.                            *)
THEOREM AlwaysResumes == ~Copying => (SSpec => Resumes)
<1> SUFFICES ASSUME ~Copying
             PROVE  SSpec => Resumes
    OBVIOUS
<1> DEFINE Step ==
        Restart =>
            /\ Ids((tab.list[Running] \o tab.list[Immediate])') =
                   Ids(image[1].tab.list[Running] \o image[1].tab.list[Immediate])
            /\ \A c \in Callouts : dco'[c].live => Waiting(c)' \/ Ready(c)'
            /\ tab'.nzero = image[1].tab.nzero
            /\ tab'.timeout = image[1].tab.timeout
<1>1. SAInv /\ [SNext]_svars => SAInv'
    BY NextSAInv
<1>2. SAInv => Step
    <2> SUFFICES ASSUME SAInv, Restart  PROVE Step
        OBVIOUS
    <2>1. tab' = image[1].tab /\ Agree(tab', dco') /\ dco' \in Times
        BY RestartTable
    <2>2. ASSUME NEW c \in Callouts, dco'[c].live
          PROVE  Waiting(c)' \/ Ready(c)'
        <3>1. PICK l \in Everywhere : In(tab', c, l)
            BY <2>1, <2>2 DEF Agree, Timed
        <3> QED  BY <3>1, WaitingIs, SlotsEverywhere
    <2> QED  BY <2>1, <2>2
<1>3. Resumes <=> [][Step]_svars
    BY DEF Resumes
<1> HIDE DEF Step
<1> QED  BY <1>1, <1>2, <1>3, InitSAInv, PTL DEF SSpec

===========================================================================
