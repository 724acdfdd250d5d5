------------------------- MODULE CallOutSnapshot -------------------------
(***************************************************************************)
(* Snapshots of the callout table (co_dump() and co_restore() of           *)
(* src/src/call_out.c) in the main loop.  A thread that asked for one has  *)
(* it made in its endthread(), while later callouts of the same co_call()  *)
(* are still to run; the process may stop at any time, and a new one       *)
(* continues from the last snapshot.  The table stores times adjusted by   *)
(* timediff, which co_restore() chooses so that time goes on from the      *)
(* timestamp of the snapshot.                                              *)
(***************************************************************************)
EXTENDS CallOut

VARIABLE image      \* the last snapshot: <<>> or <<[tab, dco]>>

svars == << vars, image >>

SInit == Init /\ image = << >>

(* endthread() with a snapshot to make; an incremental one leaves the swap *)
(* file as it is.                                                          *)
DumpThread ==
    LET r == CoTime(tab, << >>, clock)
    IN /\ InThread
       /\ tab' = r.tab
       /\ cotime' = << >>
       /\ image' = << [tab |-> r.tab, dco |-> dco] >>
       /\ rebuild' \in {rebuild, TRUE}
       /\ pc' = AfterThread(pc)
       /\ UNCHANGED << dco, clock, now, wake, rtime >>

(* Mutants: without the running callouts; and with only the immediate ones *)
(* in nzero.                                                               *)
RestoredNotRunning(tb) == [tb EXCEPT !.list[Running] = << >>]

RestoredImmediate(tb) == [tb EXCEPT !.nzero = Len(tb.list[Immediate])]

(* co_restore(): the header does not hold nzero and timeout.               *)
Restored(tb) ==
    LET zero == Len(tb.list[Running]) + Len(tb.list[Immediate])
    IN [tb EXCEPT
            !.nzero = zero,
            !.timeout = IF tb.nshort # zero THEN NextTimeout(tb.list, tb.timestamp)
                                            ELSE 0]

(* A new process: conf_restore(), then the thread that calls restored() in *)
(* the driver object.                                                      *)
Restart ==
    /\ image # << >>
    /\ tab' = Restored(image[1].tab)
    /\ dco' = image[1].dco
    /\ \E m \in Msecs : clock' = [t |-> tab'.timestamp, m |-> m]
    /\ cotime' = << >>
    /\ pc' = "boot"
    /\ now' = Zero
    /\ wake' = << >>
    /\ rebuild' = TRUE
    /\ rtime' = << >>
    /\ UNCHANGED image

(* co_call(), with callouts that the snapshot had among the running ones.  *)
StillRunning ==
    /\ pc = "call"
    /\ tab.list[Running] # << >>
    /\ pc' = "run"
    /\ UNCHANGED << tab, cotime, dco, clock, now, wake, rebuild, rtime, image >>

SNext == (Next /\ UNCHANGED image) \/ DumpThread \/ Restart \/ StillRunning

SSpec == SInit /\ [][SNext]_svars

---------------------------------------------------------------------------
(* Properties, besides those of CallOut, which hold across a restart.      *)

(* A restart gives back what was to run and what was waiting, and when,    *)
(* as of the snapshot, in the order it had: no callout is lost, none that  *)
(* had run is run again, and the table's derived fields agree with it.     *)
Resumes ==
    [][Restart =>
        /\ Ids((tab.list[Running] \o tab.list[Immediate])') =
               Ids(image[1].tab.list[Running] \o image[1].tab.list[Immediate])
        /\ \A c \in Callouts : dco'[c].live => Waiting(c)' \/ Ready(c)'
        /\ tab'.nzero = image[1].tab.nzero
        /\ tab'.timeout = image[1].tab.timeout]_svars

===========================================================================
