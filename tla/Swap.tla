------------------------------- MODULE Swap -------------------------------
(***************************************************************************)
(* The swap device (src/src/swap.c) under the objects that use it.         *)
(*                                                                         *)
(* A block (the dataspace or control block of an object) that is not in    *)
(* memory lives in a vector of sectors.  A sector is in a slot of the      *)
(* cache or in the swap file, or nowhere yet.  A full snapshot turns the   *)
(* swap file into the snapshot, from which blocks are copied, when they    *)
(* are needed or a few at a time, to a new swap file; an incremental one   *)
(* lets the device go on in the snapshot file, beyond a barrier.           *)
(*                                                                         *)
(* A block is as large as its program and data make it; here its value     *)
(* [n, v] says how many sectors it needs, and v can be changed in place,   *)
(* in the first sector, without writing the others.                        *)
(***************************************************************************)
EXTENDS Integers, FiniteSets, SequencesExt

CONSTANTS
    Blocks,         \* dataspace and control blocks
    SWAPSIZE,       \* swapsize: number of sectors
    CACHESIZE,      \* cachesize: number of slots
    MaxVec,         \* bound: sectors of a block
    MaxIndex,       \* bound: sectors of a swap file
    MaxChanges,     \* bound: changes of blocks
    MaxDumps,       \* bound: snapshots
    MaxRestarts     \* bound: restarts

ASSUME SwapAssumption ==
    /\ MaxVec \in Nat \ {0} /\ MaxIndex \in Nat
    /\ {MaxChanges, MaxDumps, MaxRestarts} \subseteq Nat
    /\ IsFiniteSet(Blocks) /\ SWAPSIZE \in Nat /\ SWAPSIZE >= Cardinality(Blocks) * MaxVec
    /\ CACHESIZE \in 1 .. SWAPSIZE - 1

UNUSED == -1                        \* SW_UNUSED
Sectors == 0 .. SWAPSIZE - 1
Slots == 0 .. CACHESIZE - 1
Indices == 0 .. MaxIndex - 1
Files == {"A", "B", "C"}            \* what a file descriptor is open to
NoFile == "none"

(* A step for each element of s in turn.                                   *)
Walk(Step(_, _), x, s) ==
    LET after[k \in 0 .. Len(s)] == IF k = 0 THEN x ELSE Step(after[k - 1], s[k])
    IN after[Len(s)]

(* The lists of S may be in any order.                                     *)
Orders(S) == {q \in [1 .. Cardinality(S) -> S] : ToSet(q) = S /\ IsInjective(q)}

NoValue == [n |-> 0, v |-> 0]

(* What a sector of a block with this value holds.                         *)
Content(b, k, x) == [block |-> b, part |-> k, n |-> x.n, v |-> IF k = 1 THEN x.v ELSE 0]
Junk == [block |-> "none", part |-> 0, n |-> 0, v |-> 0]
MapSector == [Junk EXCEPT !.part = -1]
Contents(b, x) == [k \in 1 .. x.n |-> Content(b, k, x)]

VARIABLES
    dev,            \* the variables of swap.c
    disk,           \* what is in the sectors of the files
    vec,            \* sectors of each block
    mem,            \* what is in memory of each block, <<>> if it is not
    mod,            \* "no", "var" or "all": what the block must save of it
    omap,           \* blocks still to be copied from the snapshot
    converted,      \* they can be read through the cache
    names,          \* files called snapshot and snapshot.old
    image,          \* the last finished snapshot: <<>> or <<record>>
    dumping,        \* between sw_dump() and sw_dump2(): <<>> or <<incr>>
    value,          \* history: what each block was last given
    count           \* of changes, snapshots and restarts, for the bounds

block == << vec, mem, mod >>
vars == << dev, disk, block, omap, converted, names, image, dumping, value, count >>

EmptySlot == [sec |-> UNUSED, swap |-> UNUSED, dirty |-> FALSE, data |-> Junk]
EmptyFile == << >>

(* sw_init()                                                               *)
EmptyDevice ==
    [map |-> [s \in Sectors |-> UNUSED], nsectors |-> 0, mfree |-> << >>,
     slot |-> [i \in Slots |-> EmptySlot], order |-> << >>,
     lfree |-> [i \in 1 .. CACHESIZE |-> i - 1],
     sfree |-> << >>, ssectors |-> 0, sbarrier |-> 0,
     swapping |-> TRUE, swap |-> NoFile, dump |-> NoFile]

Init ==
    /\ dev = EmptyDevice
    /\ disk = [f \in Files |-> EmptyFile]
    /\ vec = [b \in Blocks |-> << >>]
    /\ mem = [b \in Blocks |-> << >>]
    /\ mod = [b \in Blocks |-> "no"]
    /\ omap = {}
    /\ converted = TRUE
    /\ names = [snapshot |-> NoFile, old |-> NoFile]
    /\ image = << >>
    /\ dumping = << >>
    /\ value = [b \in Blocks |-> NoValue]
    /\ count = [changes |-> 0, dumps |-> 0, restarts |-> 0]

---------------------------------------------------------------------------
(* swap.c, as operators on the device v, or on all that a step changes:    *)

Now == [dev |-> dev, disk |-> disk, vec |-> vec, mem |-> mem, mod |-> mod]

(* Bound: the length of a swap file.                                       *)
Fits(d) == d.dev.ssectors <= MaxIndex

Become(d) ==
    /\ Fits(d)
    /\ dev' = d.dev /\ disk' = d.disk
    /\ vec' = d.vec /\ mem' = d.mem /\ mod' = d.mod

InSlot(v, sec) == v.map[sec] \in Slots /\ v.slot[v.map[sec]].sec = sec

(* A file has the places that were written; what a read there gives.       *)
ReadAt(files, f, i) == IF f \in Files /\ i \in DOMAIN files[f] THEN files[f][i] ELSE Junk

Written(file, i, data) ==
    [x \in DOMAIN file \cup {i} |-> IF x = i THEN data ELSE file[x]]

(* A file that has neither a name nor a descriptor is gone.                *)
Remaining(files, kept) == [f \in Files |-> IF f \in kept THEN files[f] ELSE EmptyFile]

(* sw_newv(): sectors for a vector, deleted ones first.                    *)
NewV(v, size) ==
    LET old == IF size < Len(v.mfree) THEN size ELSE Len(v.mfree)
        new == [k \in 1 .. size |-> IF k <= old THEN v.mfree[k]
                                    ELSE v.nsectors + k - old - 1]
    IN [vec |-> new,
        dev |-> [v EXCEPT
                   !.map = [s \in Sectors |-> IF s \in ToSet(new) THEN UNUSED ELSE @[s]],
                   !.mfree = SubSeq(@, old + 1, Len(@)),
                   !.nsectors = @ + size - old]]

(* sw_wipev(), for one sector: its place in the swap file becomes free,    *)
(* unless it is below the barrier.                                         *)
WipeFrom(barrier, v, sec) ==
    LET i == v.map[sec]
        s == IF InSlot(v, sec) THEN v.slot[i].swap ELSE i
        wiped == IF InSlot(v, sec) THEN [v EXCEPT !.slot[i].swap = UNUSED]
                                   ELSE [v EXCEPT !.map[sec] = UNUSED]
    IN IF s # UNUSED /\ s >= barrier THEN [wiped EXCEPT !.sfree = << s >> \o @]
                                     ELSE wiped

(* Mutant: the barrier forgotten.                                          *)
WipeBelow(v, sec) == WipeFrom(0, v, sec)

Wipe(v, sec) == WipeFrom(v.sbarrier, v, sec)

(* The list of slots without one that is in it.                            *)
Unlinked(order, i) == RemoveAt(order, CHOOSE k \in DOMAIN order : order[k] = i)

(* sw_delv(), for one sector.                                              *)
Del(v, sec) ==
    LET i == v.map[sec]
        left == IF ~InSlot(v, sec) THEN v
                ELSE [v EXCEPT !.slot[i] = EmptySlot,
                               !.order = Unlinked(@, i),
                               !.lfree = << i >> \o @]
    IN [left EXCEPT !.map[sec] = UNUSED, !.mfree = << sec >> \o @]

(* The vectors are walked from their end.                                  *)
WipeV(v, sectors) == Walk(Wipe, v, Reverse(sectors))
DelV(v, sectors) == Walk(Del, v, Reverse(sectors))

(* sw_create(), if there is no swap file: one that no name and no          *)
(* descriptor keeps.                                                       *)
Create(d) ==
    LET used == {names.snapshot, names.old, d.dev.dump}
        f == CHOOSE x \in Files : x \notin used
    IN IF d.dev.swap # NoFile THEN d
       ELSE [d EXCEPT !.dev.swap = f, !.disk[f] = EmptyFile]

(* A dirty slot is written to its place in the swap file, or to a new one  *)
(* if it has none or that is below the barrier.                            *)
WriteFrom(barrier, d, i) ==
    LET v == d.dev
        h == v.slot[i]
        keep == h.swap # UNUSED /\ h.swap >= barrier
        s == IF keep THEN h.swap
             ELSE IF v.sfree = << >> THEN v.ssectors ELSE Head(v.sfree)
    IN IF ~h.dirty THEN d
       ELSE [d EXCEPT
               !.dev.slot[i].swap = s,
               !.dev.sfree = IF keep \/ @ = << >> THEN @ ELSE Tail(@),
               !.dev.ssectors = IF ~keep /\ v.sfree = << >> THEN @ + 1 ELSE @,
               !.disk[v.swap] = Written(@, s, h.data)]

(* Mutant: written where it was, whatever the barrier.                     *)
WriteBelow(d, i) == WriteFrom(0, d, i)

Write(d, i) == WriteFrom(d.dev.sbarrier, d, i)

(* A slot of the list is put at its head.                                  *)
ToFront(v, i) == [v EXCEPT !.order = << i >> \o Unlinked(@, i)]

(* The last slot of the list, which is as the file has it, is given up.    *)
GiveUp(d, i) ==
    [d EXCEPT !.dev.map[d.dev.slot[i].sec] = d.dev.slot[i].swap,
              !.dev.order = SubSeq(@, 1, Len(@) - 1),
              !.dev.lfree = << i >>]

(* Mutant: a slot that has a place is taken for saved.                     *)
EvictPlaced(d) ==
    LET i == Last(d.dev.order)
        h == d.dev.slot[i]
    IN GiveUp(IF h.dirty /\ h.swap = UNUSED THEN Write(Create(d), i) ELSE d, i)

(* sw_load() without a free slot.                                          *)
Evict(d) ==
    LET i == Last(d.dev.order)
    IN GiveUp(IF d.dev.slot[i].dirty THEN Write(Create(d), i) ELSE d, i)

(* A free slot for a sector, with what file f has of it at place i.        *)
LoadFrom(d, sec, f, i) ==
    LET free == Head(d.dev.lfree)
        h == [sec |-> sec, swap |-> i, dirty |-> FALSE,
              data |-> IF i # UNUSED
                       THEN ReadAt(d.disk, IF f = "swap" THEN d.dev.swap ELSE d.dev.dump, i)
                       ELSE IF f = "swap" THEN Junk ELSE d.dev.slot[free].data]
    IN [d EXCEPT !.dev.slot[free] = h, !.dev.map[sec] = free,
                 !.dev.lfree = Tail(@), !.dev.order = << free >> \o @]

(* sw_load()                                                               *)
Load(d, sec, f) ==
    IF InSlot(d.dev, sec) THEN [d EXCEPT !.dev = ToFront(@, @.map[sec])]
    ELSE LoadFrom(IF d.dev.lfree = << >> THEN Evict(d) ELSE d, sec, f, d.dev.map[sec])

DataOf(d, sec) == d.dev.slot[d.dev.map[sec]].data

(* sw_readv(), sw_dreadv(), sw_conv(): all sectors of a block, into        *)
(* memory.                                                                 *)
Copy(d, b, sec) == [d EXCEPT !.mem[b] = Append(@, DataOf(d, sec))]

ReadV(d, b) == Walk(LAMBDA x, sec : Copy(Load(x, sec, "swap"), b, sec), d, d.vec[b])

(* A sector that is copied from the snapshot has no place of its own yet.  *)
CopyOut(d, b, sec) ==
    [Copy(d, b, sec) EXCEPT !.dev.slot[d.dev.map[sec]].swap = UNUSED]

DReadV(d, b) == Walk(LAMBDA x, sec : CopyOut(Load(x, sec, "dump"), b, sec), d, d.vec[b])

ConvSector(d, b, f, sec) ==
    [d EXCEPT !.mem[b] = Append(@, ReadAt(d.disk, f, d.dev.map[sec])),
              !.dev.map[sec] = UNUSED]

Conv(d, b, f) == Walk(LAMBDA x, sec : ConvSector(x, b, f, sec), d, d.vec[b])

(* sw_writev(), of a whole sector and of a part of one.                    *)
Put(d, i, data) == [d EXCEPT !.dev.slot[i].data = data, !.dev.slot[i].dirty = TRUE]

WriteAll(d, sec, data) == Put(d, d.dev.map[sec], data)

WriteSector(d, sec, data) == WriteAll(Load(d, sec, "swap"), sec, data)

WriteOver(d, sec, v) == Put(d, d.dev.map[sec], [DataOf(d, sec) EXCEPT !.v = v])

WritePart(d, sec, v) == WriteOver(Load(d, sec, "swap"), sec, v)

---------------------------------------------------------------------------
(* sdata.c: blocks.                                                        *)

(* d_swapalloc(): n sectors for a block that had another number of them.   *)
SwapAlloc(d, b, n) ==
    LET had == d.vec[b]
        wiped == WipeV(d.dev, had)
        cut == IF Len(had) > n THEN DelV(wiped, SubSeq(had, n + 1, Len(had))) ELSE wiped
        new == NewV(cut, IF Len(had) < n THEN n - Len(had) ELSE 0)
    IN [d EXCEPT !.dev = new.dev,
                 !.vec[b] = SubSeq(had, 1, IF Len(had) < n THEN Len(had) ELSE n) \o new.vec]

(* d_save_dataspace()                                                      *)
SaveSectors(d, b) ==
    Walk(LAMBDA x, k : WriteSector(x, x.vec[b][k], x.mem[b][k]),
         [d EXCEPT !.mod[b] = "no"], [k \in 1 .. Len(d.vec[b]) |-> k])

SaveAll(d, b) == SaveSectors(SwapAlloc(d, b, d.mem[b][1].n), b)

SaveVar(d, b) ==
    [WritePart(d, d.vec[b][1], d.mem[b][1].v) EXCEPT !.mod[b] = "no"]

Save(d, b) == IF d.mod[b] = "all" THEN SaveAll(d, b)
              ELSE IF d.mod[b] = "var" THEN SaveVar(d, b) ELSE d

SwapOut(d, b) == [Save(d, b) EXCEPT !.mem[b] = << >>]

(* d_del_dataspace()                                                       *)
DelBlock(d, b) ==
    [d EXCEPT !.dev = DelV(WipeV(d.dev, d.vec[b]), d.vec[b]),
              !.vec[b] = << >>, !.mem[b] = << >>, !.mod[b] = "no"]

InMemory == {b \in Blocks : mem[b] # << >>}

(* d_swapout(1): the blocks in memory, after those restored just now, the  *)
(* last of them first.                                                     *)
SwapOutAll(d, restored, order) == Walk(SwapOut, d, Reverse(restored) \o order)

(* d_restore_obj(): all of the block will be saved again.                  *)
RestoreObj(d, b) ==
    [(IF converted THEN DReadV(d, b) ELSE Conv(d, b, d.dev.dump)) EXCEPT !.mod[b] = "all"]

(* The secondary snapshot gives the blocks that a partial one has not:     *)
(* o_restore().                                                            *)
Restore2(d, b, f) == SwapOut([Conv(d, b, f) EXCEPT !.mod[b] = "all"], b)

RestoreAll(d, pending) == Walk(RestoreObj, d, pending)

Restore2All(d, pending, f) == Walk(LAMBDA x, b : Restore2(x, b, f), d, pending)

---------------------------------------------------------------------------
(* Snapshots.                                                              *)

Ids(v) == 0 .. v.nsectors - 1

(* sw_trim(): the free sectors at the end go, the others are linked from   *)
(* low to high.                                                            *)
LowToHigh(free, n) ==
    LET below[s \in 0 .. n] ==
            IF s = 0 THEN << >>
            ELSE IF s - 1 \in free THEN Append(below[s - 1], s - 1) ELSE below[s - 1]
    IN below[n]

Trim(v) ==
    LET free == ToSet(v.mfree)
        n == CHOOSE x \in 0 .. v.nsectors :
                /\ x .. v.nsectors - 1 \subseteq free
                /\ x > 0 => x - 1 \notin free
    IN [v EXCEPT !.nsectors = n, !.mfree = LowToHigh(free, n)]

(* The sector map that a snapshot holds.                                   *)
Resolved(v) ==
    [s \in Sectors |-> IF InSlot(v, s) THEN v.slot[v.map[s]].swap ELSE v.map[s]]

(* The flush of the cache, from its last slot to its first.                *)
Flush(d) ==
    LET w == Walk(Write, d, Reverse(d.dev.order))
    IN [w EXCEPT !.dev.slot = [i \in Slots |-> [@[i] EXCEPT !.dirty = FALSE]]]

(* sw_dump(): the swap file becomes the snapshot, if it is not already;    *)
(* the map goes after its sectors.                                         *)
SwDump(d, keep) ==
    LET w == Flush(Create(d))
        v == [Trim(w.dev) EXCEPT !.dump = IF keep THEN @ ELSE NoFile]
    IN [w EXCEPT !.dev = v,
                 !.disk[v.swap] = Written(@, v.ssectors, MapSector)]

Names(v) == IF v.swapping THEN [snapshot |-> v.swap, old |-> names.snapshot] ELSE names

(* The rest of the snapshot and, unless the header at the start of the     *)
(* file is used, a header after it.                                        *)
Extent(v) == IF v.swapping THEN 1 ELSE 2

(* sw_dump2()                                                              *)
SwDump2(v, incr) ==
    LET end == v.ssectors + Extent(v)
    IN IF incr
       THEN [v EXCEPT !.ssectors = end, !.sbarrier = end, !.sfree = << >>, !.swapping = FALSE]
       ELSE [v EXCEPT !.dump = v.swap, !.swap = NoFile, !.ssectors = 0, !.sbarrier = 0,
                      !.sfree = << >>, !.swapping = TRUE]

---------------------------------------------------------------------------
(* The steps.                                                              *)

Running == dumping = << >>

Bounded(f, max) == count[f] < max /\ count' = [count EXCEPT ![f] = @ + 1]

(* A new object, or all of a dataspace changes, in size too.               *)
Change(b, n) ==
    /\ Running
    /\ Bounded("changes", MaxChanges)
    /\ mem[b] # << >> \/ value[b] = NoValue
    /\ LET x == [n |-> n, v |-> 1 - value[b].v]
       IN /\ mem' = [mem EXCEPT ![b] = Contents(b, x)]
          /\ value' = [value EXCEPT ![b] = x]
    /\ mod' = [mod EXCEPT ![b] = "all"]
    /\ UNCHANGED << dev, disk, vec, omap, converted, names, image, dumping >>

(* A variable changes: d_assign_var().                                     *)
ChangeVar(b) ==
    /\ Running
    /\ Bounded("changes", MaxChanges)
    /\ mem[b] # << >>
    /\ LET x == [value[b] EXCEPT !.v = 1 - @]
       IN /\ mem' = [mem EXCEPT ![b] = [@ EXCEPT ![1].v = x.v]]
          /\ value' = [value EXCEPT ![b] = x]
    /\ mod' = [mod EXCEPT ![b] = IF @ = "all" THEN "all" ELSE "var"]
    /\ UNCHANGED << dev, disk, vec, omap, converted, names, image, dumping >>

(* o_dataspace(): a block that is not in memory is needed, or o_copy()     *)
(* has come to it.                                                         *)
Get(b) ==
    /\ Running
    /\ mem[b] = << >> /\ vec[b] # << >>
    /\ Become(IF b \in omap THEN RestoreObj(Now, b) ELSE ReadV(Now, b))
    /\ omap' = omap \ {b}
    /\ UNCHANGED << converted, names, image, dumping, value, count >>

(* d_swapout(fragment), for one block.                                     *)
PutOut(b) ==
    /\ Running
    /\ mem[b] # << >>
    /\ Become(SwapOut(Now, b))
    /\ UNCHANGED << omap, converted, names, image, dumping, value, count >>

(* d_swapout(): a block that was garbage collected is saved and stays.     *)
Collect(b) ==
    /\ Running
    /\ mem[b] # << >> /\ mod[b] # "no"
    /\ Become(Save(Now, b))
    /\ UNCHANGED << omap, converted, names, image, dumping, value, count >>

(* o_del(), which has loaded the dataspace.                                *)
Destruct(b) ==
    /\ Running
    /\ Bounded("changes", MaxChanges)
    /\ mem[b] # << >>
    /\ Become(DelBlock(Now, b))
    /\ value' = [value EXCEPT ![b] = NoValue]
    /\ UNCHANGED << omap, converted, names, image, dumping >>

(* o_copy(), when all blocks have been copied.                             *)
Copied ==
    /\ Running
    /\ omap = {} /\ ~converted
    /\ \E order \in Orders(InMemory) : Become(SwapOutAll(Now, << >>, order))
    /\ converted' = TRUE
    /\ UNCHANGED << omap, names, image, dumping, value, count >>

(* sw_dump() in conf_dump(), with all blocks out of memory.                *)
Dump(d, incr, pending) ==
    LET called == Names(d.dev)
    IN /\ d.dev.ssectors + Extent(d.dev) <= MaxIndex
       /\ Become([d EXCEPT !.disk = Remaining(@, {called.snapshot, called.old, d.dev.dump})])
       /\ names' = called
       /\ dumping' = << [incr |-> incr, omap |-> pending] >>
       /\ omap' = IF incr THEN omap ELSE {b \in Blocks : d.vec[b] # << >>}

(* conf_dump(), up to sw_dump2(): the blocks to be copied are copied       *)
(* before a full snapshot, and o_dump() has o_sweep() mark all again.      *)
DumpStart(incr) ==
    /\ Running
    /\ Bounded("dumps", MaxDumps)
    /\ \E restored \in Orders(IF incr THEN {} ELSE omap), order \in Orders(InMemory) :
        Dump(SwDump(SwapOutAll(RestoreAll(Now, restored), restored, order),
                    incr /\ omap # {}),
             incr, IF incr THEN omap ELSE {})
    /\ converted' = (converted \/ ~incr)
    /\ UNCHANGED << image, value >>

(* The snapshot is what its header says once that is written.              *)
Snapshot(v, pending) ==
    [file |-> v.swap, secondary |-> IF pending = {} THEN NoFile ELSE names.old,
     map |-> Resolved(v), at |-> v.ssectors, nsectors |-> v.nsectors, mfree |-> v.mfree,
     vec |-> vec, omap |-> pending, value |-> value]

DumpFinish ==
    /\ dumping # << >>
    /\ image' = << Snapshot(dev, Head(dumping).omap) >>
    /\ dev' = SwDump2(dev, Head(dumping).incr)
    /\ disk' = IF dev.swapping THEN disk
               ELSE [disk EXCEPT ![dev.swap] = Written(@, dev.ssectors + 1, MapSector)]
    /\ dumping' = << >>
    /\ UNCHANGED << block, omap, converted, names, value, count >>

(* The files that a snapshot needs are still there.                        *)
Kept(s) == s.file \in {names.snapshot, names.old}
           /\ (s.secondary = NoFile \/ (s.file = names.snapshot /\ s.secondary = names.old))

(* sw_restore(): no block is in memory or has a place in a swap file; the  *)
(* sectors are those of the snapshot.                                      *)
Restored(s) ==
    [dev |-> [EmptyDevice EXCEPT !.map = s.map, !.nsectors = s.nsectors,
                                 !.mfree = s.mfree, !.dump = s.file],
     disk |-> Remaining(disk, {s.file, s.secondary}),
     vec |-> s.vec, mem |-> [b \in Blocks |-> << >>], mod |-> [b \in Blocks |-> "no"]]

(* The driver stops, or is stopped, and is started again with the last     *)
(* finished snapshot (which, if the names had changed already, gets its    *)
(* name back): conf_restore(), o_restore().                                *)
Restart ==
    /\ Bounded("restarts", MaxRestarts)
    /\ image # << >> /\ Kept(image[1])
    /\ \E order \in Orders(image[1].omap) :
       LET s == image[1]
       IN /\ Become(Restore2All(Restored(s), order, s.secondary))
          /\ names' = [snapshot |-> s.file, old |-> s.secondary]
          /\ omap' = {b \in Blocks : s.vec[b] # << >>} \ s.omap
          /\ value' = s.value
    /\ converted' = FALSE
    /\ dumping' = << >>
    /\ UNCHANGED image

Next ==
    \/ \E b \in Blocks :
        \/ \E n \in 1 .. MaxVec : Change(b, n)
        \/ ChangeVar(b) \/ Get(b) \/ PutOut(b) \/ Collect(b) \/ Destruct(b)
    \/ Copied
    \/ \E incr \in BOOLEAN : DumpStart(incr)
    \/ DumpFinish
    \/ Restart

Spec == Init /\ [][Next]_vars

---------------------------------------------------------------------------
(* Properties.                                                             *)

SlotType == [sec : Sectors \cup {UNUSED}, swap : Indices \cup {UNUSED},
             dirty : BOOLEAN, data : {Junk, MapSector} \cup
                [block : Blocks, part : 1 .. MaxVec, n : 1 .. MaxVec, v : {0, 1}]]

(* The device's tables hold sectors, slots and indices; the numbers stay   *)
(* within the device and the file.                                         *)
TypeOK ==
    /\ dev.map \in [Sectors -> Indices \cup Slots \cup {UNUSED}]
    /\ dev.slot \in [Slots -> SlotType]
    /\ dev.nsectors \in 0 .. SWAPSIZE
    /\ 0 <= dev.sbarrier /\ dev.sbarrier <= dev.ssectors /\ dev.ssectors <= MaxIndex
    /\ {dev.swap, dev.dump, names.snapshot, names.old} \subseteq Files \cup {NoFile}
    /\ dev.swapping \/ dev.swap = names.snapshot

(* What the driver would read of block b.                                  *)
Read(b) ==
    LET From(sec) ==
            IF b \in omap /\ ~converted THEN ReadAt(disk, dev.dump, dev.map[sec])
            ELSE IF InSlot(dev, sec) THEN DataOf(Now, sec)
            ELSE ReadAt(disk, IF b \in omap THEN dev.dump ELSE dev.swap, dev.map[sec])
    IN IF mem[b] # << >> THEN mem[b] ELSE [k \in 1 .. Len(vec[b]) |-> From(vec[b][k])]

(* An object's data are the last that were given to it, wherever they are: *)
(* in memory, in the cache, in the swap file, in the snapshot; through     *)
(* evictions, snapshots, copying and a restart (where the last are those   *)
(* of the snapshot).  A dirty slot lost, a sector read from the wrong file *)
(* or shared by two objects shows here.  (Nothing is read between          *)
(* sw_dump() and sw_dump2().)                                              *)
Faithful == Running => \A b \in Blocks : Read(b) = Contents(b, value[b])

(* The last finished snapshot can be restored as long as its files are     *)
(* there: the driver, which goes on in the same file after an incremental  *)
(* snapshot, overwrites nothing of it, neither a sector nor the map.       *)
SnapshotIntact ==
    \A s \in ToSet(image) : Kept(s) =>
        /\ ReadAt(disk, s.file, s.at) = MapSector
        /\ \A b \in Blocks :
            [k \in 1 .. Len(s.vec[b]) |->
                ReadAt(disk, IF b \in s.omap THEN s.secondary ELSE s.file, s.map[s.vec[b][k]])]
              = Contents(b, s.value[b])

(* Its files are there, from one snapshot to the next, except while the    *)
(* next is being written and this one needs a secondary snapshot, whose    *)
(* name is the one that is given up first.                                 *)
SnapshotKept ==
    \A s \in ToSet(image) : Kept(s) \/ (dumping # << >> /\ s.secondary # NoFile)

(* The driver can be restarted from the last snapshot, whenever it stops.  *)
Restorable == SnapshotKept /\ SnapshotIntact

(* Every sector is free or belongs to one object, and to it once: after    *)
(* growing, shrinking, deletion, trimming and a restart, so that the       *)
(* number of sectors in use, nsectors - nfree, is that of the objects.     *)
SectorsApart ==
    LET owned == {o \in Blocks \X (1 .. MaxVec) : o[2] \in DOMAIN vec[o[1]]}
        Sec(o) == vec[o[1]][o[2]]
    IN /\ \A o, p \in owned : Sec(o) = Sec(p) => o = p
       /\ IsInjective(dev.mfree)
       /\ {Sec(o) : o \in owned} \cap ToSet(dev.mfree) = {}
       /\ {Sec(o) : o \in owned} \cup ToSet(dev.mfree) = Ids(dev)

(* Places in the swap file: no two objects that live there share one, none *)
(* of them is free, and a free one lies beyond the snapshot's sectors.     *)
PlacesApart ==
    LET here == UNION {ToSet(vec[b]) : b \in Blocks \ omap}
        place == Resolved(dev)
    IN /\ \A s, t \in here : place[s] = place[t] /\ place[s] # UNUSED => s = t
       /\ \A s \in here : place[s] < dev.ssectors /\ place[s] \notin ToSet(dev.sfree)
       /\ IsInjective(dev.sfree)
       /\ ToSet(dev.sfree) \subseteq dev.sbarrier .. dev.ssectors - 1

(* The cache: a slot is free or in the list, once, and is the one slot     *)
(* that the map gives for its sector, which some object owns.              *)
CacheSound ==
    /\ IsInjective(dev.order \o dev.lfree)
    /\ ToSet(dev.order \o dev.lfree) = Slots
    /\ \A i \in ToSet(dev.order) :
        /\ dev.slot[i].sec \in Ids(dev) \ ToSet(dev.mfree)
        /\ dev.map[dev.slot[i].sec] = i

(* The tables of the device: every sector, place and slot has one owner.   *)
DeviceSound == TypeOK /\ SectorsApart /\ PlacesApart /\ CacheSound

===========================================================================
