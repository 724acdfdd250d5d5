# laeran-mud in TLA+

A verification development for laeran-mud: the DGD driver (`src/src`, in C), the
kernel library (`src/mud/kernel`, in LPC) and the Phantasmal/laeran world on top of it
(`src/mud/usr`). The modules here are translated from the source of the driver's
callout table and main loop, of the callouts, the objects and the values of atomic code, of the object table
with its upgrades, of the swap device with its snapshots, of the communication manager, and of the
kernel library's suspension of callouts. They are
checked with TLC on small instances. For the callout table, the main loop around it and its
snapshots, all safety properties of the runs and the refinement of the contract are proved with TLAPS for every value of
the constants but one; so are all safety properties of atomic code and of the swap device, the three of the suspension of callouts and the five of the communication manager (section 6).

Paths below are those of the repository with `src/` in front, so that
`src/src/call_out.c` is the driver's `src/call_out.c`. `PROJECT.json` has, for every
definition that stands for code, the lines it stands for.

- [1. The system](#1-the-system)
- [2. The plan](#2-the-plan)
- [3. The modules and the code](#3-the-modules-and-the-code)
- [4. The runs](#4-the-runs)
- [5. Fairness](#5-fairness)
- [6. What is proved](#6-what-is-proved)
- [7. What the runs found](#7-what-the-runs-found)
- [8. What is not modelled](#8-what-is-not-modelled)

## 1. The system

The driver is one process with one thread of control. `dgd_main()` (`src/src/dgd.c`)
loops forever: copy some objects from the last snapshot to the swap file, serve an
interrupt, wait for input or for the time of the next callout, serve one round of input,
run the callouts that are due. What LPC code does between two calls of `endthread()` is
a *thread*. Nothing runs in parallel, but everything interleaves: threads with threads,
the copying of objects with the threads that change them, atomic code with its
own rollback, the swap cache with all of them, and snapshots and restarts with everything.
The hard behaviour of this program is therefore long sequences of legal calls that share
tables, state that is computed at one time and used at another, rollback, and what a
snapshot contains if the process stops.

### 1.1 The driver

| Component | State | Operations | Interacts with | What makes it correct |
|---|---|---|---|---|
| **Callout table**, `call_out.c` | `cotab` with a heap from below and linked lists from above, `cycbuf`, `immediate`, `running`, `flist`, `nshort`, `nzero`, `timestamp`, `timeout`, `timediff`, cached `cotime` | `co_check`, `co_new`, `co_del`, `co_remaining`, `co_expire`, `co_call`, `co_delay`, `co_time`, `co_dump`, `co_restore` | dataspaces (the callout's function and arguments), the main loop, snapshots | every callout of a dataspace is in the table once, where `co_del` looks; run once, at its time, in order; the process wakes in time; the two structures never overlap |
| **Main loop**, `dgd.c` | `rebuild`, `rtime`, `intr`, flags for swap, dump, stop | `dgd_main`, `endthread`, `errhandler`, `call_driver_object` | all others | every callout is run in the end; the time is the same within a thread and fresh in the next |
| **Dataplanes: callouts**, `data.c` | for each object a table of callouts with a free list; a stack of planes with patches; `ncallout` | `d_new_call_out`, `d_del_call_out`, `d_get_call_out`, `d_new_plane`, `d_commit_plane`, `d_discard_plane` | callout table, interpreter (`i_funcall` enters a plane) | atomic code is all or nothing, at every depth |
| **Dataspaces and arrays**, `data.c`, `array.c` | variables, arrays and strings with reference counts, patches of arrays, imports | assignment, `d_export`, array patches, `d_commit_arr`, `d_discard_arr` | swap device, object table | no value is shared by two objects after the thread; counts right after rollback |
| **Swap device**, `swap.c` | sector map, cache of slots, free lists of sectors, slots and places, barrier; the swap file and up to two snapshots | `sw_newv`, `sw_wipev`, `sw_delv`, `sw_readv`, `sw_writev`, `sw_dreadv`, `sw_conv`, `sw_trim`, `sw_dump`, `sw_dump2`, `sw_restore` | dataspaces and control blocks, snapshots | an object reads its own last data; no sector, slot or place has two owners; the last snapshot can be restored |
| **Copying and saving**, `sdata.c`, `object.c`, `config.c` | what is in memory, what is modified, what is still in the snapshot (`omap`, `dobjects`) | `d_swapalloc`, `d_save_dataspace`, `d_swapout`, `d_restore_obj`, `o_copy`, `o_dump`, `o_restore`, `conf_dump`, `conf_restore` | swap device, main loop | each object is read from the file it is in; copying ends |
| **Object table**, `object.c`, `path.c` | objects with names, reference counts, an upgrade chain; a stack of object planes; lists of objects to destruct and to upgrade | `o_new`, `o_del`, `o_upgrade`, `o_find`, `o_new_plane`, `o_commit_plane`, `o_discard_plane`, `o_clean` | dataplanes commit at the same time; snapshots | names unique; rollback restores names and counts; an upgraded object's data are converted before use |
| **Communication**, `comm.c`, `host/telnet.h` | table of users, telnet state, input buffer, pending output, list to flush | `comm_receive`, `comm_send`, `comm_flush`, `comm_close`, accept and connect | threads (input), atomic code (output only when it commits), `endthread` flushes | no output of failed atomic code; input in order, none after the close; users served in turn |
| **Interpreter**, `interpret.c`, `error.c` | stack, frames, resource limits, error contexts | calls, catch, `rlimits`, atomic functions | dataplanes, object planes | ticks and stack of nested limits; the error context that is left is the one that was entered |
| **Strings, hash tables, memory** | reference counts, chunks | allocation | all | counts |
| **Editor**, `editor.c`, `ed/` | block buffer, undo buffer, marks | line commands | one user at a time, temporary file | undo, line numbers |
| **Compiler**, `comp/`, `lex/` | include stack, macro table, nodes, program | compile | object table, inherits | output is the program of the input |
| **String parser**, `parser/` | automaton built on demand, parse states | `parse_string` | dataspaces (cached automata) | the parse is one of the grammar |
| **Kernel functions**, `kfun/` | none | argument checks | the parts above | |
| **Host**, `host/` | files, sockets, clock | `P_mtime`, `conn_select`, ... | | |
| **Configuration**, `config.c` | parameters, the header of snapshots | parsing, `conf_dump`, `conf_restore` | all parts' dump and restore | |

### 1.2 The libraries

| Component | State | Operations | What makes it correct |
|---|---|---|---|
| **Kernel: resources**, `rsrcd.c`, `rsrc.c`, `lib/api/rsrc.c`, `auto.c` | owners with limits and usage, decaying values; suspended callouts | `rsrc_incr`, `rsrc_get`, `call_limits`, `suspend_callouts`, `release_callouts`, `remove_callout` | usage is the sum of what owners have; a callout that was suspended is released once and in order, or removed |
| **Kernel: objects and access**, `driver.c`, `objregd.c`, `accessd.c`, `auto.c` | lists of the objects of each owner, access of users to directories | create, destruct, compile; set and query access | an object is in its owner's list once; no access without a grant |
| **Kernel: users**, `userd.c`, `connection.c`, `user.c`, `telnet.c`, `binary.c`, `wiztool.c` | managers of ports, users by name, a connection and its user object | connect, login, `receive_message`, logout, disconnect, `redirect` | one user per name; user object and connection know each other until both are gone |
| **System library**, `usr/System` | compiled objects and their issues, log channels, help, telnet and MUD clients | tracking of compilation and destruction, text output with a queue | issues of a program are destructed only when no object uses them |
| **World**, `usr/common` | numbered objects in segments, rooms with contents, exits in pairs, mobiles, channels, tags, time | numbering, moving, linking, loading and saving | a number names one object of the segment's owner; an object is in the container that contains it; an exit has its other side |
| **Game**, `usr/game` | commands, combat, quests | rounds by callouts | a fight ends with its fighters |

### 1.3 What is hard to test

`PROJECT.json` lists the hazards with their lines. In groups:

- **Two structures, one array.** The heap and the lists of the callout table
  share `cotab`; each grows into what the other gives up; index 0 is also "none"; the room left is computed
  in 16 bits, in part from a count that atomic code makes negative.
- **Time read once and used later.** `co_time()` caches, the clock may be turned back,
  the table's `timestamp` may be at most behind; a slot is computed from one and checked against
  another; `timeout` is only updated where a list becomes empty or stops being so.
- **One order from two structures.** Seconds come from the cyclic buffer and fractions from the heap.
- **A thread changes what is being iterated.** Callouts are removed and added while the collected ones are run.
- **Rollback.** Handles are freed and reused inside atomic code, which nests; committing merges patches.
- **Three homes of a sector.** A sector's entry in the map means a slot, a place in one of
  two files, nothing, or a link of the free list, and nothing in the entry tells which.
- **A stop at any time.** Snapshots are made in the middle of running callouts; an
  incremental snapshot lets the driver go on writing in the file it may have to be restored from;
  a partial one needs a second file.
- **Must happen in the end.** Callouts are run between rounds of input and may start other callouts.

## 2. The plan

In order of importance; the first ten are done.

| # | Module | State | What |
|---|---|---|---|
| 1 | `CallOutTable` | done | the table as a value, its operations as operators |
| 2 | `CallOut`, `CallOutContract` | done | main loop around it; what callouts promise; refinement; liveness |
| 3 | `CallOutTableProofs`, `CallOutProofs` | done | all safety properties of 1 and 2, the refinement among them |
| 4 | `CallOutSnapshot`, `CallOutSnapshotProofs` | done | snapshots of the table, stop and restart; all its properties proved |
| 5 | `AtomicCallOut`, `AtomicContract`, `AtomicCallOutProofs` | done | patches, nested atomic code; refinement of all or nothing; both proved |
| 6 | `Swap`, `SwapDeviceProofs`, `SwapProofs` | done | swap device, saving and copying of objects, full and incremental snapshots, restart; all its properties proved |
| 7 | `ObjectTable` | done | names, inheritance, recompilation with clones in memory and on the device, `o_clean` |
| 8 | `ObjectPlanes`, `AtomicObjects` | done | the object table in atomic code; refinement of all or nothing |
| 9 | `Comm`, `CommProofs`; `Suspension`, `SuspensionProofs` | done | users, input, output that can be rolled back, hanging up; suspended callouts of the kernel library; the invariants of both proved |
| 10 | `Dataspace` | done | reference counts of arrays, loading and saving, imports and exports between objects, backups of arrays through commit and discard |
| 11 | `Connections` | later | kernel library: connection, user object and manager through login, redirect and disconnect |
| 12 | `World` | later | numbering of objects, containment, pairs of exits |
| 13 | a linked-list version of the table | later | the lists as indices in `cotab`, shown to implement `CallOutTable` |

Abstract specifications worth stating: those of 2, 5 and 8 (done); for `Swap` a map from objects to values with a
saved copy (its properties `Faithful` and `SnapshotIntact` say the same state by state); for `Dataspace` a graph of values for each
object, which atomic code either keeps or puts back (`GraphUpTo`, in `ValuesKept` and `Undone`, says the same step by step).

Theorems in the plan, after those that are proved: `Stacked` of `ObjectPlanes` and `ImplementsAtomicObjects`, by a history like that of `AtomicCallOut`;
for `Copying` TRUE, what remains of `CycWindow` and `WakesInTime` (section 7).

## 3. The modules and the code

### 3.1 `CallOutTable`

The state of `call_out.c` as one record, and each function of the file as an operator from
one record to the next.

| Module | Code |
|---|---|
| `queue` | `cotab[0 .. queuebrk-1]`, a binary heap; a sequence, so `queuebrk` is its length |
| `list[l]` | the doubly linked lists `cycbuf[0 .. CYCBUF_SIZE-1]`, `immediate`, `running`; sequences of `[co, at]`, where `at` is the index in `cotab` |
| `cycbrk`, `flist` | the edge of the part used by lists, and the free indices in it (a set: which of them is next is left open, a wider choice than the code's) |
| `nshort`, `nzero`, `timestamp`, `timeout` | the same names, adjusted by `timediff` |
| `Enqueue`, `Dequeue`, `SiftUp`, `SiftDown` | `enqueue`, `dequeue` and their two loops; `SiftUp` and `SiftDown` describe the path that the loop walks, not its steps |
| `NewCallout`, `FreeCallout`, `NextTimeout`, `Recede` | `newcallout`, `freecallout` with the search for the next `timeout` and the receding edge |
| `CoTime`, `Timestamp` | `co_time`: cached, never back, at most `MAXLAG` (60 in the code) ahead of `timestamp`, which moves on over empty slots only |
| `Due`, `TooMany`, `CoNew`, `CoDel`, `DelList` | `co_check`, `co_new`, `co_del` with its guess of the list |
| `ExpireFirst`, `ExpireSlot`, `ExpireTimeout` | the pieces of `co_expire` |

The sizes are constants: `COTABSZ` (the configuration's `call_outs`), `CYCBUF_SIZE` (128),
`MSECS` (1000), `MAXLAG` (60). The text of a callout, the statistics of swapping and
`co_info` / `co_list` are left out.

### 3.2 `CallOut` and `CallOutContract`

`CallOut` is `dgd_main()` with `co_call()` unfolded to one action per callout, since a thread
runs between two of them. `pc` says where the driver is.

| Action | Code |
|---|---|
| `NoRebuild`, `RebuildLater`, `Rebuild` | the rebuild block of `dgd_main`; `co_time()` in its condition leaves `cotime` set |
| `Interrupt` | the driver object's `interrupt()`, a thread |
| `NoDelay`, `Delay` | `co_delay`; `NoDelay` is the early return, which keeps `cotime` |
| `Timeout`, `Input`, `NoInput`, `Served` | `comm_receive`: times out, or serves some users, a thread each |
| `NoneExpired`, `SomeExpired`, `NextSecond`, `FromQueue`, `FromCycbuf`, `Collected`, `Run`, `AllRun` | `co_call` and `co_expire` |
| `New`, `Del`, `Query`, `EndThread` | what LPC code does: `call_out`, `remove_call_out`, the status of callouts (it calls `co_time`), the end of the thread |
| `Tick`, `TurnBack` | the system clock, only where the process waits or executes LPC code |

`dco` is the callout as the dataspace of its object has it. Handles are
abstract: the set `Callouts` stands for pairs of object and handle, and what the dataspace does to
allocate handles is in `AtomicCallOut`.

`CallOutContract` knows nothing of the table: callouts wait for a time or are ready; a
ready one is run first in, first out; one becomes ready not before its time, in the order of
seconds, and never after it was removed. `ImplementsContract` is the refinement.

### 3.3 `CallOutSnapshot`

`CallOut` with an `image`. `DumpThread` is an `endthread()` that makes a snapshot, possibly with
collected callouts still to be run; `Restart` is `co_restore()` in a new process: it takes the table
of the image, derives `nzero` and `timeout` and sets the time on from the snapshot's.
`StillRunning` is the branch of `co_call` that finds `running` not empty at its start, which only
a restart makes possible. All properties of `CallOut` must hold across a restart.

### 3.4 `AtomicCallOut` and `AtomicContract`

Objects with tables of callouts (`callouts`, and `fcallouts`, the free list of handles), a
stack `plist` of planes, each with patches (`cop`) for the handles that were changed at its level,
and `ncallout`, the net number of callouts that the table does not know of yet.

| Action | Code |
|---|---|
| `EnterAtomic` | `i_funcall` of an atomic function: a new level and a plane of the called object |
| `NewCallOut`, `DelCallOut` | `d_new_call_out`, `d_del_call_out`; at level 0 the table changes, above it a patch is made or changed |
| `Commit` | `d_commit_plane` with `commit_callouts`: to the table from level 1 (`Applied`), else merged with the plane below (`Merged`) or moved to its level (`MovedDown`) |
| `Discard` | `d_discard_plane` with `discard_callouts`: handles freed and taken again (`Undone`) |

The constant `Callouts` of the configuration gives one object two handles and the other one.

`AtomicContract` is a stack of saved states. In `ImplementsAtomic` the states to go
back to are computed from the patches: `Before(c, l)` is what the patches from level `l` up would restore.
The whole happens within a thread, so time stands still.
`Applied` and `Undone` walk over the planes of the level and over the handles of each plane, one patch after the other, as recursive functions over numbers; the planes of the level that
runs are those at the head of `plist` (`InLevel`), where the loops of the code stop.

### 3.5 `Swap`

The objects (`Blocks`: dataspaces; a block is in memory or on the device) and the device under them.

| Variable | Code |
|---|---|
| `dev.map`, `dev.nsectors`, `dev.mfree` | `map`, `nsectors`, and the list of deleted sectors that is linked through `map` |
| `dev.slot`, `dev.order`, `dev.lfree` | the headers in `mem`, the list `first .. last`, the list `lfree` |
| `dev.sfree`, `dev.ssectors`, `dev.sbarrier` | places in the swap file: the list through `smap`, their number, the first not of a snapshot |
| `dev.swap`, `dev.dump`, `dev.swapping` | the two file descriptors and the flag |
| `disk` | what is in the files; file identities are `A`, `B`, `C`, and `names` says which is `snapshot` and which `snapshot.old` |
| `vec`, `mem`, `mod` | `data->sectors`, whether the block is in memory, `base.flags` |
| `omap`, `converted` | objects still to be copied from the snapshot; whether `d_converted()` was called, after which the cache and not the converter reads them |
| `image` | the last finished snapshot: which file, its map, the vectors and what the values were |
| `value` | history: what each object was last given |

| Action | Code |
|---|---|
| `Change`, `ChangeVar`, `Destruct` | new data in an object, of another size or in place; `d_del_dataspace` |
| `Get` | `o_dataspace` of a block that is not in memory: `sw_readv`, or `d_restore_obj` if it is still in the snapshot. A step of `o_copy` is the same |
| `PutOut`, `Collect` | `d_swapout(fragment)`, block by block in any order; the garbage-collected block that is saved and stays |
| `Copied` | the end of `o_copy` |
| `DumpStart`, `DumpFinish` | `conf_dump` up to the renaming of the files and the writing of the map; `sw_dump2`, which writes the header and so finishes the snapshot. The process may stop in between |
| `Restart` | at any time: `conf_restore` from the last finished snapshot, with its secondary one if it is partial |

The contents of a sector are one value: which block, which part, which size, and in the first part a value
that can be changed in place. So a read of a wrong sector, a wrong file or an old version is seen, and
bytes within a sector are not. A file has what was written to it, and a read of a place that was never written gives `Junk`. The loops of the code over the sectors of a vector, the slots of
the cache and the blocks in memory are walks (`Walk`), one step for each element; which block comes first in a list is left open (`Orders`). Left out: control blocks (they go the same way,
but are written once), the copy that is made when a rename fails, sector sizes other than the
snapshot's, the end of the sector space and failing system calls (all end the process).

One corner that the module shows and `SnapshotKept` states as an exception: after a restart from a partial snapshot and its
secondary one, the next `sw_dump()` removes `snapshot.old`, which is that secondary one,
before its own header is written; a stop in between leaves nothing that can be restored. Nothing in the
repository promises otherwise.

### 3.6 `ObjectTable`

The table of `object.c` between and during threads, outside atomic code. `tab` has the entries (`obj`, with the
fields of `Object` in the code, one of which, `cref` or `ref`, is a count or an index as in the code), the lists
`clean`, `upgrade`, `upgraded` and `destruct`, linked through the same fields as in the code, and the free entries (a set). `light` are the non-persistent
instances, wherever they are stored.

| Action | Code |
|---|---|
| `Compile`, `Recompile` | `c_compile` with `ctrl_inherit`, then `o_new` or `o_upgrade`: references to inherited programs, a template put before those of earlier upgrades |
| `Clone`, `NewLight`, `Touch` | `o_clone`, `o_lwobj`, the first call of a master, which makes its dataspace |
| `Destruct` | `destruct_object()`: `o_del` |
| `Load`, `CallLight` | `o_dataspace` and `d_upgrade_lwobj`: conversion by the maps of all templates since, composed (`Varmap`, `Upgraded`) |
| `EndThread` | `o_clean`: `CleanFirst` (with `o_purge_upgrades`), `CountFirst` (`o_clean_upgrades`), `UpgradeFirst` (`d_upgrade_mem`, programs change places), `DestructFirst`; then `d_swapout` of any objects |

A layout of variables is a number, a variable map a pair of them; a dataspace read through the wrong map
becomes `Garbled`. `Bare` and `Abandon` exclude two kinds of thread that the code does not survive (section 7).

### 3.7 `ObjectPlanes` and `AtomicObjects`

The same table in atomic code, without upgrades. Each level has a plane; a changed object has a patch, a copy that hides
the object of the plane below (`tab.patch[i]`, a stack); `tab.bucket` are the chains of the table of patches, in which
commit and discard meet them; `htab` and `ahtab` are the tables of names of the base plane and of all others, whose chains
are links from object to object or patch, as in the code.

| Action | Code |
|---|---|
| `Compile`, `Clone`, `Touch`, `Destruct` | `o_new`, `o_clone`, a first call, `o_del`, each through `o_alloc` and `o_owrite` (`Owrite`), which make the patch |
| `Enter` | `o_new_plane` |
| `Commit`, `Discard` | `o_commit_plane`, `o_discard_plane`: patch by patch in the order of the buckets, names relinked |
| `Clean` | `o_clean` between threads |

`AtomicObjects` is a stack of tables of which each is either dropped or takes the place of the one below.
`ImplementsAtomicObjects` computes the table of a level as what is seen through the patches up to it. Dataspaces are an exception that both state: one
that was made in atomic code stays when the code fails.

### 3.8 `Comm`

| Variable | Code |
|---|---|
| `comm.user`, `comm.ring`, `comm.freeuser` | the array `users`, the ring from `lastuser` on, the list from `freeuser` on |
| `comm.flush` | the list of users to flush |
| `comm.newlines`, `comm.odone`, `comm.nusers` | the counters of the same names |
| `comm.wait` | the connections for which `conn_wrdone()` is FALSE until `conn_select()` looks at them again: those that did not take all of a write (`Waiting`, `Selected`) |
| `comm.obj` | the objects of the connections with the extra value of a user object (flags and output buffer), which atomic code can roll back |
| `comm.got`, `net` | what peers received, sent and closed |
| `pc` | where the process is: in the loop, running callouts, accepting, in a user's turn, or in a thread |

| Action | Code |
|---|---|
| `Accept` | `comm_receive` with `conn_tnaccept` or `conn_bnaccept`, and `comm_new` |
| `FirstTurn`, `Turn`, `NoTurn`, `Skip`, `NextTurn` | the loop of `comm_receive` over the ring; blocked users and those without input are passed over |
| `TelnetInput`, `TelnetFull`, `TelnetClosed` | the telnet branch of `comm_receive`: `Step` is its state machine, `Deliver` the message; a full buffer is a message, a closed connection with input left is one too |
| `BinaryInput`, `BinaryClosed` | the binary branch |
| `Send`, `Echo`, `Block`, `Destruct` | what threads do: `comm_send` and `comm_write`, `comm_echo`, `comm_block`, the end of the object |
| `EndThread` | `endthread()`: `comm_flush` (`Flushed`) with `comm_uflush` and `comm_del`, or an error in atomic code, which takes back what `Operation` has changed in the objects but not the flush list |
| `Callout` | a thread that is not started by input |
| `HangUp` | the peer closes |

Bytes written are numbered for each connection, so a lost, repeated or swapped one is seen; an answer to a telnet option is one
byte, written whole or not at all, as in the code. How many bytes the system takes of a write is left open (`Takes`), but a
connection that has not taken all is not written again before `conn_select()` (`wait`), and `InOrder` rests on that: the loop of `comm_receive()`
counts the users that there were when it began, so when the thread of a `message_done` has removed some, it comes around to a user again, who may be in the flush list by then with a buffer that was rewritten
(for the answer to a telnet option) without the bytes already sent. Its
`osdone` belongs to the old buffer until `comm_flush()`. What keeps `comm_uflush()` from skipping bytes of the new one is that such a buffer was cut
short by a connection that does not take more before the next `conn_select()`. A
peer that has hung up is gone, and writing to it fails. Left out, because it needs an allocation or a callback that fails in a way
that code outside decides: the user that `comm_setup()` leaves behind if `create()` of its object fails
(the object was created before), and the `message_done` that is lost when it is due for a write that
was rolled back (`comm.c:568`).

### 3.9 `Suspension`

The callouts of the kernel library as `auto.c` and `rsrcd.c` keep them: `callout` (none, waiting, held), `usage` of the resource
`callouts` by the owner and each object, and `rsrcd` with `suspend`, the linked list in `suspended`, and its own callouts `release` with their handles.

| Action | Code |
|---|---|
| `CallOut`, `RemoveCallOut`, `Run` | `call_out()`, `remove_call_out()` and `_F_callout()` of `auto.c`; `remove_callout()` of `rsrcd.c` for one that is held |
| `Hold` | `_F_callout()` when callouts are suspended: started again with a long delay, and `suspend()` |
| `Destruct` | `_F_destruct()`, `remove_callouts()` |
| `SuspendCallouts`, `ReleaseCallouts`, `Release` | `suspend_callouts()`, `release_callouts()`, `release()` of `rsrcd.c` |

A callout that is started again gets the handle it had, since that is the first of the free list (`AtomicCallOut`).

### 3.10 `Dataspace`

The values of objects: variables and arrays, in memory and saved. `data` has what is in memory and on the device, `thread` how far
a thread is and, as history, what the values were where atomic code was entered.

| State | Code |
|---|---|
| `variables` | `data->variables`, or `NoVariables` while they are not loaded |
| `arr` | all arrays in memory: `home` is the dataspace of `primary`; `slot` the index of `primary` in `arrays`, or 0 for the `alocal` of the plane at level `plane`; `elt` the element, or `Unloaded` |
| `planes` | the stack of dataplanes: `level`, `flags` (`MOD_*`), `achange`, `imports`, `original`, `arrays` (the slots, with their counts and `ARR_MOD`), `achunk` (backups) |
| `image`, `disk` | `svariables`, `selts` and `sarrays`, in memory and on the swap device |
| `gc`, `ifirst` | the ring of dataspaces in memory, from `gcdata` on; the list of dataspaces with imports |
| `stack` | the arrays that code at each level of atomic code has on the stack |

| Action | Code |
|---|---|
| `New` | the making of an array: `arr_new` with `d_ref_imports` |
| `SetVar`, `SetElt` | `d_assign_var`, `d_assign_elt` with `ref_rhs`, `del_lhs` (an array leaves its slot with the last reference from the dataspace) and `arr_backup` |
| `Reads`, in all actions | `d_get_variable` and `d_get_elts`, which load what is read into the slots of all planes |
| `Enter`, `Commit`, `Discard` | `i_funcall` of an atomic function and its return, `i_restore`: `d_new_plane`, `d_commit_plane` with `commit_values` and `arr_commit`, `d_discard_plane` with `arr_discard` |
| `EndThread` | `endthread()`: `d_export` with `d_import` (an array that nothing else refers to moves, another is copied), then `d_swapout`: `d_save_dataspace` as a whole (`Rebuilt`, `d_count` and `d_save`) or in place (`SavedInPlace`), `d_free_dataspace` |

Reference counts of arrays in memory are not a field: `Refs` and `Held` say what refers to an array, and an array without references is freed (`Freed`), as
`arr_del` does; arrays that only refer to each other stay until the dataspace is saved as a whole. The counts that are kept per slot are a field,
since they are what can be wrong (`CountsRight`). An array has one element: with it arrays form chains, cycles and shared tails.

`ValuesKept` asks for the same graph, with what is shared in it, unless two objects import from each other in one thread. Then `d_export()`
moves or copies the arrays of one object before those of the other, and an array that both had shared within one of them may become two of the same contents;
the values are still asked to be the same.

## 4. The runs

Constants are in the `.cfg` files. Bounds are those constants that the code has not: they are in guards and named.
`MaxSec` ends the clock, `MaxHandle` and `MaxLevel` end allocation and nesting, `MaxVec`, `MaxIndex`,
`MaxChanges`, `MaxDumps` and `MaxRestarts` end the growth of objects and files and the history, `MaxLayout` and `MaxSteps` the
number of upgrades and the length of a thread, `MaxRead`, `MaxSent` and `MaxOps` what peers and threads send.

| Run | Properties | Question |
|---|---|---|
| `whole` | `TypeOK Counted Found CycWindow TableSound WakesInTime InOrder ImplementsContract` | delays with and without a fraction, in the cyclic buffer and beyond it, a table that fills up, a clock that is turned back at any time |
| `live` | `WakesOnTime EventuallyRun` | fractions, while objects are copied and the time is cached by the main loop: the process wakes on time, and every callout is run or removed in the end |
| `snapshot` | `Found Resumes` | a snapshot between callouts, a stop at any time, a restart |
| `atomic` | `AtomicSound ImplementsAtomic` | two objects, two levels, a free list, a table that fills up |
| `swap` | `DeviceSound Faithful Restorable` | two objects of up to two sectors, a cache of two slots, two snapshots, full or incremental, and a restart |
| `objects` | `Consistent References FreeRight LayoutsFit` | a library, a master with clones, one with non-persistent instances, upgraded and destructed by threads of three operations |
| `planes` | `PlanesSound Found ImplementsAtomicObjects` | masters of one name, clones, two levels |
| `dataspace` | `ArraysSound CountsRight Apart ValuesKept Undone` | two objects, new or saved with a list of two arrays, that change and exchange arrays at two levels of atomic code |
| `comm` | `InOrder EchoKnown FullWithoutLine` | one slot for a telnet and a binary connection, all input, output that is taken in parts |
| `turns` | `UsersSound Settled Heard Noticed` | two users at once: the rounds and the list to flush |
| `suspension` | `ListSound Counted EnoughReleases Released` | callouts held, released, removed and lost with their object |
| `stale_release` | `NoneWhileSuspended`, violated | section 7 |

Some invariants are conjunctions of named parts: `TableSound` of `TimeoutFirst`, `Shared` (the two users of `cotab` do not overlap),
`NoOverflow` and `SecondsHeap`; `AtomicSound` of the type, `FreeHandles`, `Stacked` and `NetCount`; `DeviceSound` of the type, `SectorsApart`, `PlacesApart` and
`CacheSound`; `Restorable` of `SnapshotKept` and `SnapshotIntact`; `FreeRight` of `FreeUnused` and `NoLeak`; `Consistent` of the type and `TemplatesCounted`; `LayoutsFit` of `DataFits` and `LightFits`; `PlanesSound` of the type, `Stacked`, `Counted` and `Reclaimed`;
`UsersSound` of the type, `Counted` and `RingSound`; `ListSound` of the type, `Linked` and `Held`.

Why the bounds are enough for the interesting cases:

- *Callouts.* Three callouts are enough for a heap with two children and for lists with a middle element;
  `COTABSZ` is one more than that, so that the table is full with the last one, as
  `co_check` sees it. `CYCBUF_SIZE` 2 to 4 and `MaxSec` beyond it make the buffer go round; delays are taken from both sides of its length. `MAXLAG` 1 makes the
  clock run away from the timestamp. With `MSECS` 2 fractions differ, with 1 they do not exist. `whole` has callouts with halves of a second, so
  its `WakesInTime` is to the second; `live` has few enough callouts for `WakesOnTime` to hold (section 7).
- *Snapshots of callouts.* A snapshot can be made in every thread; restarts are not bounded.
- *Atomic code.* Two levels are enough for a commit to the base, for one to a level that is above another, and for both kinds of rollback; the object with one handle
  and the one with two make a plane that is moved and one that is merged in the same commit, and a free list that is reused.
- *Swap.* Two objects of two sectors are more than the cache of two slots holds, so eviction, partial writes and growing and
  shrinking vectors happen together. Two snapshots give every pair of full and incremental, and a restart may follow each.
  Six places in a file are one more than the objects and the two extra sectors of an incremental snapshot need; what does not fit is not taken. Three changes are enough to make an object, snapshot it, change it and delete it.
  Symmetry exchanges the two objects. `CHECK_DEADLOCK FALSE`: when the
  changes and snapshots are used up and nothing is in memory, a behaviour of the bounded model stops; the program does not.
- *Objects.* Four entries hold a library, a master, a clone and a template, or a master with two templates and a clone that lags behind by two upgrades
  (three layouts). Three operations in a thread are enough to clone, upgrade and destruct before `o_clean`.
- *Planes.* One name and three entries: the name is destructed and given to another object at either level, with a clone or a second
  master besides. Two buckets make the order of the patches differ from that of the entries.
- *Values.* One variable and a list of two arrays have a first array that is shared by a variable and code, a last one that is shared by an element and code, and
  both cycles that two arrays can form. Three operations are enough to take an array from one object, put it in the other and change it there. Levels of atomic code are entered
  before any is left, only in the first thread, and the second counts as an operation; then up to two more changes are committed, undone, or committed and then undone with the caller's. Two arrays per object,
  four in memory with those that are no longer referred to from a variable. Without a fragment (`Fragment` FALSE) nothing is swapped out but all objects at once, and each thread saves
  one dataspace, the next of the ring, to collect its garbage; so a dataspace is saved as a whole, in place, after a change or without one. `MCDataspace` has longer choices of saved lists. Symmetry exchanges the two objects.
  `CHECK_DEADLOCK FALSE`: when the operations are used up no thread starts.
- *Communication.* A buffer of two bytes is full with one line that is too long, or with a character and a line end; three bytes
  reach every pair of states of the telnet machine. Output of two bytes and a telnet option overflows the output buffer. Two users are enough for a turn that is given to another one while one is removed.
- *Suspension.* Two objects with two handles, of which one may suspend, and a limit of three: a list with a middle, a removal from each of
  its places, and the limit reached. Five handles for `release` are one more than are ever needed at once in this instance. `CHECK_DEADLOCK FALSE`: all objects may be destructed.

Symmetry sets are only used in runs without liveness. Each property has a mutant: a
changed operator, beside the one it replaces, with a plausible mistake in it (a guard dropped, a swapped order, a
forgotten reset) that violates this property in this run.

## 5. Fairness

`FairSpec` of `CallOut`, used by `live` alone:

- `WF(Loop)`, `WF(Call)`: the process runs whenever it can. There is one, and nothing else holds it.
- `WF(EndThread)`: LPC threads end. The driver's resource limits (`rlimits`) end a thread that
  does not.
- `SF(Tick)`: time goes on, however briefly the process waits each time. Strong, since the clock stands still in
  the model between the waits.
- `SF(Served)`: `comm_receive` returns although there is more input. It goes through the table of users once
  per call.

Nothing is assumed of `Input`, `Interrupt`, `New` and `Del`: users and LPC code may do nothing or as much as
they like. `EventuallyRun` needs no assumption on how many callouts are started, since a new immediate callout
waits for the next round. The clock is not turned back in `live`; a clock that is turned back for ever makes time stand still.

`FairSpec` of `Comm`, used by `turns`: the process takes a step again and again (`[]<><<Process>>_vars`). One of its steps is always possible, so this is its weak
fairness; threads are short by `MaxOps`, as the driver's limits make them. Nothing is assumed of peers.

`FairSpec` of `Suspension`: `WF(Release)`, a callout of the resource manager runs in the end. That is `EventuallyRun` of `CallOut`, used here as an assumption.

## 6. What is proved

For every set of callouts, size of the table, length of the
cyclic buffer, number of sub-second units, lag, set of delays, and with a clock turned back or not:

| Theorem | Module | States | If |
|---|---|---|---|
| `TypeCorrect` | `CallOutProofs` | `Spec => []TypeOK` | |
| `CountersRight` | `CallOutProofs` | `Spec => []Counted`: `nshort` and `nzero` count what is in the lists | |
| `AlwaysFound` | `CallOutProofs` | `Spec => []Found`: a callout is in the table once, where `co_del()` looks, and nothing else is | `~Copying` |
| `AlwaysInWindow` | `CallOutProofs` | `Spec => []CycWindow`: a slot stands for one second of the present round | `~Copying` |
| `AlwaysSound` | `CallOutProofs` | `Spec => []TableSound`: `timeout` is the first second, heap and lists stay apart, index 0 is not given away, the heap is ordered by seconds | `~Copying`, `Few` |
| `AlwaysInTime` | `CallOutProofs` | `Spec => []WakesInTime`: `co_delay()` never sleeps past the second of the first callout | `~Copying` |
| `AlwaysInOrder` | `CallOutProofs` | `Spec => InOrder`: callouts are collected in the order of seconds | `~Copying` |
| `AlwaysImplements` | `CallOutProofs` | `Spec => ImplementsContract` | `~Copying` |
| `AlwaysFoundAgain`, `AlwaysInWindowAgain`, `AlwaysInTimeAgain` | `CallOutSnapshotProofs` | the same of `SSpec`, with snapshots in any thread and restarts from them | `~Copying` |
| `AlwaysSoundAgain` | `CallOutSnapshotProofs` | the same of `SSpec` | `~Copying`, `Few` |
| `AlwaysResumes` | `CallOutSnapshotProofs` | `SSpec => Resumes`: what was to run is to run, in its order, and what `co_restore()` derives is what was saved | `~Copying` |

Assumptions on constants: `TableAssumption` (sizes are positive numbers, `MAXLAG` among them, which is 60 in the code) and `LoopAssumption` (delays are numbers, the
sub-second part in range). TLC evaluates both in every run. The two hypotheses are of the theorems, because the code needs them:

- `~Copying`: the rebuild block of `dgd_main()` leaves no object to be copied later, that is, the driver was not started from a snapshot whose objects are still
  copied one by one. While they are, `rtime` and a cached time outlive the thread, and `CycWindow` is false of the code: section 7 has the
  counterexample. `TypeCorrect` and `CountersRight` do not need it.
- `Few`: fewer callouts than the table has entries, so that the table is never exactly full. With as many, `NoOverflow` is false of the code (section 7).
  Only `AlwaysSound` and `AlwaysSoundAgain` need it, and only for `NoOverflow`.

*The inductive invariant for the type.* `TypeOK` is not inductive. `NextTimeout` searches the slots for the next one
that is in use, without a bound; that it returns a number at all depends on there being one, which the code infers from
`nshort # nzero`. So the counters must be right for the type of `timeout` to be. They in turn
depend on where the driver is: `co_expire` assigns `immediate` to `running`, which only keeps the count if
`running` was empty. So

    IInv == TypeOK /\ Counted /\ NothingRuns

where `NothingRuns` says that `running` is empty while callouts are collected.

*The inductive invariant for the rest.*

    AInv == IInv /\ TabAgrees /\ CachedTime /\ ExpiresNow

`TabAgrees` is that the table agrees with the dataspaces, in three versions, since `co_expire()` makes it disagree for a while in a known way:

- `Agree(tab, dco)`, everywhere else, is `Sound` (the table alone), `Timed` and `Soonest`. `Sound` is `Good` (typed and counted), `Heap`
  (seconds ordered), `Placed` (each callout and each index of `cotab` once) and `Packed` (the part of `cotab` above `cycbrk` is what lists use plus the free list, and the heap is
  below). None of the last three is kept without the others: the sift that fills a hole in the heap is only right if the entry is there once, and an
  index taken from the edge is only free if the part above it is full. `Timed` says of each callout in a slot that its time is that of the slot in the present round, and of each
  in the heap that its entry has its time. `Soonest` says that `timeout` is the first second in the slots, and is 0 only when they are empty.
- `Between(tab, dco)`, at `expire`: `timestamp` may have reached `timeout`, since the slot of that second was just emptied and the search for the next one comes last.
- `AtSecond(tab, dco)`, at `pop`: the window reaches back by one second, the one whose slot is next.

`CachedTime` says that a cached time belongs to a thread and is not before `timestamp` (what `Copying` breaks), `ExpiresNow` that `co_expire()` sees one time throughout and
does not go past it. `WakesInTime` and `NoOverflow` are then shown with one conjunct more each: the property itself at the state in which the process waits, and
`AboveZero`, that `cycbrk` is not 0. The latter is a counting argument (`OneTooMany`): the indices above an edge at 1 with no free element among them are `COTABSZ - 1` callouts,
which leaves none to be entered.

*How the proofs are built.* `CallOutProofs` EXTENDS `CallOutTableProofs`, and `CallOutSnapshotProofs` EXTENDS `CallOutProofs`.

| Module | Lemmas about |
|---|---|
| `CallOutTableProofs` | the heap alone: sifting up and down along a path that is not computed step by step but described (`LeastExists` and the like: induction by the least member of a set); types and counters through each operation (`CoTimeGood`, `CoNewGood`, `CoDelGood`, ...): cardinality of entries, seconds and slots, the search for the next `timeout`; `Sound` through each operation: which entries are in which list or in the heap afterward (`Came`, `Went`, `Moved`), and which indices of `cotab` are used |
| `CallOutProofs` | one step for each action of `Next`, for `IInv`; then `Agree`, `Between` and `AtSecond` through each operation and each piece of `co_expire()`, one step for each action for `AInv`, and what follows from it; at last, that each action is a step of the contract or leaves alone what it speaks of |
| `CallOutSnapshotProofs` | the same for `SNext` |

*Refinement.* `waiting` and `ready` of the contract are computed from the table: the lists that run, in their order, and all others. `AbsStep` lists what a step of the contract can be; for
each operation of the table there is a lemma that says which of them it is: `co_new()` calls, `co_del()` cancels, `co_expire()` at a slot or at the heap expires
a set of callouts in some order, `co_call()` runs the first. What makes the second hard is that the contract wants all callouts that expire to be due and none that is
left to be earlier, which is `TabAgrees` at the two points of `co_expire()` where `timestamp` stands for the second in question.

*Snapshots.* With `ImageAgrees` (a snapshot agrees with the dataspaces that were saved with it) `SAInv == AInv /\ ImageAgrees` is inductive. The proof rests on `RestoredSame`: on a table
that agrees, what `co_restore()` computes for the fields that are not saved is what they were. For `timeout` that is `TimeoutIsNext`, the first used slot from `timestamp` on; it holds because a snapshot is
made in a thread and never within `co_expire()`.

*Suspension.* For every finite set of objects, set of those that may suspend, limit, and number of handles and of releases:

| Theorem | Module | States |
|---|---|---|
| `AlwaysListSound` | `SuspensionProofs` | `Spec => []ListSound`: the list is linked both ways and has exactly the callouts that are held |
| `AlwaysCounted` | `SuspensionProofs` | `Spec => []Counted`: the owner and the objects are charged with the callouts that there are |
| `AlwaysEnough` | `SuspensionProofs` | `Spec => []EnoughReleases`: while callouts are released there is a release to come for each one on the list |

They rest on `SuspensionAssumption` alone. `Linked` says what walking along `next` returns, which no step could be shown to keep by itself. The inductive invariant says instead that
*some* sequence is the list (`LinkedBy`: its members, their neighbours, both ends), and `ChainIs` that the walk then returns it. Next to that,

    IInv == Counts(usage, callout) /\ usage.owner <= MaxCallouts /\ ListInv(rsrcd, callout) /\ alive \subseteq Objects

has `Pool` (a handle is either of a release to come or free, and only once), without which removing a release might remove two, and that nothing on the list has a release while
callouts are suspended, without which `release_callouts()` would skip it. `UnlinkLinked` is `remove_callout()`: the four cases of its links, and the release that it takes from the last of the list
for the one that goes. `EnoughReleases` holds all the same, for it only counts; `NoneWhileSuspended`, which needs to know which release is whose, does not (section 7).
Three functions of the code walk over the list or over the handles; for each of them it is proved by steps (`StepByStep`, an induction over a set) that the recursive function of the model exists and what it has
reached after each step.

*Communication.* For every set of telnet and of binary connections, number of users, sizes of the two buffers, set of what peers may send and bounds:

| Theorem | Module | States |
|---|---|---|
| `UsersAreSound` | `CommProofs` | `Spec => []UsersSound`: the type, the counts that `comm_receive()` goes by, the ring and the free users |
| `OutputInOrder` | `CommProofs` | `Spec => []InOrder`: what a peer got and will get is all that was written, once and in order |
| `EchoIsKnown` | `CommProofs` | `Spec => []EchoKnown`: the last option sent or about to be sent agrees with `CF_ECHO` |
| `FullBuffersHaveNoLine` | `CommProofs` | `Spec => []FullWithoutLine`: a full input buffer that is given away as one message has no line in it |
| `ThreadsAreSettled` | `CommProofs` | `Spec => []Settled`: nothing is left to flush when `comm_receive()` has returned |

They rest on `CommAssumption` alone: the two kinds of connections are apart, sizes are positive, bounds are numbers. The inductive invariant is

    IInv == TypeOK /\ Sound(comm) /\ ListSound(comm) /\ NewUnknown /\ PcSound

- `Sound(m)` speaks of the users and the objects, and holds of every intermediate value that an action goes through: users and objects know one another (`Linked`); ring and free list share out the
  users (`Shares`); counters are sums (`Sums`); of each input buffer, the number of its lines, and room in it while it has one (`InputSound`); of each user, object and peer together `OutputSound`.
  The last joins what only holds together. `OrderSound` and `EchoSound` say what the peer will have read when the rest of the buffer is sent; that the rest begins where it does is
  `BufferSound` (`outbuf` only in the flush list, `osdone` within the buffer it belongs to, no `message_done` due with output pending); `FlushedSound` says that what is not in the flush list
  agrees with the object, which makes flushing the list enough.
- `ListSound`: the flush list has each user with `CF_FLUSH` once. With it, flushing one after the other reaches `Settled`.
- `NewUnknown`: a connection still to be accepted has no object.
- `PcSound` is what each place in the loop may count on. Its part for the turns cannot be guessed from the properties: a user in the flush list that had a buffer when it was put there is `Stuck`, which
  means that `comm_uflush()` sends nothing of it. Without that `InOrder` is not inductive, because `comm_uflush()` would go on at the `osdone` of a buffer that is there no more (section 3.8).

Each operation is shown once to keep `Sound` and to be what the next one needs: writing (`WriteIsDone`), sending (`OutputIs`), the echo option (`EchoIs`), changing to the new buffer (`StateIs`), removing a
user (`IsRemoved`), one user of the flush list (`UserIsFlushed`); then the actions are put together from these. `Reads`, `Flushed`, `Parsed`, `Answered` and `Lines` walk over a sequence or a number of users, as
recursive functions. `WalkExists` gives each of them its values, `StepByStep` (an induction over a set of numbers) an invariant of the walk.

*Atomic code.* For every finite set of objects and of their callouts, number of handles, depth of atomic calls, set of delays and of what is called, and size of the table:

| Theorem | Module | States |
|---|---|---|
| `AtomicIsSound` | `AtomicCallOutProofs` | `ASpec => []AtomicSound`: free lists are exact, `ncallout` is the difference of the two counts modulo 2^16, planes are stacked |
| `AtomicImplements` | `AtomicCallOutProofs` | `ASpec => ImplementsAtomic`: `AtomicContract`, at every depth |

They rest on `TableAssumption` and `AtomicAssumption` alone: handles and objects are finite, bounds and delays are numbers, and nothing that is called is the mark of a free handle. Neither says that the commit
has room in the table (`QueueFits` does not hold, section 7): where the code then ends with `fatal()`, the model goes on with an index below 0 or a queue that is too long, so what is shown
covers every behaviour of the code up to there.

A patch alone says little: whether `REPLACE` is right depends on the planes below it, on those above it, and on what was in the table when the outermost function began. So the inductive
invariant has a history, that no variable keeps:

    IInv == \E was : Known(was)

`was[l]` is what all callouts were when level `l` was entered (`was[level + 1]`, and above, is what they are). `Known(was)` says that

- each patch of a plane of level `l` leads from `was[l]` to `was[l + 1]` (`Wraps`, `Fits`: an `ADD` from nothing to `aco`, a `REMOVE` from `rco` to nothing, a `REPLACE` from `rco` to `aco`), with the time and the
  place of `aco`, and a callout that differs between the two has a patch there (`Explains`);
- the table shows `was[1]`: each of its callouts once, where its time puts it, and no other (`Shows`);
- `ncallout` is the difference of the counts of the dataspaces and of `was[1]`;
- planes are in order (`Stack`), and dataspaces have free lists that are exact (`Spaces`).

Each action then has a new history: a started or removed callout changes it above the level that runs, `EnterAtomic` does not change it, `Commit` takes out the state of the level that ends, and `Discard` goes back to
it. What is shown for them, in the order of the module:

| Part | What |
|---|---|
| the table | `co_new` and `co_del` at a timestamp that stands still, on a table that shows a set of callouts; the lemmas of `CallOutTableProofs` give the type and the order of the heap |
| dataspaces | handles taken from and put back on the free list, in any order |
| patches, planes, levels | what committing or undoing one patch, the patches of a plane, and the planes of a level does to the table, the dataspaces and `ncallout`; walks, by induction over a set of numbers (`WalkWithin`, `StepByStep`) |
| merging | `MergePatches` of patches that lead from a to b and from b to c leads from a to c (`MergePatchesIs`); which planes there are after `Commit` (`Descends`, `MovedDownIs`, `MergedIs`) |
| operations | `NewStep`, `DelStep`, `EnterStep`, `CommitStep`, `DiscardStep` |
| theorems | `KnownSound`; `AlwaysMapped`: what `Before` computes from the patches is the history; `StepContract`: every action is a step of the contract |

*Swap device.* For every finite set of blocks, number of sectors, slots and places, and size of a block, and for every history of changes, snapshots and restarts:

| Theorem | Module | States |
|---|---|---|
| `DeviceIsSound` | `SwapProofs` | `Spec => []DeviceSound`: the type; every sector, place and slot has one owner, and none is lost |
| `DataAreFaithful` | `SwapProofs` | `Spec => []Faithful`: an object reads what was last given to it, wherever that is |
| `SnapshotIsRestorable` | `SwapProofs` | `Spec => []Restorable`: the last finished snapshot is there and intact |

They rest on `SwapAssumption` alone: the numbers are numbers, the cache is smaller than the device, and the device has sectors for all blocks (a driver that runs out of them ends). The inductive invariant is

    IInv == Sound(Now, Pending, value, converted) /\ NamesOk /\ (dumping # << >> => Flushed) /\ (image # << >> => ImageOk(image[1]))

with the types of `value` and of the set of pending blocks, and the length of the swap file.

- `Sound(d, pend, x, conv)` speaks of the device and all blocks, of which those in `pend` are still in the snapshot, and holds of the state after each part of a step too. `Apart`, `Numbers`, `Cache` and `Places` are the tables: no sector
  twice in the vectors, sectors up to `nsectors` in use or free, slots listed or free, places in the swap file apart. `BlockOk` says of a block where its value is: in memory, and of each sector that memory does not
  make good (`mod`), in its slot or in the swap file (`Has`: a slot that is not dirty is as the file has it). `PendingOk` says that a block still to be copied has all of its value in the snapshot, and in a slot, if it
  has one, unchanged. None of it could be shown alone: that an eviction loses nothing needs places apart, which needs sectors apart, which needs vectors of the right length, and that is `BlockOk`.
- `Places` makes one exception, without which it would be false: a sector of a block still to be copied has a place in another file, and its number means nothing to the swap file. Such a slot is never dirty, so it is never written there.
- `NamesOk` is which file is which: the swap file is not a snapshot while the device swaps, and is the last one while that is written or written to further.
- `Flushed`: between `sw_dump()` and `sw_dump2()` nothing is in memory only, and the places that the map gives are those of the values.
- `ImageOk(s)`: the last snapshot has its values as long as its files are there, and everything it needs lies below the barrier. The last is what an incremental snapshot rests on: `sw_load()` writes a sector below the
  barrier to a new place, `sw_wipev()` does not free its old one.

| Module | Lemmas about |
|---|---|
| `SwapDeviceProofs` | walks (`WalkWithin`, an induction over a set of numbers) and lists; each operation on one sector: `sw_load()` with a free slot, with one that is given up, and with the sector in a slot already (`LoadIs`), writing (`WriteIs`), wiping and deleting (`WipeIs`, `DelIs`), what a block is read from (`ReadVIs`, `DReadVIs`, `ConvIs`), new sectors (`NewVIs`, with the count that there is room, `RoomIs`). `Writes`, `Keeps` and `Goes` say what an operation leaves alone: the data of all other sectors, and the files below the barrier |
| `SwapProofs` | blocks: saving, swapping out, copying from the snapshot, deletion (`SaveIs`, `SwapOutIs`, `RestoreBlock`, `DestructIs`); all blocks of a list (`SwapOutAllIs`, `RestoreAllIs`); flush, trim and map (`FlushIs`, `TrimIs`, `SwDumpIs`); what a snapshot is when it is finished (`SnapshotIs`) and what a restart makes of it (`RestoredIs`); one step for each action; the three properties from the invariant |

`DumpFinish` of an incremental and of a full snapshot turn the same `Flushed` into different things: in one all values stay in the swap file, below a new barrier; in the other
`Has` becomes `HasIn`, every block is pending, and the swap file is empty. `Restart` starts from `ImageOk`: the values that it needs are those the image has, not those the driver had.

What stays with TLC, and why:

- *Liveness* (`EventuallyRun`, `Heard`, `Noticed`, `Released`): fairness and `ENABLED` are beyond the prover.
- *`Copying` TRUE* and `WakesOnTime`, which `live` checks on an instance where they hold: they do not for all values of the constants (section 7).
- *Folds and walks over data* (`ObjectTable`, `ObjectPlanes`, `Dataspace` with its recursive walks), and with them
  `ImplementsAtomicObjects`: what a fold computes for every sequence is an induction with an operator as a parameter, which
  the installed provers cannot instantiate. Where a fold can be described by its result instead, as the sifts of the heap are, or written as a recursive function over numbers, as
  those of `Suspension`, `Comm`, `AtomicCallOut` and `Swap` are, it can be proved about; for the three that is left to do.

## 7. What the runs found

One run is expected to end with a violation:

- `stale_release`: `release_callouts()` starts one callout `release` for each callout on the list, and `release()` releases the first of the list, whichever
  callout it was started for. When a callout before the last is removed, `remove_callout()` removes the release of the last one and gives that one the
  handle of the callout removed, which fires earlier: the handles on the list are no longer in the order in which they fire. After that release has run, the last one on the list has
  the handle of a release that has gone, a release that is still to come is on nobody's record, and `suspend_callouts()` does not remove it: it
  releases a callout while callouts are suspended.

The following do not hold of the code either. They need constants of their own, and the runs keep away from them by the choice of constants, named here, so
that they can be reproduced by changing a `.cfg` file:

- *`WakesOnTime` with six callouts.* `dequeue()` decides by the seconds alone whether the last entry moves up or down. With the same second and
  an earlier fraction it is left below a later parent, and `co_delay()` lets the process sleep past it.
  (`SecondsHeap` states what does hold; so a callout is late by less than a second.)
  `MCCallOut` with six `Callouts`, `COTABSZ` 7, `CYCBUF_SIZE` 2, `MSECS` 4, `MAXLAG` 1, `Delays` {1}, `Mdelays` {0, 1, 2, 3}, `MaxSec` 1, neither copying nor a clock that is turned back.
- *`CycWindow` while objects are copied.* `dgd_main()` calls `co_time()` for its rebuild check and `co_delay()` returns
  early when there are immediate callouts, both without resetting the cached time. `co_expire()` moves `timestamp` on with a fresh time. A callout's
  thread then computes with a time before `timestamp`, and its `call_out()` goes to a slot that has been passed: it waits for
  a round of the buffer. Three callouts, `COTABSZ` 4, `CYCBUF_SIZE` 4, `MSECS` 1, `MAXLAG` 2, `Delays` {0, 1, 2}, `Mdelays` `Whole`, `Copying` TRUE, `MaxSec` 4.
- *`NoOverflow` with a table that is exactly full.* With a full table of long delays `co_expire()` needs an element for an entry that it has
  taken from the other end of the array; `newcallout()` gives it index 0, which the lists use for "none", without its check noticing. Three callouts, `COTABSZ` 3, `CYCBUF_SIZE` 2, `MSECS` 1, `Delays` {0, 1, 3}, `MaxSec` 4.
- *`QueueFits` of `AtomicCallOut`.* Atomic code that removes more callouts than it adds makes `ncallout` wrap around, and the test
  for a full table, an equality, does not see it; the commit runs into `fatal("callout table overflow")`. One object, `MaxHandle` 4, `MaxLevel` 1, `Callouts` <- `Pairs`, `COTABSZ` 4, `CYCBUF_SIZE` 2, `Delays` {1, 3}.
- *`NoLeak` (of `FreeRight`) with `Abandon` TRUE* in `objects`: a thread that recompiles an object and then destructs it and all its clones leaves
  the template and, through it, the inherited programs in the table.
- *`DataFits` with `Bare` TRUE*: the code counts a master among those to be converted if it has a dataspace when it is upgraded; a master without one that gets it
  afterwards, within the thread, is not.
- *`Found` with `Renamed` TRUE* in `planes`: the patches of a plane are undone in the order of their buckets. If code destructs an object, gives its name to
  a new one and fails, and the new one's patch is undone last, the name leads nowhere.
- *`NotEmpty` of `Suspension`*: one callout held, callouts released, the callout removed before its release runs. `suspend` stays 1 with an empty list, on which
  `suspend_callouts()` and `release()` fail; the state only ends by another callout that is held.
- *`Noticed` with `"SB"` in `Input`*: when a peer has closed, `comm_receive()` adds a line end to what is left in the input buffer, as if it had
  been read. In a telnet subnegotiation the state machine skips it, and the buffer is never empty, so the connection is not closed.

## 8. What is not modelled

- The components of section 1 that the plan has not reached: interpreter, registration of objects, access and users in the kernel library, the world.
- The compiler, the string parser, the kernel functions and the host layer: functions of their input or system calls, with
  little state of the kind that a model checker explores. The editor is a large sequential program for one user.
- In the communication manager: outbound connections, datagrams, the go-ahead after a prompt, and what a snapshot keeps of connections for a restart that takes them over.
- In dataspaces: strings (counted like arrays, but they cannot change), mappings and non-persistent objects (arrays with an order and a hash table that is rebuilt), the operators on arrays, values that refer to
  destructed objects, conversion when a program is upgraded, cached parsers, and a fragment of the dataspaces being swapped out (`Fragment` TRUE is in the module and in no run).
- In the object table: upgrades in atomic code, paths, status output, the limits of the configuration other than the size of the table.
- In the kernel library: suspension managers other than the resource manager, the end of the long delay of a held callout, resources other than callouts.
- In the other modelled components: the formats of snapshots of other versions and of other machines, statistics and status output,
  the reading of the configuration, failing system calls, the end of memory.
- `mud/` code in so far as it uses callouts and objects is the environment: threads do any of their operations in any order.
