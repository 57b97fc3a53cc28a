# refk in TLA+

refk is a small x86-64 microkernel. Its kernel image only sets up memory, the
descriptor tables and two tasks, and then jumps into the first of them, the
*scheduler*; everything else (memory spaces, futexes, spawning and reaping
tasks, message forwarding) is a request that a task writes to a ring buffer
shared with the scheduler. This directory models that core, checks it with TLC
on small instances and proves what matters most with TLAPS.

## The system

### Components

| component | state | operations | specified in |
|---|---|---|---|
| channels, `clib/comm.c` | `comm_t`: `ring_begin`, `ring_end`, `packet_count`, the bytes of the ring | `comm_put`, `comm_peek` (behind `comm_write`, `comm_read`) | `Channel`, `CommRing` |
| spinlock and semaphore, `klib/synch.c` | lock word, saved interrupt flag, counter | lock, unlock, inc, dec, trydec | `KSynch` |
| dispatcher, `kernel/scheduler/scheduler.c`, `images/transfer.s` | `task_state_t.state` and `cr3` of 4096 slots, the slot that runs | int 0xfe (`process_queue`), int 0xff (`change_task`), `choose_next` | `Sched` |
| request loop, `kernel/scheduler/listen.c` | `queue[100]`, `queue_size` | `listen`, `process_for`, `process`: 12 requests | `Sched` (8 of the 12), `MMan` (4) |
| task table, `kernel/scheduler/task.c`, `klib/task.c` | `task_map`, `named_tasks`, `task_info_t`s on the heap, slots | attach, create, setup, reap, set_state, set_name, named_task | `Sched`; what `task_setup` maps: `MMan` |
| futexes, `kernel/scheduler/synch.c` | `synchobj_t`s with a list of waiting tasks | wait, wake, make, destroy | `Sched` (wait, wake) |
| memory spaces, `kernel/scheduler/mman.c` | roots, use counts of roots and pages, page tables | anonymous, physical, mirror, unmap, root counts | `MMan` (no root is ever released) |
| physical pages, `klib/kmem.c`, `kernel/kmem.c`, `klib/heap.c` | free list threaded through the free pages | getpage, unuse, paging_addr, the heap's growth | `MMan` |
| maps, `clib/avl.c` | AVL trees | insert, remove, search | `AVL`, and what it is for: `Map` |
| user library, `rlib/` | sequence number, `sin` and `sout` as a task sees them | create_task, set_local_task, ready_task, wait, wake, anonymous, copy; reap_self | `Rlib`; reap_self: `Sched` |
| hardware task, `kernel/hw` | devices found | ACPI tables, PCI | not modelled: device I/O around vendored ACPICA |
| boot, `kernel/kmain.c` and assembly | descriptors, first page tables | once, in a line | not modelled: its result is `Sched`'s `Init` |

ACPICA (`kernel/hw/acpica`), dlmalloc (`clib/malloc.c`) and `clib/elf.h` are
vendored. Helpers for strings, ports and the serial line have no state worth a
model.

### How they interact

* A task writes a packet to its `sin` and executes `int 0xfe` with its id in
  `rax`; `process_queue` finds its entry of `queue[]` and serves all of `sin`,
  writing a status for each request to `sout`. Or it just yields (`int 0xff`),
  and `listen()`, the scheduler's own task, serves every entry in turn.
* SPAWN, REAP and the walks of `listen()` and `process()` share `queue[]` and
  `task_map`; WAIT and WAKE share the futex lists; all of them write the state
  word of a slot, which the dispatcher reads.
* `task_info_t`s and list nodes live on the heap; some are still used after
  they are freed.
* Memory requests change page tables, and releasing a page calls back into the
  futexes.

### What is hard about it

Every task runs with `rflags = 0x2`, nothing executes `sti`, and only one
processor is started: the system is cooperative, and control changes hands only
at `int 0xfe` and `int 0xff`. What remains is hard enough: the order in which
requests of several tasks meet `listen()` and `process_for()`, requests that
change the very tables the loop is walking over, tasks that end while others
hold their ids, freed memory that is used again, and counters and queues at
their limits. `klib/synch.c` is written for more than one processor and is
modelled that way. The hazards, each at its line, are in `PROJECT.json`.

### What makes each part correct

* *Channels*: a message comes out whole, once, in order; the ring never
  overwrites what was not read; a put is refused only for want of space.
* *Spinlock, semaphore*: exclusion, no self-deadlock with an interrupt handler,
  no unit lost or invented, somebody always gets the lock.
* *Dispatcher*: a blocked or reaped task does not run; no runnable task is
  passed over.
* *Request loop*: `queue[]` and `task_map` agree; each status reaches the task
  that asked; nobody's requests are left behind; the loops end.
* *User library*: no request is dropped, a function that waits gets the status
  of its own request and no older one, and it returns.
* *Memory spaces*: a page is on the free list or mapped as often as its use
  count says, never both; page tables, storage and channels stay where they are;
  whatever a task does with a physical address harms the frames it names only.
* *Maps*: insert, remove and search are those of a function; the depths kept
  are those of the tree.

## Modules

| module | what it is |
|---|---|
| `Channel` | the abstract channel: a sequence of messages |
| `CommRing` | the ring of `comm.c`, one cell per byte |
| `Induction` | induction over the naturals and recurrences, for the proofs |
| `CommRingProofs` | theorems about `CommRing`, and that it implements `Channel` |
| `KSynch` | lock and semaphore, instruction by instruction |
| `KSynchProofs` | theorems about `KSynch` |
| `Sched` | dispatcher, request loop, task table, futex lists, names, messages |
| `MCSched` | the states that tasks write with SET_STATE, for the runs of `Sched` |
| `SchedProofs` | theorems about the dispatcher |
| `SchedTablesProofs` | theorems about the request loop and its tables |
| `MMan` | page tables, use counts, the free list, the mappings of `task_setup` |
| `MCMMan` | an instance of `MMan`: two roots and their pages |
| `MManProofs` | theorems about `MMan` |
| `Map` | the abstract map: a function from keys to data |
| `AVL` | the tree of `avl.c`, with its depth fields |
| `AVLProofs` | theorems about `AVL`, and that it implements `Map` |
| `Rlib` | the functions of rlib, statement by statement, and the scheduler seen from one task |
| `RlibProofs` | theorems about `Rlib` |

Operators have the names of the functions they stand for where there is one.
Definitions introduced as "mutant of" are plausible mistakes in a definition;
replacing the definition by one must make a property fail, which shows that the
property constrains the code.

### CommRing

`cells` records for each byte of the ring which byte of which packet was
written there last; `unread` is a history variable with the packets accepted
and not yet taken. A call of `comm_put` or `comm_peek` is one step, because
writer and reader are tasks on one processor that switch only between calls.
`Put` and `PutRefused` are the two outcomes of `comm_put`; `Peek`, `PeekShort`
and `PeekEmpty` those of `comm_peek`. The length that `comm_peek` reads comes
from `cells`: if the header has been overwritten, any number.

`ImplementsChannel` maps `chan` to the packets of `unread` and shows that each
call does, and returns, what the same call on the abstract channel would; what a
reader gets is computed from the bytes at `ring_begin`.

Two things go wrong in the code, and each has a run of its own; the passing run
and the theorems say exactly what keeps them away:

* a frame (4 + size) that fills the ring exactly makes it look empty
  (`ring_full`). `sin` and `sout` carry packets of one size each, and
  `SchedulerChannelsNeverFill` proves that these never add up to 1992 bytes;
  `gin`, filled through FORWARD with lengths the sender chooses, has no such
  protection;
* a packet too large for its reader's buffer that reaches the end of the ring
  moves the cursor to the wrong place (`ring_skip`; constant
  `ShortReadsMayWrap`).

### KSynch

Each process has a program counter over the instructions of `klib/synch.c` that
touch shared memory or the interrupt flag; `value += by` is a load and a store.
`Retry` is a failed `cmpxchg`. `spinunlock` restores nothing (it reloads the
flags it has just read), and the waiters overwrite the saved flag: the model
has both. `given`, `taken` and `got` are history variables.

### Sched

`mode` says who has the processor: `"serve"` (the scheduler's task, in `process()`),
`"listen"` (the same, between two passes over `queue[]`), `"process"` (the int 0xfe
handler, on behalf of slot `cur`), `"user"`, or how the system ended. `qi` is the entry of `queue[]` that `process()` works on; like the C
pointer `q` it stays in place when the entry under it is replaced or removed.
`info` and `freed` are the heap cells of `task_info_t`; `node`, `head` and
`loose` those of the futex lists. `slotOf` is `info->state`, and the channels of
a task are named by its id. A request is taken and served in one step (nothing
else runs meanwhile); `process()` takes one after the other until `sin` is
empty.

Where the code runs into undefined behaviour the model branches. A freed cell
may keep its contents (then the action goes on with the stale ones), be handed
out again by `heap_alloc`, or be overwritten (then `mode` becomes `"corrupt"`
and nothing more is said); freeing it twice does nothing (`ABORT` is defined as
`{}` in `clib/malloc.c`) or corrupts the heap. A null pointer ends in
`"nullref"`, a full `queue[]` in `"overflow"`, a switch to a slot without page
table in `"reset"`. The history variable `passed` counts the dispatches of other
slots that a runnable slot has seen since it last ran.

FORWARD appends to `gin`; SET_NAME and GET_NAMED go to `named`, in which a name
keeps the id of a task that has ended. `mix`, chosen once, says which types of
requests the tasks of a behaviour send; it divides the instances into smaller ones.

Left out: the two slots of the interrupt handlers (valid, never runnable), slot
0 (skipped by every search), the registers, `req_id` (statuses carry their
requester instead; `Rlib` has them), result codes, and the four requests that map
memory (`MMan`): they change no state of `Sched`, except that a page released
under a futex would wake its waiters (`synch_destroy`, see below). A user
task may do anything rlib's functions do: write requests, read replies, store to
a word, and execute either interrupt, in any order, except that it sends
nothing after asking to be reaped itself, and names only ids it can know.

### MMan

A root's page tables are a tree of *places*: pages (`Addrs`) and the tables above
them (`Tables`); `entry[r][x]` is the frame in the entry for place `x`, and `Chain`
gives the tables on the way to a page, so pages that share a table are pages whose
chains do. `kmem_create_root` copies the entries of four last-level tables (the task
memory, the descriptors, the head of the free list, the status page) into every root:
such a table (`SharedTables`) has an entry in each root, and what is below it is kept
once, in the scheduler's row (`Holder`). Import goes through every root and counts
those pages once for each (`Walks`), besides all that `kmain`'s own root maps
(`KmainCounts`), which includes free pages; an unmap takes a shared page from all
roots and counts it down once. `paging_addr_create` is `WriteEntry` with `NewTable`: the tables that are
missing take the first frames of `free`, outermost first, and the page takes the
next. `Increment` and `Decrement` are the two counting functions, `kmem_unuse`
included. A request covers one page; longer ones are that many in a row.

The steps of `task_setup` are actions of their own, in the order of the code
(`phase`), which makes the properties hold in between too: the storage, its
temporary mapping in the scheduler's root, the page of `sin` and `sout`, its
mirror, the page of `gin`, its mirror, the end of the temporary mapping. `Reap`
takes only `gin` out of the scheduler's root, as `sched_task_reap` does; the page
of `sin` stays mapped for ever. Tasks may anonymously map, mirror, and unmap any
page they name, those of their own channels and storage included, and map over
mappings. The history variable `overwritten` holds the frames that lost an entry
that way, whose counts stay too high. `GrowHeap` is the scheduler's own heap, which
takes pages from the list between any two steps and counts none of them.

SCHED_MAP_PHYSICAL takes any address: `Physical` maps any frame of `UserFrames`, a
device, a free page or one in use, uncounted as in the code, and unmapping it, or a
mirror of it, counts down. The history variable `exposed` holds the frames mapped so.
Nothing can be said of whose they are, and the properties except them; what is checked
is that the others keep everything the properties claim, in whatever order such
requests meet the rest. When the scheduler's own memory comes to lie in an exposed
frame (a link of the free list, a page table, a page of its own or of its heap:
`Trusted`), or one of the kernel's shared pages has been unmapped or replaced
(`Displaced`), a task may have written it, or it is gone: `Corrupt` ends the model, at
that moment or at any later one, so that the steps in between are checked too.
`Spoils` names the one operation that would write there by itself, `kmem_unuse` of a
frame that is on the list already, and leaves it to `Corrupt`.

Where the code goes on after an error nobody looks for, the model stops as well:
`"exhausted"` (`kmem_getpage` at the end of the list), `"nochannel"`
(`find_available_local` returned -1).

Assumed of tasks: they name only their own root, by 0 or by the id that SPAWN
returned (ids of roots are told to nobody else), and no address in the physical memory
map, whose 1GB pages the walk of `kmem_paging_addr` would take for tables. What tasks
write through their mappings is not modelled, except as above.

### Map and AVL

`Map` is a function from keys to data. In `AVL` a tree is its root's record with the
children inside. The helpers of `avl.c` are recursive functions with their names, on
the set `Tree` of trees with no more levels than there are keys, which an ordered
tree never exceeds; `TakeLast` is the loop that finds the greatest node on the left
of a removed one and takes it out. `ImplementsMap` maps a tree to the function that
its nodes give, wherever they are, and shows that every call changes and returns
what the abstract one does. `DepthsTrue` says that the depth fields are the heights
or, as `update_depth` starts from 1 for a node without children, one more.

### Rlib

A function of rlib is the list of its statements (`Code`): number and write a
request, int 0xfe, read `sout` until the own status comes. In `anonymous` and `copy`
each round of the reading loop executes int 0xfe again (`"poll"`); in `create_task` and
`set_local_task` it does not (`"read"`). `set_local_task` has a whole `anonymous`
between the numbering of its last request and the writing of it. The scheduler is
what `Sched` says of one task: it serves `sin` in order, drops a status that does
not fit, may block the task on WAIT, and goes back to it when `sin` is empty.
`fits` is whether `length` suffices, which `rlib_copy` leaves uninitialized before
its first read: either value. `room` is a history variable for `CallReturns`.

## Runs

| run | instance | shows |
|---|---|---|
| `ring` | ring of 15, header 2, sizes 2 and 4, two payloads | FIFO channel, no overwriting, space accounting, `PutNeverFills` |
| `ring_full` | ring of 8, size 2: frames of 4 fill it | violation of `UnreadIntact` |
| `ring_skip` | ring of 11, short reads anywhere | violation of `BeginAtOldest` |
| `ksynch` | two processes, amounts 1 and 2, one unit at first, two given, 5 for 2^64 | exclusion, interrupts, conservation, progress |
| `ksem` | the same | violation of `DecTakesItsUnits` |
| `sched` | 4 slots, 3 ids, one request and one reply per channel, one word, two nodes, tasks reap themselves; five types of requests | blocked tasks, tables, round robin, replies, draining |
| `sched_live` | 3 slots, 2 queue entries, two requests per channel, task 2 is reaped by anyone; three mixes of requests, with FORWARD and names | the scheduler's loops end |
| `sched_reap` | as `sched` | violation of `ReapedNeverResumed` |
| `mman` | two roots with a shared table, 15 pages, 18 frames and a device, 3 tasks, 3 requests on a channel, a storage page and a shared page, with a frame of memory or the device by its address | use counts, free list, private page tables, storage and channels |
| `avl` | 5 keys, two data of which one is NULL | search order, depths, the map |
| `avl_balance` | 6 keys, insertions only | violation of `Balanced` |
| `rlib` | 4 requests fit in `sin`, 4 statuses in `sout`, 15 sequence numbers | requests fit, no older status accepted, calls return |

### Why the bounds are enough

* `ring`: frames of 4 and 6 in a ring of 15 reach every alignment of the cursors
  (the positions differ by even steps and wrap to odd ones), split headers and
  payloads at the wrap, and up to three packets; no sum of 4s and 6s is 15. The
  theorems cover all other sizes.
* `ksynch`: two processes suffice for every interleaving of two calls; `MaxGiven`
  caps increments only. The theorems cover more processes.
* `sched`: three user-side tasks (hardware and two spawned) are what the aliasing of
  `queue[]` needs, one that asks, one that moves and one that is replaced. Two
  nodes make a list with a freed second node, which can be freed again, reused and
  linked into a cycle. `SoutLength = 1` makes statuses get lost. `MaxId` and
  `MaxWaits` cap spawns and waits (guards of `UserRequest`).
* `sched_live` has the full table and queue, and two requests in a row, so that a
  request may follow the one that ended its task.

* `mman`: `sin`, `gin` and the storage of three tasks take every path of
  `task_setup`: first addresses, later ones, and ones that a request or a reap has
  freed. Thirteen free frames run out in some behaviours, and with four local addresses
  so do those. The pages of the requests are the first of each kind that
  `task_setup` takes (`c1`, `s1`) and one below the shared table (`k`), so that the
  requests take away what it has mapped, or are there before it. Frame 7 is the second
  of the list: a task maps it while it is free, or while it is a table or somebody's
  channel, and unmaps it or mirrors it; three requests suffice to free it while it is
  mapped. `kmain`'s counts are on the shared table and its page, on a free frame and on
  the device, which an unmap then releases. One user root is enough for tasks to share,
  and the theorems cover more of everything. (In the instance the scheduler's local
  pages share one table; in the code each has its own.)
* `avl`: with 5 keys every rotation of `rebalance` and both ways of replacing a
  removed node happen, and the reachable trees are all explored, whatever the
  number of calls. The theorems cover every finite set of keys. The tree loses its
  balance with 6.
* `rlib`: `sin` holds 4 requests, the fewest with which `RequestsFit` can hold, and
  `sout` 4 statuses, so that those of ready_task, wait and wake fill it and later ones
  are dropped (the real channels take 33 and 45). The number wraps after 15, several
  times within a behaviour; `Fresh` leaves out a status that stays unread for a
  whole round of numbers, 2^64 requests.

Deadlock is checked in every run but two, and the ways the system can end are
states with a self-loop (`Stopped`, `Retry`). `mman` stops after `MaxRequests` and
`MaxTasks`, and in its three error phases (`Stopped`); `rlib` stops where `Fresh` allows no
further call, or in a task that nobody wakes.

### Fairness

`KSynch`: weak fairness of each process's next instruction (a processor keeps
executing); none of the calls, and none that makes a particular waiter win, so
what is checked is that somebody gets the lock. `Sched`: weak fairness of the
scheduler's own code. Nothing is assumed of user tasks: a task that never
yields keeps the processor, as in the code. `Rlib`: weak fairness of the statements
of the function that runs and of the scheduler that serves it, since int 0xfe
serves the caller and goes back to it at once unless it is blocked; nobody is
obliged to call, or to wake the task.

## Proofs

All theorems hold for every value of the constants that the named assumptions
admit. Every safety property and every refinement of the passing runs is one.

* `Induction`. The theorems of the library on induction take operators, which the
  provers cannot instantiate, so a claim proved by induction is given as the set of
  the numbers it holds of, and `InductionOnNat` follows from the pigeonhole principle.
  `Recursion` gives the functions that recurrences define: the sums of a queue, the
  rounds of a walk along a list.
* `CommRingProofs`. Assumptions: no sum of frames is the length of the ring
  (`NeverFills(Q)`, stated with a set `Q` of byte counts closed under adding a
  frame), and no short read reaches the end of the ring. The properties are not
  inductive by themselves, as they do not say that the packets lie end to end
  between the cursors: `RingInv` adds `Layout` (offsets of the unread packets from
  `ring_begin`, in order, without gaps, up to `ring_end`) and that the bytes in use
  are in `Q`. From it follow `TypeCorrect`, `NoOverwrite`, `ReadsAtOldest`,
  `NeverFull` and the refinement `RingImplementsChannel`, whose steps are matched
  one to one. `RingSpaceAccounting` adds up the frames: by induction over `unread`, the
  bytes before a packet are its offset, so that all of them are the bytes in use.
  `SchedulerChannelsNeverFill` discharges the assumption for the
  numbers of the code.
* `KSynchProofs`. The invariant says that the lock word is 1 exactly when some
  process is between its `cmpxchg` and its store, that this process is unique,
  and that a register loaded in between still has the counter's value, which
  is what conservation needs. Assumes the initial units fit the counter.
* `SchedProofs`. `DispatchInv` adds to `NoBlockedRuns` and `NobodySkipped` that
  whoever runs is a slot (the scheduler's own in `listen()`), and the argument of
  round robin: the times a slot was passed over, plus the slots that the search
  still has to cross before it, never exceed the number of slots. `NextFound`
  shows that `choose_next` returns the nearest runnable slot.
* `SchedTablesProofs`. Assumes `ReapIds = {0}`: tasks reap only themselves, as
  `rlib_reap_self`, the only REAP in the repository, does. (A task that reaps another
  has its own `task_info_t` freed, `listen.c:159`, and nothing is left to prove.)
  `QueueMatchesMap` is not inductive: an entry is removed
  for the task that `q` names, and `q` points into an array that requests change.
  `Tables` adds that entries and tasks correspond one to one, that each task has a cell
  of its own, that a slot with a page table belongs to a task that exists (so that
  only such tasks write requests), that a task about to reap itself has no request
  behind that one, and that the ids last. `Walk` says where `process()` is: a `q` past
  the end of `queue[]` names the task just reaped, whose `sin` is empty; and while
  `any` is 0, every entry already visited has no request. `RequesterIsSelf` follows,
  and with it the three theorems. `TablesInv` was also checked by TLC on the
  instance of `sched`. `SchedTypeCorrect` holds in the error states too, so its
  invariant (`Typed`) claims less of the tables and says besides that the futex lists
  and the channels keep their types and lengths; for the walk of `synch_wake` along
  a list, freed and reused nodes included, by induction over its rounds (`MetType`).
* `MManProofs`. Assumptions: `MManAssumption` (finitely many roots and pages; a page's
  chain has no table twice, and a shared table only at its end; RAM and other frames
  differ; the scheduler's own addresses are not below shared tables) and
  `BootAssumption` (a shared table is in the same place of all roots, any other frame
  of these roots in one place of one root; the list has each free frame once). What
  requests name is not restricted, MAP_PHYSICAL may name every frame, and nothing
  bounds the tables, the depth of chains, or how requests and spawns interleave. The
  counting properties are inductive only together (`MInv`): that a count covers the
  entries needs that a frame on the list is in no entry, which needs that the list has
  no frame twice (`FreeOnce`, of exposed frames also, as `Corrupt` stands for a second
  release), that page tables never move (`TablesPrivate`, `SharedStay`), and that what
  the heap has is in no entry (`HeapKept`). All of it claims things of frames that are
  not exposed, and each operation is shown to keep the claim when the frame it takes
  from the list, mirrors, or releases is exposed. The four operations are proved once
  (`MapStep`, `UnmapStep`, `MirrorStep`, `HeapStep`) and cited by every step that calls
  them. `ImportCounts` shows that import counts a page once for each way to it, which is
  once more than its entries for each other root that shares it. `TemporaryInv` says
  whose page is where between the steps of `task_setup`: a page just added has one entry,
  so no request made before can have shared it, unless the frame is exposed; and the
  storage is counted twice while it is mapped twice, so that the end of the temporary
  mapping does not release it. `ChannelInv` says that the scheduler's addresses in use
  are distinct and apart from the temporary one. `IInv` is their conjunction with the
  types; it was also checked by TLC, with two requests. It gives all seven invariants of
  the run `mman`.
* `RlibProofs`. Assumes `RlibAssumption`: `sin` holds four requests, and there are more
  sequence numbers than statuses and one more function can use. `RequestsFit` needs
  the number of requests that can be unserved at each statement (`Position`: at most
  three where another is written, none once the task is back from int 0xfe).
  `DrainedOnReturn` needs that a status which a function awaits is the last of `sout`,
  or will be (`Outstanding`); and that holds because the numbers that the function has
  still to take are in no request and no status (`Upcoming`), which `Fresh` gives when
  it is called and each call of `rlib_sequence` keeps, also when the number wraps past 0.
  In `rlib_set_local_task` the number taken first is that of the request written
  last: its status is the only one, since the nested `rlib_anonymous` has read
  everything before it.

* `AVLProofs`. Assumes finitely many keys, ordered like integers, and that `NULL` is no
  node. What is claimed of a recursive helper is proved by induction over the levels
  of a tree (`TreeInduction`), and that the helpers are functions is part of it: `Walk`
  builds all of them level by level (`WalksExist`), and each then satisfies its
  recurrence. The invariant is `Good`: the tree is ordered and every depth in it is the
  height or one more. Neither is inductive alone, as rotations compare depths and need
  the child they turn about to be there: a depth greater than another's, or of at least
  2, is that of a child which is not `NULL` (`GoodDepth`). In the middle of a call only
  the children of a node are good (`Shape`); `update_depth` makes it good
  (`UpdateDepth`), `rebalance` keeps it what it is (`RebalanceGood`), and the two orders
  in which insert and remove call them are two lemmas. `Contents` is followed through
  each of them by `ContentsOfNode`: a key's data are on the side a search takes.
  `Taken` describes what is left when the last node is taken out of a left subtree, whose
  right spine has stale depths until `remove_depth_helper` has gone over it. Nothing is
  assumed of the tree's balance, which is lost (`avl_balance`).

Only model-checked: liveness (`LockProgress`, `KernelReturns`, `CallReturns`) and
anything with ENABLED, which the prover does not support. No module has a RECURSIVE
operator; what recurs is a recursive function.

## What the checks found

* `ring_full`: a full ring is taken for an empty one (`clib/comm.c:84`).
* `ring_skip`: skipping a packet over the end of the ring leaves `ring_begin` past
  `ring_end` in a ring that is then empty (`clib/comm.c:75`); whatever is put next is
  read from the wrong place.
* `ksem`: `synch_semaphoredec` has its test inverted (`klib/synch.c:56`).
* `sched_reap`: a task that reaps itself is resumed without page table
  (`kernel/scheduler/scheduler.c:65`).
* `avl_balance`: six insertions leave the tree out of balance, since a leaf has depth 1
  when it is inserted (`clib/avl.c:128`) and 2 after an update (`clib/avl.c:288`), and
  `rebalance` acts on a difference of exactly 2. Searches stay right (`ImplementsMap`).

The models also reach, without a sentence in the repository to set against it:
futex nodes that are freed while linked and waiters that no WAKE can find
(`kernel/scheduler/synch.c:119`), spawned tasks that share a slot
(`kernel/scheduler/task.c:140`), overflow of `queue[]`
(`kernel/scheduler/listen.c:138`), the empty free list
(`klib/kmem.c:29`), the use of local address -1 when all are taken
(`kernel/scheduler/task.c:40`), pages that are lost because a mapping was made over
them (`kernel/scheduler/mman.c:75`) or because import counted them too often
(`kernel/scheduler/mman.c:350`), frames that a task has mapped by their physical address
and that are freed while they are mapped, or are a page table of somebody else
(`kernel/scheduler/mman.c:97`), and functions of rlib that wait for ever for a
status that was dropped because `sout` was full (`rlib/scheduler.c:37`): `CallReturns`
has the condition under which they do not.

## Not modelled

* `synch_destroy`, the callback of `decrement_page`, and the release of roots. The
  first needs a watched page that is released, so `Sched` and `MMan` together; it
  leaves an object in `synch_objects` after freeing it, and what a WAIT then reads
  is the allocator's. The second never happens (`sched_task_reap` passes a page
  table address where a root id is expected).
* `mman_make_root` and `mman_protect`: nothing calls them.
* What tasks write into pages that they should not have (a page table mapped by its
  address, say): `MMan` ends in `"corrupt"` there. Addresses in the physical memory map.
  The entries of `kmain`'s own root, in which nothing runs: only their counts.
* REAP of the own task by its id instead of 0: "definitely don't send status update if
  reaping self..." (`kernel/scheduler/listen.c:153`) holds of 0 only, and by its own id
  the task gets a status; the passing runs of `Sched` and its theorems have
  `ReapIds = {0}`, as rlib sends, and `sched_live`, where task 2 is reaped by its id, checks
  only that the loops end.
* SPAWN with an unknown root: `queue[]` gets an entry whose channels are at a random
  address, and anything may follow.
* rlib's semaphore (`rlib/sem.c`) and the compare-and-swap of `clib/atomic.c` that only
  it uses: nothing calls them. rlib's map of free addresses is a number that
  only grows.
* Boot, hardware task and interrupt descriptors: code that runs once, in a line,
  with device I/O; its result is the `Init` of `Sched` and, with the assumption on
  `Boot`, that of `MMan`.
* ACPICA, dlmalloc, `elf.h`: vendored, and most of the lines of the repository. What
  `heap_free` and `heap_alloc` do to the cells of the scheduler is in `Sched`.

## Plan

Done: channels, lock and semaphore, scheduler with all its requests, memory spaces,
maps, and rlib's requests, with theorems about each. Left, in this order:

1. `synch_destroy` with the watched pages of `MMan`, as a module that composes the
   futex part of `Sched` with `Decrement`.
2. SPAWN with an unknown root, up to the first use of its entry.
