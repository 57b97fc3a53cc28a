-------------------------------- MODULE MMan --------------------------------
(***************************************************************************)
(* Memory spaces and physical pages: kernel/scheduler/mman.c with the free *)
(* list of klib/kmem.c, and what task_setup and sched_task_reap do with    *)
(* them (kernel/scheduler/task.c).                                         *)
(*                                                                         *)
(* A root's page tables are a tree.  Its places are the tables, the root's *)
(* own first, and the pages; entry[r][x] is the frame that the table above *)
(* place x (root_map above the first) holds for x, or 0 if the entry is    *)
(* not present.  The addresses that share a table share the place of it in *)
(* Chain.  The last tables of some addresses, where the kernel's pages     *)
(* are, belong to all roots (kmem_create_root): what is below them is kept *)
(* in the scheduler's row of entry.                                        *)
(*                                                                         *)
(* A task may map any frame by its physical address, which is not counted. *)
(* exposed is the set of frames that were: whose they are, the counts do   *)
(* not say, and most properties are about the others.                      *)
(*                                                                         *)
(* Requests of one page: a longer request is that many in a row, as        *)
(* nothing else runs meanwhile (and MAP_MIRROR makes sure beforehand that  *)
(* none of them will be refused).  The roots are those imported at boot:   *)
(* nothing calls mman_make_root, and none is ever released, since          *)
(* sched_task_reap passes the address of a root's table to                 *)
(* mman_decrement_root, which looks for the root's id.  Nothing runs in    *)
(* kmain's root, the third, whose first 2MB of memory and of the kernel    *)
(* are mapped to themselves, free pages among them: of it there are only   *)
(* the counts.                                                             *)
(***************************************************************************)
EXTENDS Integers, Sequences, FiniteSets, Functions

CONSTANTS Roots,       \* the roots imported by mman_init and sched_task_attach
          Own,         \* the scheduler's
          Addrs,       \* the pages of a root that are looked at
          Tables,      \* the places of the tables above them
          Chain,       \* the tables on the way to each address, outermost first
          SharedTables,   \* those that kmem_create_root copies into every root
          Ram,         \* the frames that are free, or in an entry of these roots, then
          Devices,     \* any others: devices, the kernel's image
          Boot,        \* the page tables when they are imported
          BootFree,    \* the free list then
          KmainCounts, \* how often kmain's own root, imported too, holds each frame
          TEMPORARY_MAP_ADDRESS,
          LocalChannels,   \* the addresses find_available_local tries, in order
          TaskChannels,    \* those that add_channel tries
          LocalStorage,    \* and add_storage
          UserAddrs,   \* the addresses in the requests of tasks
          UserFrames,  \* and the physical ones
          MaxTasks,    \* bound: tasks spawned
          MaxRequests, \* bound: requests of tasks, the spawning and reaping left out
          MaxHeap      \* bound: frames the heap grows by

Places == Addrs \cup Tables
Frames == Ram \cup Devices
Tasks  == 1..MaxTasks

\* The addresses below a shared table.
Shared == {a \in Addrs : \E i \in 1..Len(Chain[a]) : Chain[a][i] \in SharedTables}

\* The pages the scheduler has from kmain, and those of them that all roots have.
KernelPages == {Boot[Own][a] : a \in Addrs} \ {0}
SharedPages == {Boot[Own][a] : a \in Shared} \ {0}

ASSUME MManAssumption ==
    /\ Own \in Roots
    /\ IsFiniteSet(Roots) /\ IsFiniteSet(Addrs) /\ IsFiniteSet(Tables)
    /\ Addrs \cap Tables = {} /\ SharedTables \subseteq Tables
    /\ Chain \in [Addrs -> Seq(Tables)]
    /\ \A a \in Addrs : \A i, j \in 1..Len(Chain[a]) : Chain[a][i] = Chain[a][j] => i = j
    /\ \A a \in Addrs : \A i \in 1..Len(Chain[a]) :
          Chain[a][i] \in SharedTables => i = Len(Chain[a])
    /\ 0 \notin Frames /\ Ram \cap Devices = {}
    /\ TEMPORARY_MAP_ADDRESS \in Addrs \ Shared
    /\ {LocalChannels, TaskChannels, LocalStorage} \subseteq Seq(Addrs \ Shared)
    /\ UserAddrs \subseteq Addrs /\ UserFrames \subseteq Frames
    /\ {MaxTasks, MaxRequests, MaxHeap} \subseteq Nat

\* What kmain leaves behind: the shared tables are in the same place of every
\* root, any other frame is in one place of one root, and those on the free list
\* are in none.
ASSUME BootAssumption ==
    /\ Boot \in [Roots -> [Places -> Ram \cup {0}]]
    /\ \A r \in Roots, t \in SharedTables : Boot[r][t] = Boot[Own][t] /\ Boot[r][t] # 0
    /\ \A r, q \in Roots : \A x, y \in Places :
          Boot[r][x] = Boot[q][y] /\ Boot[r][x] # 0 =>
              x = y /\ (r = q \/ x \in SharedTables)
    /\ \A r \in Roots \ {Own}, a \in Shared : Boot[r][a] = 0
    /\ BootFree \in Seq(Ram)
    /\ \A i, j \in 1..Len(BootFree) : BootFree[i] = BootFree[j] => i = j
    /\ \A f \in Ram : (f \in Range(BootFree)) <=> (\A r \in Roots, x \in Places : Boot[r][x] # f)
    /\ Boot[Own][TEMPORARY_MAP_ADDRESS] = 0
    /\ KmainCounts \in [Frames -> Nat]

VARIABLES
    entry,          \* the page tables of each root
    page_refcount,
    free,           \* the list that last_unused heads
    phase,          \* what task_setup does next; "idle": requests are served;
                    \* "exhausted": kmem_getpage found the list empty;
                    \* "nochannel": find_available_local returned -1;
                    \* "corrupt": a task may have written what Trusted holds
    tasks,          \* how many tasks were spawned; the last is the one set up
    root_id,        \* of each task
    gs_base,        \* of the task being set up: the address of its storage,
    addr,           \* and of the page add_channel has added last
    local,          \* the scheduler's addresses of each task's channels: "sin"
                    \* (with sout) and "gin", 0 if not (or no longer) mapped
    overwritten,    \* history: the frames that lost an entry to another mapping,
    exposed,        \* those that a task has mapped by their physical address,
    heap,           \* those that the scheduler's heap has grown by
    requests        \* how many there were

memory   == <<entry, page_refcount, free, overwritten, exposed, heap>>
taskinfo == <<tasks, root_id, gs_base, addr, local>>

vars == <<memory, phase, taskinfo, requests>>

\* Whose row has the entry of a page, and the entry.
Holder(r, a) == IF a \in Shared THEN Own ELSE r
Entry(r, a)  == entry[Holder(r, a)][a]

\* The entries that hold a frame.
Refs(f) == {p \in Roots \X Places : entry[p[1]][p[2]] = f}

\* The ways there are to a frame from the roots: through a shared table, one from
\* each.
Walks(f) == {p \in Roots \X Places : Entry(p[1], p[2]) = f}

\* import_root goes through the tables of each root, and counts what it meets.
Init ==
    /\ entry = Boot
    /\ page_refcount = [f \in Frames |-> Cardinality(Walks(f)) + KmainCounts[f]]
    /\ free = BootFree
    /\ phase = "idle"
    /\ tasks = 0
    /\ root_id = [t \in Tasks |-> Own]
    /\ gs_base = 0 /\ addr = 0
    /\ local = [t \in Tasks |-> [sin |-> 0, gin |-> 0]]
    /\ overwritten = {} /\ exposed = {} /\ heap = {}
    /\ requests = 0

----------------------------------------------------------------------------
(* kmem.c and the helpers of mman.c. *)

\* The tables on the way to a that kmem_paging_addr does not find.
Missing(r, a) == {i \in 1..Len(Chain[a]) : entry[r][Chain[a][i]] = 0}

\* mman_check_any_mapped and mman_check_all_mapped of a page.
Mapped(r, a) == Missing(r, a) = {} /\ Entry(r, a) # 0

\* The first n frames of the free list: what n calls of kmem_getpage return.
Got(n) == {free[i] : i \in 1..n}

\* Mutant of NewTable: kmem_getpage leaves the page on the list.
SameTable(r, a, i) == free[1]

\* The frame of a table that paging_addr_create adds.
NewTable(r, a, i) == free[Cardinality({j \in Missing(r, a) : j <= i})]

\* paging_addr_create, then the entry of the page is written, whatever it held.
WriteEntry(r, a, f) ==
    /\ overwritten' = overwritten \cup {Entry(r, a)}
    /\ entry' = [q \in Roots |-> [x \in Places |->
           IF q = Holder(r, a) /\ x = a THEN f
           ELSE IF q = r /\ \E i \in Missing(r, a) : Chain[a][i] = x
           THEN NewTable(r, a, CHOOSE i \in Missing(r, a) : Chain[a][i] = x)
           ELSE entry[q][x]]]

\* n calls of kmem_getpage.
Getpages(n) == free' = SubSeq(free, n + 1, Len(free))

Tabled(r, a) == Cardinality(Missing(r, a))

\* increment_page of the frames in S and of those in T.
Increment(S, T) ==
    LET One(f, U) == IF f \in U THEN 1 ELSE 0
    IN  page_refcount' = [f \in Frames |-> page_refcount[f] + One(f, S) + One(f, T)]

\* Mutants of Decrement: a page that is not counted is counted down; the last
\* reference does not release the page; it is released while there is one left.
DecrementUnchecked(f) ==
    /\ page_refcount' = [page_refcount EXCEPT ![f] = @ - 1]
    /\ free' = IF page_refcount[f] = 1 THEN <<f>> \o free ELSE free
DecrementKeeps(f) ==
    /\ page_refcount' = [page_refcount EXCEPT ![f] = IF @ = 0 THEN 0 ELSE @ - 1]
    /\ UNCHANGED free
DecrementEarly(f) ==
    /\ page_refcount' = [page_refcount EXCEPT ![f] = IF @ = 0 THEN 0 ELSE @ - 1]
    /\ free' = IF page_refcount[f] \in {1, 2} THEN <<f>> \o free ELSE free

\* decrement_page, and kmem_unuse of a page that nothing refers to any more.
Decrement(f) ==
    /\ page_refcount' = [page_refcount EXCEPT ![f] = IF @ = 0 THEN 0 ELSE @ - 1]
    /\ free' = IF page_refcount[f] = 1 THEN <<f>> \o free ELSE free

----------------------------------------------------------------------------
(* The requests, on one page. *)

\* Mutant of mman_anonymous: paging_addr_create does not count its tables.
AnonymousUncounted(r, a) ==
    LET n == Tabled(r, a)
    IN  /\ n < Len(free)
        /\ WriteEntry(r, a, free[n + 1])
        /\ Getpages(n + 1)
        /\ Increment({free[n + 1]}, {})
        /\ UNCHANGED <<exposed, heap>>

mman_anonymous(r, a) ==
    LET n == Tabled(r, a)
    IN  /\ n < Len(free)
        /\ WriteEntry(r, a, free[n + 1])
        /\ Getpages(n + 1)
        /\ Increment(Got(n + 1), {})
        /\ UNCHANGED <<exposed, heap>>

mman_physical(r, a, f) ==
    LET n == Tabled(r, a)
    IN  /\ n <= Len(free)
        /\ WriteEntry(r, a, f)
        /\ Getpages(n)
        /\ Increment(Got(n), {})
        /\ exposed' = exposed \cup {f}
        /\ UNCHANGED heap

\* A mirror is refused over a mapped page or of one that is not.
Refused(r, a, sr, sa) == Mapped(r, a) \/ ~Mapped(sr, sa)

\* Mutant of mman_mirror: the page is not counted.
MirrorUncounted(r, a, sr, sa) ==
    LET n == Tabled(r, a)
    IN  IF Refused(r, a, sr, sa) THEN UNCHANGED memory
        ELSE /\ n <= Len(free)
             /\ WriteEntry(r, a, Entry(sr, sa))
             /\ Getpages(n)
             /\ Increment(Got(n), {})
             /\ UNCHANGED <<exposed, heap>>

mman_mirror(r, a, sr, sa) ==
    LET n == Tabled(r, a)
    IN  IF Refused(r, a, sr, sa) THEN UNCHANGED memory
        ELSE /\ n <= Len(free)
             /\ WriteEntry(r, a, Entry(sr, sa))
             /\ Getpages(n)
             /\ Increment(Got(n), {Entry(sr, sa)})
             /\ UNCHANGED <<exposed, heap>>

\* Mutant of mman_unmap: the page is released, but the entry stays.
UnmapKeeps(r, a) ==
    /\ UNCHANGED <<entry, overwritten, exposed, heap>>
    /\ IF Mapped(r, a) THEN Decrement(Entry(r, a)) ELSE UNCHANGED <<page_refcount, free>>

mman_unmap(r, a) ==
    IF Mapped(r, a)
    THEN /\ Decrement(Entry(r, a))
         /\ entry' = [entry EXCEPT ![Holder(r, a)][a] = 0]
         /\ UNCHANGED <<overwritten, exposed, heap>>
    ELSE UNCHANGED memory

----------------------------------------------------------------------------
(* The requests of tasks, on one page. *)

\* The phases in which the model ends.
Stopped == {"exhausted", "nochannel", "corrupt"}

\* kmem_getpage does not look whether the list is empty ("TODO: handle error
\* conditions!"): it returns frame 0, and what happens then is not modelled.
Exhausted(n) ==
    /\ Len(free) < n
    /\ phase' = "exhausted"
    /\ UNCHANGED <<memory, taskinfo, requests>>

\* The frames in which the scheduler keeps what the variables stand for: the links
\* of the free list, the page tables, and its own pages.
Trusted ==
    Range(free) \cup {entry[r][t] : r \in Roots, t \in Tables} \cup KernelPages \cup heap

\* A page of the kernel is not where it was.
Displaced == \E a \in Shared : Boot[Own][a] \notin {0, entry[Own][a]}

\* Some of that is in a frame that a task has been given, and may have been written;
\* or a page was taken away that the kernel works with.  What happens then is not
\* modelled.
Corrupt ==
    /\ phase \notin Stopped
    /\ exposed \cap Trusted # {} \/ Displaced
    /\ phase' = "corrupt"
    /\ UNCHANGED <<memory, taskinfo, requests>>

\* Unmapping the page would release such a frame, into which kmem_unuse writes a
\* link: Corrupt stands for that.
Spoils(r, a) ==
    Mapped(r, a) /\ page_refcount[Entry(r, a)] = 1 /\ Entry(r, a) \in exposed \cap Trusted

\* heap_klib_sizer, whenever something is allocated: kmem_map does not count the
\* page, nor the tables that it adds.
GrowHeap ==
    /\ phase \notin Stopped /\ Cardinality(heap) < MaxHeap
    /\ \/ /\ free # <<>>
          /\ heap' = heap \cup {free[1]}
          /\ Getpages(1)
          /\ UNCHANGED <<entry, page_refcount, overwritten, exposed, phase, taskinfo, requests>>
       \/ Exhausted(1)

Live(t) == t <= tasks /\ local[t].gin # 0

\* Tasks name their own root: 0 in a request, and what SPAWN returned.
Requests(r) == phase = "idle" /\ \E t \in Tasks : Live(t) /\ root_id[t] = r

MayRequest(r) == Requests(r) /\ requests < MaxRequests
Answered == requests' = requests + 1 /\ UNCHANGED <<phase, taskinfo>>

Anonymous(r, a) ==
    /\ MayRequest(r)
    /\ \/ mman_anonymous(r, a) /\ Answered
       \/ Exhausted(Tabled(r, a) + 1)

Physical(r, a, f) ==
    /\ MayRequest(r)
    /\ \/ mman_physical(r, a, f) /\ Answered
       \/ Exhausted(Tabled(r, a))

Mirror(r, a, sr, sa) ==
    /\ MayRequest(r) /\ MayRequest(sr)
    /\ \/ mman_mirror(r, a, sr, sa) /\ Answered
       \/ ~Refused(r, a, sr, sa) /\ Exhausted(Tabled(r, a))

Unmap(r, a) ==
    /\ MayRequest(r)
    /\ ~Spoils(r, a)
    /\ mman_unmap(r, a)
    /\ Answered

----------------------------------------------------------------------------
(* sched_task_attach and sched_task_create with task_setup, step by step, and *)
(* sched_task_reap.                                                           *)

\* The places in s of the addresses that are not mapped, and the first of them.
Unmapped(r, s) == {i \in 1..Len(s) : ~Mapped(r, s[i])}
FirstUnmapped(r, s) ==
    s[CHOOSE i \in Unmapped(r, s) : \A j \in Unmapped(r, s) : i <= j]

Root == root_id[tasks]

\* The hardware task is attached before any request; it spawns the others.
Spawn(r) ==
    /\ phase = "idle" /\ tasks < MaxTasks
    /\ IF tasks = 0 THEN r # Own ELSE Requests(r)
    /\ tasks' = tasks + 1
    /\ root_id' = [root_id EXCEPT ![tasks + 1] = r]
    /\ phase' = "storage"
    /\ UNCHANGED <<memory, gs_base, addr, local, requests>>

\* The loops of add_storage and add_channel end only when they have found an
\* address; LocalStorage and TaskChannels are long enough that they do.
AddStorage ==
    /\ phase = "storage"
    /\ Unmapped(Root, LocalStorage) # {}
    /\ LET a == FirstUnmapped(Root, LocalStorage)
       IN  mman_anonymous(Root, a) /\ gs_base' = a
    /\ phase' = "temporary"
    /\ UNCHANGED <<tasks, root_id, addr, local, requests>>

MapTemporary ==
    /\ phase = "temporary"
    /\ mman_mirror(Own, TEMPORARY_MAP_ADDRESS, Root, gs_base)
    /\ phase' = "sin page"
    /\ UNCHANGED <<taskinfo, requests>>

Channels == {"sin", "gin"}

\* add_channel: the page in the task's root ...
AddPage(ch) ==
    /\ phase = IF ch = "sin" THEN "sin page" ELSE "gin page"
    /\ Unmapped(Root, TaskChannels) # {}
    /\ LET a == FirstUnmapped(Root, TaskChannels)
       IN  mman_anonymous(Root, a) /\ addr' = a
    /\ phase' = ch
    /\ UNCHANGED <<tasks, root_id, gs_base, local, requests>>

\* Mutant of LocalAddress: the address is not looked up.
LocalFirst == LocalChannels[1]

\* find_available_local.
LocalAddress == FirstUnmapped(Own, LocalChannels)

\* ... and in the scheduler's.
MirrorChannel(ch) ==
    /\ phase = ch
    /\ Unmapped(Own, LocalChannels) # {}
    /\ mman_mirror(Own, LocalAddress, Root, addr)
    /\ local' = [local EXCEPT ![tasks][ch] = LocalAddress]
    /\ phase' = IF ch = "sin" THEN "gin page" ELSE "unmap temporary"
    /\ UNCHANGED <<tasks, root_id, gs_base, addr, requests>>

\* find_available_local returns -1, and the channel is set up there.
NoChannel(ch) ==
    /\ phase = ch
    /\ Unmapped(Own, LocalChannels) = {}
    /\ phase' = "nochannel"
    /\ UNCHANGED <<memory, taskinfo, requests>>

\* The pages that the step in hand takes off the free list.
PagesNeeded ==
    CASE phase = "storage" -> Tabled(Root, FirstUnmapped(Root, LocalStorage)) + 1
      [] phase = "temporary" -> Tabled(Own, TEMPORARY_MAP_ADDRESS)
      [] phase \in {"sin page", "gin page"} ->
            Tabled(Root, FirstUnmapped(Root, TaskChannels)) + 1
      [] phase \in Channels /\ Unmapped(Own, LocalChannels) # {} -> Tabled(Own, LocalAddress)
      [] OTHER -> 0

SetupExhausted == phase \notin Stopped /\ Exhausted(PagesNeeded)

\* Mutant of UnmapTemporary: the storage stays in the scheduler's root.
KeepTemporary ==
    /\ phase = "unmap temporary"
    /\ phase' = "idle" /\ gs_base' = 0 /\ addr' = 0
    /\ UNCHANGED <<memory, tasks, root_id, local, requests>>

UnmapTemporary ==
    /\ phase = "unmap temporary"
    /\ mman_unmap(Own, TEMPORARY_MAP_ADDRESS)
    /\ phase' = "idle" /\ gs_base' = 0 /\ addr' = 0
    /\ UNCHANGED <<tasks, root_id, local, requests>>

\* sched_task_reap takes gin, and nothing else, out of the scheduler's root.  The
\* hardware task does not end.
Reap(t) ==
    /\ phase = "idle" /\ t # 1 /\ Live(t)
    /\ ~Spoils(Own, local[t].gin)
    /\ mman_unmap(Own, local[t].gin)
    /\ local' = [local EXCEPT ![t].gin = 0]
    /\ UNCHANGED <<phase, tasks, root_id, gs_base, addr, requests>>

----------------------------------------------------------------------------
Request ==
    \E r \in Roots, a \in UserAddrs :
        \/ Anonymous(r, a)
        \/ \E f \in UserFrames : Physical(r, a, f)
        \/ \E sr \in Roots, sa \in UserAddrs : Mirror(r, a, sr, sa)
        \/ Unmap(r, a)

Setup ==
    \/ \E r \in Roots : Spawn(r)
    \/ AddStorage \/ MapTemporary \/ UnmapTemporary \/ SetupExhausted
    \/ \E ch \in Channels : AddPage(ch) \/ MirrorChannel(ch) \/ NoChannel(ch)

Next == Request \/ Setup \/ (\E t \in Tasks : Reap(t)) \/ GrowHeap \/ Corrupt

Spec == Init /\ [][Next]_vars

----------------------------------------------------------------------------
(* Properties. *)

TypeOK ==
    /\ entry \in [Roots -> [Places -> Frames \cup {0}]]
    /\ page_refcount \in [Frames -> Nat]
    /\ free \in Seq(Frames)
    /\ phase \in {"idle", "storage", "temporary", "sin page", "sin", "gin page", "gin",
                  "unmap temporary"} \cup Stopped
    /\ tasks \in 0..MaxTasks
    /\ root_id \in [Tasks -> Roots]
    /\ {gs_base, addr} \subseteq Addrs \cup {0}
    /\ local \in [Tasks -> [Channels -> Addrs \cup {0}]]
    /\ overwritten \subseteq Frames \cup {0}
    /\ exposed \subseteq Frames /\ heap \subseteq Frames
    /\ requests \in 0..MaxRequests

\* A page is given out by kmem_getpage only when no entry of any root refers to
\* it, as a table or as a page, however often it was mirrored and unmapped, and the
\* heap does not have it: unless a task has mapped that very frame with
\* MAP_PHYSICAL.
FreeIsUnmapped == \A f \in Range(free) \ exposed : Refs(f) = {} /\ f \notin heap

\* Import counts a page below a shared table once for each root, though it is in
\* one entry, and all that kmain's root maps, though nothing unmaps it there.
Extra(f) == KmainCounts[f] + (IF f \in SharedPages THEN Cardinality(Roots) - 1 ELSE 0)

\* The use count of a page is the number of entries that hold it, and those which
\* import counted too often, unless one of them was mapped over: then it is never
\* below that number.  Only frames mapped with MAP_PHYSICAL are excepted.
CountsAreRefs ==
    \A f \in Frames \ exposed :
        LET n == Cardinality(Refs(f)) + Extra(f)
        IN  page_refcount[f] >= n /\ (f \notin overwritten => page_refcount[f] = n)

\* A page that was in use is on the free list again when its last entry goes,
\* and on the list once.  Those that import counted too often are the exception.
NothingLost ==
    /\ \A f \in Ram \ (overwritten \cup exposed \cup heap) :
           Refs(f) = {} /\ Extra(f) = 0 => f \in Range(free)
    /\ \A i, j \in 1..Len(free) : free[i] = free[j] /\ free[i] \notin exposed => i = j

\* A page table is in one place of one root, or, if kmain shared it, in the same
\* place of all roots and in no other: no request of a task maps it as a page, or
\* puts it under another root, except MAP_PHYSICAL with its address.
TablesPrivate ==
    \A r \in Roots, t \in Tables :
        entry[r][t] \notin exposed \cup {0} =>
            Refs(entry[r][t]) = (IF t \in SharedTables THEN Roots ELSE {r}) \X {t}

\* While task_setup fills in a task's storage through TEMPORARY_MAP_ADDRESS, that
\* is the storage of this task; and nobody else has the page, unless a task has
\* mapped it with MAP_PHYSICAL before it was taken from the list.
FillsOwnStorage ==
    phase \in {"sin page", "sin", "gin page", "gin", "unmap temporary"} =>
        LET f == entry[Own][TEMPORARY_MAP_ADDRESS]
        IN  /\ f # 0 /\ f = entry[Root][gs_base]
            /\ f \notin exposed =>
                   Refs(f) = {<<Own, TEMPORARY_MAP_ADDRESS>>, <<Root, gs_base>>}

\* The scheduler reads and writes the channels of its tasks at addresses of their
\* own, where they stay mapped, and in pages of their own, whatever the tasks have
\* unmapped or mapped since: a page is shared only with one that a task has mapped
\* with MAP_PHYSICAL.
ChannelsPrivate ==
    LET used == {p \in Tasks \X Channels : local[p[1]][p[2]] # 0}
        at(p) == local[p[1]][p[2]]
    IN  \A p, q \in used :
            /\ Mapped(Own, at(p))
            /\ p # q => /\ at(p) # at(q)
                        /\ entry[Own][at(p)] = entry[Own][at(q)] =>
                               entry[Own][at(p)] \in exposed
=============================================================================
