------------------------------- MODULE Sched -------------------------------
(***************************************************************************)
(* The scheduler task of refk (kernel/scheduler): the task table, the      *)
(* queue of tasks whose requests it serves, the dispatcher, and all the    *)
(* requests but the four that map memory, which are in MMan.               *)
(*                                                                         *)
(* One processor, interrupts off everywhere: control changes hands only    *)
(* when a task executes int 0xfe (serve my requests now: process_queue) or *)
(* int 0xff (yield: change_task), and when listen() yields.  In between,   *)
(* a user task does what it likes with its channels and its memory.        *)
(*                                                                         *)
(* Slot 1 is the scheduler, slot 2 the hardware task.  The two slots of    *)
(* the interrupt handlers are valid but never runnable, so no search ever  *)
(* returns them, and slot 0 is skipped by all of them; they are left out.  *)
(* A task id is also the name of the channels task_setup makes for it.     *)
(***************************************************************************)
EXTENDS Integers, Sequences, FiniteSets

CONSTANTS NumSlots,     \* NUM_TASKS
          QueueLength,  \* entries of queue[]: 100
          MaxId,        \* bound: task ids given out
          SinLength,    \* requests that fit in a task's sin
          SoutLength,   \* replies that fit in a task's sout
          Addrs,        \* the addresses tasks wait on
          Words,        \* the values of the words there
          Counts,       \* "count" of the WAKE requests
          MaxWaits,     \* bound: nodes of the lists of waiting tasks
          States,       \* the values tasks write with SET_STATE
          Mixes,        \* bound: the sets of types of requests that tasks send in one
                        \* behaviour
          ReadyIds,     \* the ids tasks SET_STATE
          ReapIds,      \* the ids tasks REAP; 0 is the caller itself
          Names,        \* the names tasks are given
          GinLength     \* messages that fit in a task's gin

Slots == 1..NumSlots
Ids   == 1..MaxId
Cells == 1..MaxId       \* heap cells that have held a task_info_t
Nodes == 1..MaxWaits    \* heap cells that have held a synch_wait_t
Bits  == {"valid", "runnable", "blocked"}

ASSUME SchedAssumption ==
    /\ NumSlots \in Nat /\ NumSlots >= 2
    /\ QueueLength \in Nat \ {0}
    /\ MaxId \in Nat \ {0}
    /\ SinLength \in Nat /\ SoutLength \in Nat /\ GinLength \in Nat
    /\ Words # {} /\ Counts \subseteq Nat /\ MaxWaits \in Nat
    /\ States \subseteq SUBSET Bits
    /\ ReadyIds \subseteq Ids
    /\ ReapIds \subseteq 0..MaxId

VARIABLES
    state,     \* task_state_t.state of each slot
    cr3,       \* whether the slot's cr3 is set
    owner,     \* the id in the task-local storage of the slot's task, or 0
    slotOf,    \* the slot task_create returned for each id, or 0
    info,      \* the task_info_t in each heap cell, as the id of its task
    freed,     \* the cells that have been passed to heap_free
    task_map,  \* the cell of each id, or 0
    queue,     \* queue[]: pairs of an id and a cell
    queue_size,
    next_id,
    sin,       \* the requests in each task's sin
    sout,      \* the replies in each task's sout, as the id of the requester
    head,      \* the first node of each synchobj_t's list, or 0
    node,      \* the synch_wait_t in each node: task_id (0: never used), next
    loose,     \* the nodes that have been passed to heap_free
    word,      \* the word at each address
    gin,       \* the messages in each task's gin, as the id of the sender
    named,     \* named_tasks: the id last given to each name, or 0
    mode,      \* "serve" (process() called by listen()), "listen" (between its
               \* passes), "process" (process_for), "user", or how it ended:
               \* "reset" (no page table), "nullref", "overflow" of queue[],
               \* "corrupt" (the heap, or what was read from a freed cell)
    cur,       \* the slot that runs, or was interrupted by int 0xfe
    qi,        \* the entry of queue[] that process() works on
    any,       \* listen()'s local variable
    mix,       \* the types of requests that tasks send
    passed     \* history: how many times another slot was dispatched since
               \* the slot became runnable or last ran

vars == <<state, cr3, owner, slotOf, info, freed, task_map, queue, queue_size,
          next_id, sin, sout, head, node, loose, word, gin, named, mode, cur, qi,
          any, mix, passed>>

tables == <<owner, slotOf, info, freed, task_map, queue, queue_size, next_id>>

waiters == <<head, node, loose>>

mail == <<gin, named>>

\* The requests of interface.h that are modelled.
Spawn         == [type : {"spawn"}]
SetState      == [type : {"set_state"}, task_id : ReadyIds, value : States]
Wait          == [type : {"wait"}, address : Addrs, value : Words]
Wake          == [type : {"wake"}, address : Addrs, value : Words, count : Counts]
Reap          == [type : {"reap"}, task_id : ReapIds]
Forward       == [type : {"forward"}, task_id : Ids]
SetName       == [type : {"set_name"}, task_id : 0..MaxId, name : Names]
GetNamed      == [type : {"get_named"}, name : Names]
Request       == Spawn \cup SetState \cup Wait \cup Wake \cup Reap
                     \cup Forward \cup SetName \cup GetNamed

Init ==
    /\ state = [s \in Slots |-> IF s <= 2 THEN {"valid", "runnable"} ELSE {}]
    /\ cr3 = [s \in Slots |-> s <= 2]
    /\ owner = [s \in Slots |-> IF s = 2 THEN 1 ELSE 0]
    /\ slotOf = [t \in Ids |-> IF t = 1 THEN 2 ELSE 0]
    /\ info = [c \in Cells |-> IF c = 1 THEN 1 ELSE 0]
    /\ freed = {}
    /\ task_map = [t \in Ids |-> IF t = 1 THEN 1 ELSE 0]
    /\ queue = [i \in 1..QueueLength |-> IF i = 1 THEN <<1, 1>> ELSE <<0, 0>>]
    /\ queue_size = 1
    /\ next_id = 2
    /\ sin = [t \in Ids |-> <<>>]
    /\ sout = [t \in Ids |-> <<>>]
    /\ head = [a \in Addrs |-> 0]
    /\ node = [n \in Nodes |-> [task_id |-> 0, next |-> 0]]
    /\ loose = {}
    /\ word \in [Addrs -> Words]
    /\ gin = [t \in Ids |-> <<>>]
    /\ named = [n \in Names |-> 0]
    /\ mode = "serve" /\ cur = 1 /\ qi = 1 /\ any = FALSE
    /\ mix \in Mixes
    /\ passed = [s \in Slots |-> 0]

----------------------------------------------------------------------------
(* The dispatcher. *)

Runnable(st) == {s \in Slots : "valid" \in st[s] /\ "runnable" \in st[s]
                                /\ "blocked" \notin st[s]}

\* How many slots the search of choose_next looks at to get from c to s.
Ahead(c, s) == (s - c + NumSlots) % NumSlots

\* Mutant of choose_next: the search always starts at the first slot.
ChooseLowest(st, c) ==
    LET others == Runnable(st) \ {c}
    IN  IF others # {} THEN CHOOSE s \in others : \A t \in others : s <= t
        ELSE IF "blocked" \in st[c] THEN 0 ELSE c

\* choose_next: the first runnable slot after the current one; if there is
\* none, the current one unless it is blocked, and then nothing (0).
choose_next(st, c) ==
    LET others == Runnable(st) \ {c}
    IN  IF others # {}
        THEN CHOOSE s \in others : \A t \in others : Ahead(c, s) <= Ahead(c, t)
        ELSE IF "blocked" \in st[c] THEN 0 ELSE c

\* listen()'s for loop has come to entry i of queue[].
Pass(i) == IF i <= queue_size THEN "serve" ELSE "listen"

\* The image transfer.s loads the slot's page table and registers.  The
\* scheduler's own code goes on at the top of listen()'s loop.
Transfer(s) ==
    /\ cur' = s
    /\ mode' = IF s = 0 \/ ~cr3[s] THEN "reset"
               ELSE IF s = 1 THEN Pass(1) ELSE "user"
    /\ qi' = 1 /\ any' = FALSE
    /\ passed' = [t \in Slots |-> IF t = s \/ t \notin Runnable(state) THEN 0
                                  ELSE IF s = cur THEN passed[t]
                                  ELSE passed[t] + 1]

----------------------------------------------------------------------------
(* What a user task does between two interrupts. *)

User(t) == mode = "user" /\ owner[cur] = t /\ t # 0

\* The requests of a type that wait to be served.
Pending(type) ==
    Cardinality({p \in Ids \X (1..SinLength) :
                    p[2] <= Len(sin[p[1]]) /\ sin[p[1]][p[2]].type = type})

NodesUsed == Cardinality({n \in Nodes : node[n].task_id # 0})

\* comm_write of a request to the task's sin; it is dropped when there is no
\* room.  Ids are known from the replies to SPAWN.  Nothing follows a request to
\* reap oneself (rlib_reap_self).
UserRequest(t, r) ==
    /\ User(t)
    /\ Len(sin[t]) < SinLength
    /\ r.type \in mix
    /\ \A i \in 1..Len(sin[t]) : sin[t][i].type = "reap" => sin[t][i].task_id # 0
    /\ r.type \in {"set_state", "reap", "forward", "set_name"} => r.task_id < next_id
    /\ r.type = "spawn" => next_id + Pending("spawn") <= MaxId
    /\ r.type = "wait" => NodesUsed + Pending("wait") < MaxWaits
    /\ sin' = [sin EXCEPT ![t] = Append(@, r)]
    /\ UNCHANGED <<state, cr3, tables, sout, waiters, word, mail, mode, cur, qi, any, mix, passed>>

\* comm_read of a reply.
UserReply(t) ==
    /\ User(t) /\ sout[t] # <<>>
    /\ sout' = [sout EXCEPT ![t] = Tail(@)]
    /\ UNCHANGED <<state, cr3, tables, sin, waiters, word, mail, mode, cur, qi, any, mix, passed>>

\* comm_read of a message that another task has forwarded.
UserMessage(t) ==
    /\ User(t) /\ gin[t] # <<>>
    /\ gin' = [gin EXCEPT ![t] = Tail(@)]
    /\ UNCHANGED <<state, cr3, tables, sin, sout, waiters, word, named, mode, cur, qi, any, mix, passed>>

\* A store to a word that tasks wait on.
UserStore(t, a, w) ==
    /\ User(t) /\ word[a] # w
    /\ word' = [word EXCEPT ![a] = w]
    /\ UNCHANGED <<state, cr3, tables, sin, sout, waiters, mail, mode, cur, qi, any, mix, passed>>

memory == <<state, cr3, tables, sin, sout, waiters, word, mail, mix>>

\* Mutant of AfterProcess: the task is resumed even if it has become blocked.
ResumeAnyway == Transfer(cur)

\* What process_queue does when process_for has returned.
AfterProcess ==
    Transfer(IF "blocked" \in state[cur] THEN choose_next(state, cur) ELSE cur)

\* int 0xfe with the task's own id in rax: process_for finds its entry.
UserProcess(t) ==
    /\ User(t)
    /\ \E i \in 1..queue_size :
          /\ queue[i][1] = t
          /\ \A j \in 1..i - 1 : queue[j][1] # t
          /\ mode' = "process" /\ qi' = i
    /\ UNCHANGED <<memory, cur, any, passed>>

\* change_task.
YieldFrom(s) == Transfer(IF "runnable" \in state[s] THEN choose_next(state, s) ELSE s)

\* int 0xff.
UserYield(t) ==
    /\ User(t)
    /\ YieldFrom(cur)
    /\ UNCHANGED memory

----------------------------------------------------------------------------
(* process(), one request at a time. *)

\* q->task_id and q->info; the entry stays readable when it is no longer in use.
Self     == queue[qi][1]
SelfCell == queue[qi][2]

\* The task whose sin q->info names.
Requester == info[SelfCell]

Processing == mode \in {"process", "serve"}

\* process() takes the next request, of this type, from q->info->sin.
Take(type, r) ==
    /\ Processing
    /\ sin[Requester] # <<>>
    /\ r = Head(sin[Requester])
    /\ r.type = type
    /\ sin' = [sin EXCEPT ![Requester] = Tail(@)]
    /\ any' = (mode = "serve")

\* Mutants of Reply: the room in sout is not checked; the status goes to the
\* last entry of queue[].
ReplyUnchecked(to) == sout' = [sout EXCEPT ![to] = Append(@, Requester)]
ReplyToLast(to) ==
    LET last == info[queue[queue_size][2]]
    IN  sout' = IF Len(sout[last]) < SoutLength
                THEN [sout EXCEPT ![last] = Append(@, Requester)] ELSE sout

\* comm_write of the status to q->info->sout, q as it is by then; a status for
\* which there is no room is dropped.
Reply(to) ==
    sout' = IF Len(sout[to]) < SoutLength
            THEN [sout EXCEPT ![to] = Append(@, Requester)] ELSE sout

\* The scheduler has done something from which there is no way back.
Stop(how) ==
    /\ mode' = how
    /\ UNCHANGED <<state, cr3, tables, sout, waiters, word, mail, cur, qi, mix, passed>>

\* find_available: the first slot that is not valid, or none.
Available == {s \in Slots : /\ "valid" \notin state[s]
                            /\ \A t \in 1..s - 1 : "valid" \in state[t]}

\* heap_alloc of a task_info_t: a cell that was freed, or a new one.
FreshCells == freed \cup {c \in Cells : info[c] = 0 /\ \A d \in 1..c - 1 : info[d] # 0}

DoSpawn(r) ==
    /\ Take("spawn", r)
    /\ \E c \in FreshCells, s \in Available :
          /\ queue_size < QueueLength
          /\ cr3' = [cr3 EXCEPT ![s] = TRUE]
          /\ owner' = [owner EXCEPT ![s] = next_id]
          /\ slotOf' = [slotOf EXCEPT ![next_id] = s]
          /\ info' = [info EXCEPT ![c] = next_id]
          /\ freed' = freed \ {c}
          /\ task_map' = [task_map EXCEPT ![next_id] = c]
          /\ queue' = [queue EXCEPT ![queue_size + 1] = <<next_id, c>>]
          /\ queue_size' = queue_size + 1
          /\ next_id' = next_id + 1
    /\ Reply(info'[queue'[qi][2]])
    /\ UNCHANGED <<state, waiters, word, mail, mode, cur, qi, mix, passed>>

\* SPAWN without a free slot (a null task_state_t) or a free queue entry.
DoSpawnFull(r) ==
    /\ Take("spawn", r)
    /\ \/ Available = {} /\ Stop("nullref")
       \/ Available # {} /\ queue_size = QueueLength /\ Stop("overflow")

\* sched_set_state with index SCHED_STATE.
DoSetState(r) ==
    /\ Take("set_state", r)
    /\ LET c == task_map[r.task_id]
       IN  state' = IF c = 0 THEN state
                    ELSE [state EXCEPT ![slotOf[info[c]]] = r.value]
    /\ Reply(Requester)
    /\ UNCHANGED <<cr3, tables, waiters, word, mail, mode, cur, qi, mix, passed>>

\* synch_wait, the word has the expected value.  The new node is a cell that was
\* freed or one never used before.
DoWait(r) ==
    /\ Take("wait", r)
    /\ word[r.address] = r.value
    /\ task_map[Self] # 0
    /\ \E n \in Nodes :
          /\ n \in loose \/ (node[n].task_id = 0 /\ \A m \in 1..n - 1 : node[m].task_id # 0)
          /\ node' = [node EXCEPT ![n] = [task_id |-> Self, next |-> head[r.address]]]
          /\ head' = [head EXCEPT ![r.address] = n]
          /\ loose' = loose \ {n}
    /\ state' = [state EXCEPT ![slotOf[info[task_map[Self]]]] = @ \cup {"blocked"}]
    /\ Reply(Requester)
    /\ UNCHANGED <<cr3, tables, word, mail, mode, cur, qi, mix, passed>>

DoWaitReaped(r) ==
    /\ Take("wait", r)
    /\ word[r.address] = r.value
    /\ task_map[Self] = 0
    /\ Stop("nullref")

DoWaitChanged(r) ==
    /\ Take("wait", r)
    /\ word[r.address] # r.value
    /\ Reply(Requester)
    /\ UNCHANGED <<state, cr3, tables, waiters, word, mail, mode, cur, qi, mix, passed>>

\* FORWARD: comm_write to the gin of the task with that id, if there is one and
\* its gin has room.
DoForward(r) ==
    /\ Take("forward", r)
    /\ LET c  == task_map[r.task_id]
           to == info[c]
       IN  gin' = IF c # 0 /\ Len(gin[to]) < GinLength
                  THEN [gin EXCEPT ![to] = Append(@, Self)] ELSE gin
    /\ Reply(Requester)
    /\ UNCHANGED <<state, cr3, tables, waiters, word, named, mode, cur, qi, mix, passed>>

\* sched_set_name: the id is that of the caller if it is 0, and need not exist.
DoSetName(r) ==
    /\ Take("set_name", r)
    /\ named' = [named EXCEPT ![r.name] = IF r.task_id = 0 THEN Self ELSE r.task_id]
    /\ Reply(Requester)
    /\ UNCHANGED <<state, cr3, tables, waiters, word, gin, mode, cur, qi, mix, passed>>

\* sched_named_task: the id last set, which may have been reaped since.
DoGetNamed(r) ==
    /\ Take("get_named", r)
    /\ Reply(Requester)
    /\ UNCHANGED <<state, cr3, tables, waiters, word, mail, mode, cur, qi, mix, passed>>

\* The nodes synch_wake meets: w before each round, and after the last.
Met(r) ==
    LET w[i \in 0..r.count] ==
            IF i = 0 THEN head[r.address]
            ELSE IF w[i - 1] = 0 THEN 0 ELSE node[w[i - 1]].next
    IN  w

Rounds(r) == {i \in 0..r.count - 1 : word[r.address] = r.value /\ Met(r)[i] # 0}

\* synch_wake: each round unblocks the task of its node and passes the NEXT node
\* to heap_free (nothing happens if there is none, or if it is free already).
\* The list is left as it is.
DoWake(r) ==
    /\ Take("wake", r)
    /\ LET woken == {task_map[node[Met(r)[i]].task_id] : i \in Rounds(r)}
       IN  /\ 0 \notin woken
           /\ state' = [s \in Slots |-> IF \E c \in woken : slotOf[info[c]] = s
                                        THEN state[s] \ {"blocked"} ELSE state[s]]
    /\ loose' = loose \cup ({Met(r)[i + 1] : i \in Rounds(r)} \ {0})
    /\ Reply(Requester)
    /\ UNCHANGED <<cr3, tables, head, node, word, mail, mode, cur, qi, mix, passed>>

\* A node's task no longer exists.
DoWakeReaped(r) ==
    /\ Take("wake", r)
    /\ \E i \in Rounds(r) : task_map[node[Met(r)[i]].task_id] = 0
    /\ Stop("nullref")

\* What heap_free has made of a node that is read or freed afterwards.
DoWakeLoose(r) ==
    /\ Take("wake", r)
    /\ \E i \in Rounds(r) : i > 0 \/ {Met(r)[i], Met(r)[i + 1]} \cap loose # {}
    /\ Stop("corrupt")

\* Mutants of RemoveFromQueue: the last entry does not take the place of the
\* one removed; and it does, but the queue does not become shorter.
RemoveLast(id) ==
    IF \E i \in 1..queue_size : queue[i][1] = id
    THEN queue_size' = queue_size - 1 /\ UNCHANGED queue
    ELSE UNCHANGED <<queue, queue_size>>
RemoveKeepsSize(id) ==
    /\ queue' = [i \in DOMAIN queue |->
                    IF i <= queue_size /\ queue[i][1] = id THEN queue[queue_size] ELSE queue[i]]
    /\ UNCHANGED queue_size

\* remove_from_queue: the last entry takes the place of the one removed.
RemoveFromQueue(id) ==
    LET places == {i \in 1..queue_size : queue[i][1] = id}
    IN  IF places = {} THEN UNCHANGED <<queue, queue_size>>
        ELSE LET i == CHOOSE i \in places : \A j \in places : i <= j
             IN  /\ queue' = [queue EXCEPT ![i] = queue[queue_size]]
                 /\ queue_size' = queue_size - 1

\* sched_task_reap and remove_from_queue of the id, then heap_free of the info
\* of the task that asked.
DoReap(r) ==
    /\ Take("reap", r)
    /\ LET id == IF r.task_id = 0 THEN Self ELSE r.task_id
           c  == task_map[id]
       IN  /\ IF c = 0 THEN UNCHANGED <<state, cr3, task_map>>
              ELSE /\ state' = [state EXCEPT ![slotOf[info[c]]] = {}]
                   /\ cr3' = [cr3 EXCEPT ![slotOf[info[c]]] = FALSE]
                   /\ task_map' = [task_map EXCEPT ![id] = 0]
           /\ RemoveFromQueue(id)
    /\ freed' = freed \cup {SelfCell}
    /\ IF r.task_id = 0 THEN UNCHANGED sout ELSE Reply(info[queue'[qi][2]])
    /\ UNCHANGED <<owner, slotOf, info, next_id, waiters, word, mail, mode, cur, qi, mix, passed>>

\* process() goes on with a task_info_t that was freed: if heap_free has left
\* its contents alone, the actions here apply, and otherwise nothing is known.
ReadFreed ==
    /\ Processing /\ SelfCell \in freed
    /\ Stop("corrupt")
    /\ UNCHANGED <<sin, any>>

\* process() finds q->info->sin empty, in process_for.
ProcessDone ==
    /\ mode = "process" /\ sin[Requester] = <<>>
    /\ AfterProcess
    /\ UNCHANGED memory

\* And in listen().
ListenNext ==
    /\ mode = "serve" /\ sin[Requester] = <<>>
    /\ mode' = Pass(qi + 1)
    /\ qi' = IF mode' = "serve" THEN qi + 1 ELSE 1
    /\ UNCHANGED <<memory, cur, any, passed>>

\* Mutant of ListenAgain: "any" is not cleared before the next pass.
AgainKeepsAny ==
    /\ mode = "listen" /\ any
    /\ mode' = Pass(1)
    /\ UNCHANGED <<memory, cur, qi, any, passed>>

\* The end of listen()'s for loop: once more, or int 0xff.
ListenAgain ==
    /\ mode = "listen" /\ any
    /\ mode' = Pass(1) /\ any' = FALSE
    /\ UNCHANGED <<memory, cur, qi, passed>>

ListenYield ==
    /\ mode = "listen" /\ ~any
    /\ YieldFrom(1)
    /\ UNCHANGED memory

Stopped == mode \in {"reset", "nullref", "overflow", "corrupt"} /\ UNCHANGED vars

----------------------------------------------------------------------------
DoRequest ==
    \E r \in Request :
        \/ DoSpawn(r) \/ DoSpawnFull(r)
        \/ DoSetState(r)
        \/ DoWait(r) \/ DoWaitReaped(r) \/ DoWaitChanged(r)
        \/ DoWake(r) \/ DoWakeReaped(r) \/ DoWakeLoose(r)
        \/ DoReap(r)
        \/ DoForward(r) \/ DoSetName(r) \/ DoGetNamed(r)

\* What the scheduler's own code does.
Kernel == DoRequest \/ ReadFreed \/ ProcessDone \/ ListenNext \/ ListenAgain \/ ListenYield

UserStep ==
    \E t \in Ids :
        \/ \E r \in Request : UserRequest(t, r)
        \/ UserReply(t) \/ UserMessage(t)
        \/ \E a \in Addrs, w \in Words : UserStore(t, a, w)
        \/ UserProcess(t) \/ UserYield(t)

Next == Kernel \/ UserStep \/ Stopped

Spec == Init /\ [][Next]_vars

\* The scheduler's code keeps running while it has the processor; no user task
\* is obliged to do anything.
FairSpec == Spec /\ WF_vars(Kernel)
----------------------------------------------------------------------------
(* Properties. *)

TypeOK ==
    /\ state \in [Slots -> SUBSET Bits]
    /\ cr3 \in [Slots -> BOOLEAN]
    /\ owner \in [Slots -> 0..MaxId]
    /\ slotOf \in [Ids -> 0..NumSlots]
    /\ info \in [Cells -> 0..MaxId]
    /\ freed \subseteq Cells
    /\ task_map \in [Ids -> 0..MaxId]
    /\ queue \in [1..QueueLength -> (0..MaxId) \X (0..MaxId)]
    /\ queue_size \in 0..QueueLength
    /\ next_id \in 1..MaxId + 1
    /\ \A t \in Ids : /\ \A i \in 1..Len(sin[t]) : sin[t][i] \in Request
                      /\ \A i \in 1..Len(sout[t]) : sout[t][i] \in Ids
                      /\ Len(sin[t]) <= SinLength /\ Len(sout[t]) <= SoutLength
    /\ head \in [Addrs -> 0..MaxWaits]
    /\ node \in [Nodes -> [task_id : 0..MaxId, next : 0..MaxWaits]]
    /\ loose \subseteq Nodes
    /\ word \in [Addrs -> Words]
    /\ \A t \in Ids : /\ \A i \in 1..Len(gin[t]) : gin[t][i] \in Ids
                      /\ Len(gin[t]) <= GinLength
    /\ named \in [Names -> 0..MaxId]
    /\ mode \in {"listen", "serve", "process", "user", "reset", "nullref", "overflow", "corrupt"}
    /\ cur \in 0..NumSlots
    /\ qi \in 1..QueueLength
    /\ any \in BOOLEAN

\* A task that WAIT has blocked does not run until a WAKE unblocks it, whichever
\* of int 0xfe, int 0xff and listen() served its request and chose the next task.
NoBlockedRuns == mode = "user" => "blocked" \notin state[cur]

\* Whatever tasks are spawned and reaped, in whatever order listen() and
\* process_for() come upon the requests, queue[] lists exactly the tasks of
\* task_map, each once, with a task_info_t that is its own and not freed.
QueueMatchesMap ==
    mode \in {"listen", "serve", "process", "user"} =>
        LET live == {t \in Ids : task_map[t] # 0}
        IN  /\ {queue[i] : i \in 1..queue_size} = {<<t, task_map[t]>> : t \in live}
            /\ Cardinality(live) = queue_size
            /\ \A t \in live : info[task_map[t]] = t /\ task_map[t] \notin freed

\* choose_next is round robin: no runnable task sees another slot dispatched
\* more often than there are other slots before its own turn comes.
NobodySkipped == \A s \in Slots : passed[s] < NumSlots

\* listen() yields to a task only when every task's sin is empty, though entries
\* of queue[] move and appear while it walks over them.
ListenDrains ==
    [][mode = "listen" /\ mode' = "user" =>
          \A t \in Ids : task_map[t] # 0 => sin[t] = <<>>]_vars

\* A status goes to the task whose request it answers, also when the request
\* changed queue[] under process().
RepliesReachRequester == \A t \in Ids : \A i \in 1..Len(sout[t]) : sout[t][i] = t

\* The scheduler always gives the processor back: int 0xfe ends, and listen()
\* stops walking over queue[] once a task can run.
KernelReturns ==
    /\ mode = "process" ~> mode # "process"
    /\ mode \in {"serve", "listen"} ~> (mode \notin {"serve", "listen"} \/ Runnable(state) \subseteq {1})

\* "should never be reached!" (rlib_reap_self): a task that was reaped is not
\* resumed, with or without the page table that reaping it took away.
ReapedNeverResumed == mode \in {"user", "reset"} /\ cur # 0 => "valid" \in state[cur]
============================================================================
