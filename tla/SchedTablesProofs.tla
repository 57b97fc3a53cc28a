------------------------- MODULE SchedTablesProofs -------------------------
(***************************************************************************)
(* Theorems about the tables of Sched and the requests that change them,   *)
(* where tasks reap only themselves, as rlib_reap_self does: queue[] and   *)
(* task_map agree, statuses reach the task that asked, and listen() leaves *)
(* no request behind.                                                      *)
(***************************************************************************)
EXTENDS SchedProofs, Induction, FiniteSetTheorems, SequenceTheorems

----------------------------------------------------------------------------
(* How many SPAWNs wait in the channels. *)

Channels == [Ids -> Seq(Request)]

\* The places of the SPAWN requests in the channels c.
Spots(c) ==
    {p \in Ids \X (1..SinLength) :
        p[2] <= Len(c[p[1]]) /\ c[p[1]][p[2]].type = "spawn"}

\* The SPAWN requests in the channels can be counted.
LEMMA SpotsFinite ==
    ASSUME NEW c
    PROVE  IsFiniteSet(Spots(c)) /\ Cardinality(Spots(c)) \in Nat
<1>1. IsFiniteSet(Ids) /\ IsFiniteSet(1..SinLength)
    BY FS_Interval, SchedAssumption DEF Ids
<1>2. IsFiniteSet(Ids \X (1..SinLength))
    BY <1>1, FS_Product
<1>3. Spots(c) \subseteq Ids \X (1..SinLength)
    BY DEF Spots
<1>4. QED
    BY <1>2, <1>3, FS_Subset, FS_CardinalityType

\* One request less: the requests behind it move up by one place.
LEMMA SpotsTake ==
    ASSUME NEW c \in Channels, NEW t \in Ids, c[t] # <<>>, Len(c[t]) <= SinLength,
           NEW d, d = [c EXCEPT ![t] = Tail(c[t])]
    PROVE  /\ Cardinality(Spots(d)) <= Cardinality(Spots(c))
           /\ Head(c[t]).type = "spawn" =>
                  Cardinality(Spots(d)) + 1 <= Cardinality(Spots(c))
<1>1. /\ c[t] \in Seq(Request) /\ Len(c[t]) \in Nat /\ Len(c[t]) >= 1
      /\ Len(Tail(c[t])) = Len(c[t]) - 1
      /\ \A i \in 1..Len(c[t]) - 1 : Tail(c[t])[i] = c[t][i + 1]
      /\ SinLength \in Nat
    BY SchedAssumption DEF Channels
<1>2. d[t] = Tail(c[t]) /\ \A u \in Ids : u # t => d[u] = c[u]
    BY DEF Channels
<1> DEFINE move == [p \in Spots(d) |-> IF p[1] = t THEN <<t, p[2] + 1>> ELSE p]
           rest == Spots(c) \ {<<t, 1>>}
<1>3. ASSUME NEW p \in Spots(d)
      PROVE  /\ move[p] \in rest
             /\ p = <<p[1], p[2]>> /\ p[1] \in Ids /\ p[2] \in 1..SinLength
    <2>1. /\ p \in Ids \X (1..SinLength) /\ p = <<p[1], p[2]>>
          /\ p[1] \in Ids /\ p[2] \in 1..SinLength
          /\ p[2] <= Len(d[p[1]]) /\ d[p[1]][p[2]].type = "spawn"
        BY DEF Spots
    <2>2. CASE p[1] = t
        <3> DEFINE i == p[2]
        <3>6. d[t] = Tail(c[t]) /\ i <= Len(d[t]) /\ d[t][i].type = "spawn" /\ i \in 1..SinLength
            BY <1>2, <2>1, <2>2
        <3> HIDE DEF i
        <3>7. i <= Len(c[t]) - 1
            BY <1>1, <3>6
        <3>8. i \in 1..Len(c[t]) - 1 /\ i + 1 \in 1..SinLength /\ i + 1 <= Len(c[t])
            BY <1>1, <3>6, <3>7
        <3>9. c[t][i + 1].type = "spawn"
            BY <1>1, <3>6, <3>8
        <3>1. p[2] + 1 \in 1..SinLength /\ p[2] + 1 <= Len(c[t])
            BY <3>8 DEF i
        <3>2. c[t][p[2] + 1].type = "spawn"
            BY <3>9 DEF i
        <3>3. <<t, p[2] + 1>> \in Spots(c)
            BY <3>1, <3>2 DEF Spots
        <3>4. <<t, p[2] + 1>> # <<t, 1>>
            BY <2>1
        <3>5. QED
            BY <2>1, <2>2, <3>3, <3>4
    <2>3. CASE p[1] # t
        <3>1. p \in Spots(c)
            BY <1>2, <2>1, <2>3 DEF Spots
        <3>2. QED
            BY <2>1, <2>3, <3>1
    <2>4. QED
        BY <2>2, <2>3
<1>4. move \in Injection(Spots(d), rest)
    <2>1. move \in [Spots(d) -> rest]
        BY <1>3
    <2>2. ASSUME NEW p \in Spots(d), NEW q \in Spots(d), move[p] = move[q]
          PROVE  p = q
        <3>1. /\ p = <<p[1], p[2]>> /\ p[2] \in 1..SinLength
              /\ q = <<q[1], q[2]>> /\ q[2] \in 1..SinLength
            BY <1>3
        <3>2. /\ move[p] = IF p[1] = t THEN <<t, p[2] + 1>> ELSE p
              /\ move[q] = IF q[1] = t THEN <<t, q[2] + 1>> ELSE q
            OBVIOUS
        <3>3. p[1] = q[1] /\ p[2] = q[2]
            BY <2>2, <3>1, <3>2
        <3>4. QED
            BY <3>1, <3>3
    <2> HIDE DEF move, rest
    <2>3. QED
        BY <2>1, <2>2 DEF Injection, IsInjective
<1>5. /\ IsFiniteSet(Spots(c)) /\ Cardinality(Spots(c)) \in Nat /\ Cardinality(Spots(d)) \in Nat
      /\ IsFiniteSet(rest)
      /\ Cardinality(rest) = IF <<t, 1>> \in Spots(c) THEN Cardinality(Spots(c)) - 1
                             ELSE Cardinality(Spots(c))
    BY SpotsFinite, FS_RemoveElement
<1>6. Cardinality(Spots(d)) <= Cardinality(rest)
    <2> HIDE DEF move, rest
    <2>1. QED
        BY <1>4, <1>5, FS_Injection
<1>7. Head(c[t]).type = "spawn" => <<t, 1>> \in Spots(c)
    BY <1>1 DEF Spots
<1> HIDE DEF rest
<1>8. QED
    BY <1>5, <1>6, <1>7

\* One request more.
LEMMA SpotsPut ==
    ASSUME NEW c \in Channels, NEW t \in Ids, NEW r \in Request, Len(c[t]) < SinLength,
           NEW d, d = [c EXCEPT ![t] = Append(c[t], r)]
    PROVE  Cardinality(Spots(d)) <= IF r.type = "spawn" THEN Cardinality(Spots(c)) + 1
                                    ELSE Cardinality(Spots(c))
<1>1. /\ c[t] \in Seq(Request) /\ Len(c[t]) \in Nat /\ SinLength \in Nat
      /\ Len(Append(c[t], r)) = Len(c[t]) + 1
      /\ \A i \in 1..Len(c[t]) : Append(c[t], r)[i] = c[t][i]
      /\ Append(c[t], r)[Len(c[t]) + 1] = r
    BY SchedAssumption DEF Channels
<1>2. d[t] = Append(c[t], r) /\ \A u \in Ids : u # t => d[u] = c[u]
    BY DEF Channels
<1>3. ASSUME NEW p \in Spots(d)
      PROVE  p \in Spots(c) \/ (p = <<t, Len(c[t]) + 1>> /\ r.type = "spawn")
    <2>1. /\ p \in Ids \X (1..SinLength) /\ p = <<p[1], p[2]>>
          /\ p[1] \in Ids /\ p[2] \in 1..SinLength
          /\ p[2] <= Len(d[p[1]]) /\ d[p[1]][p[2]].type = "spawn"
        BY DEF Spots
    <2>2. CASE p[1] # t
        BY <1>2, <2>1, <2>2 DEF Spots
    <2>3. CASE p[1] = t /\ p[2] <= Len(c[t])
        <3>1. p[2] \in 1..Len(c[t])
            BY <1>1, <2>1, <2>3
        <3>2. c[t][p[2]].type = "spawn"
            BY <1>1, <1>2, <2>1, <2>3, <3>1
        <3>3. QED
            BY <2>1, <2>3, <3>2 DEF Spots
    <2>4. CASE p[1] = t /\ ~ (p[2] <= Len(c[t]))
        <3>1. p[2] = Len(c[t]) + 1
            BY <1>1, <1>2, <2>1, <2>4
        <3>2. QED
            BY <1>1, <1>2, <2>1, <2>4, <3>1
    <2>5. QED
        BY <2>2, <2>3, <2>4
<1>4. /\ IsFiniteSet(Spots(c)) /\ Cardinality(Spots(c)) \in Nat
    BY SpotsFinite
<1> DEFINE more == Spots(c) \cup {<<t, Len(c[t]) + 1>>}
<1>5. IsFiniteSet(more) /\ Cardinality(more) <= Cardinality(Spots(c)) + 1
    <2> DEFINE k == Cardinality(Spots(c))
    <2>1. IsFiniteSet(more)
          /\ (Cardinality(more) = k \/ Cardinality(more) = k + 1) /\ k \in Nat
        BY <1>4, FS_AddElement
    <2> HIDE DEF k, more
    <2>2. Cardinality(more) <= k + 1
        BY <2>1
    <2>3. QED
        BY <2>1, <2>2 DEF k
<1>6. CASE r.type = "spawn"
    <2>1. Spots(d) \subseteq more
        BY <1>3
    <2> HIDE DEF more
    <2>2. Cardinality(Spots(d)) <= Cardinality(more) /\ Cardinality(more) \in Nat
        BY <1>5, <2>1, FS_Subset, FS_CardinalityType
    <2>3. QED
        BY <1>4, <1>5, <1>6, <2>2, SpotsFinite
<1>7. CASE r.type # "spawn"
    <2>1. Spots(d) \subseteq Spots(c)
        BY <1>3, <1>7
    <2>2. Cardinality(Spots(d)) <= Cardinality(Spots(c))
        BY <1>4, <2>1, FS_Subset
    <2>3. QED
        BY <1>7, <2>2
<1>8. QED
    BY <1>6, <1>7

----------------------------------------------------------------------------
(* The inductive invariant. *)

Alive == mode \in {"listen", "serve", "process", "user"}

Live == {t \in Ids : task_map[t] # 0}

TablesType ==
    /\ cr3 \in [Slots -> BOOLEAN]
    /\ owner \in [Slots -> 0..MaxId]
    /\ slotOf \in [Ids -> 0..NumSlots]
    /\ info \in [Cells -> 0..MaxId]
    /\ freed \subseteq Cells
    /\ task_map \in [Ids -> 0..MaxId]
    /\ queue \in [1..QueueLength -> (0..MaxId) \X (0..MaxId)]
    /\ queue_size \in 0..QueueLength
    /\ next_id \in 1..MaxId + 1
    /\ sin \in Channels
    /\ \A t \in Ids : Len(sin[t]) <= SinLength

\* queue[] and task_map list the same tasks, queue[] each of them once.
Entries ==
    /\ \A i \in 1..queue_size : /\ queue[i][1] \in Live
                                /\ queue[i][2] = task_map[queue[i][1]]
    /\ \A t \in Live : \E i \in 1..queue_size : queue[i][1] = t
    /\ \A i, j \in 1..queue_size : queue[i][1] = queue[j][1] => i = j
    /\ IsFiniteSet(Live) /\ Cardinality(Live) = queue_size

\* Each task has a task_info_t of its own.
Infos ==
    /\ \A t \in Live : /\ t < next_id
                       /\ task_map[t] \in Cells
                       /\ info[task_map[t]] = t
                       /\ task_map[t] \notin freed
    /\ \A c \in Cells : info[c] < next_id

\* A slot with a page table belongs to a task that exists.
Owners ==
    \A s \in Slots :
        owner[s] # 0 => /\ owner[s] < next_id
                        /\ slotOf[owner[s]] = s
                        /\ cr3[s] => owner[s] \in Live

\* A task that does not exist has no requests, one that is about to reap itself
\* makes no other, and there are ids for the tasks asked for.
Requested ==
    /\ \A t \in Ids \ Live : sin[t] = <<>>
    /\ \A t \in Ids : \A i \in 1..Len(sin[t]) - 1 : sin[t][i].type # "reap"
    /\ next_id + Cardinality(Spots(sin)) <= MaxId + 1

\* Where process() and listen() are in queue[], and what they have seen.
Walk ==
    /\ qi \in 1..QueueLength
    /\ mode = "user" => cr3[cur]
    /\ mode = "listen" => qi = 1
    /\ Processing /\ qi > queue_size => sin[Requester] = <<>>
    /\ ~ any => \A i \in 1..queue_size :
                   (mode = "listen" \/ (mode = "serve" /\ i < qi)) => sin[queue[i][1]] = <<>>

Tables == TablesType /\ Entries /\ Infos /\ Owners /\ Requested

\* It says nothing once the scheduler has failed, and all of it while it runs.
TablesInv == Alive => Tables /\ Walk

\* The states that boot leaves satisfy the invariant.
LEMMA TablesInit == Init => TablesInv
<1> SUFFICES ASSUME Init PROVE Tables /\ Walk
    BY DEF TablesInv
<1>1. /\ NumSlots \in Nat /\ NumSlots >= 2 /\ Slots = 1..NumSlots
      /\ MaxId \in Nat /\ MaxId >= 1 /\ Ids = 1..MaxId /\ Cells = 1..MaxId
      /\ QueueLength \in Nat /\ QueueLength >= 1 /\ SinLength \in Nat
    BY SchedAssumption DEF Slots, Ids, Cells
<1>2. sin \in Channels /\ \A t \in Ids : sin[t] = <<>> /\ Len(sin[t]) = 0
    BY DEF Init, Channels
<1>3. Spots(sin) = {}
    BY <1>1, <1>2 DEF Spots
<1>4. Live = {1}
    BY <1>1 DEF Init, Live
<1>5. IsFiniteSet(Live) /\ Cardinality(Live) = 1
    BY <1>4, FS_Singleton
<1>6. TablesType
    BY <1>1, <1>2 DEF Init, TablesType
<1>7. Entries
    BY <1>1, <1>4, <1>5 DEF Init, Entries
<1>8. Infos /\ Owners
    BY <1>1, <1>4 DEF Init, Infos, Owners
<1>9. Requested
    <2>1. Cardinality(Spots(sin)) = 0
        BY <1>3, FS_EmptySet
    <2>2. QED
        BY <1>1, <1>2, <2>1 DEF Init, Requested
<1>10. Walk
    BY <1>1 DEF Init, Walk
<1>11. QED
    BY <1>6, <1>7, <1>8, <1>9, <1>10 DEF Tables

----------------------------------------------------------------------------
(* Requests served. *)

\* A step that leaves the tables and the requests alone keeps what is said of them.
LEMMA TablesKept ==
    ASSUME Tables, UNCHANGED <<cr3, tables, sin>>
    PROVE  Tables'
BY DEF Tables, tables, TablesType, Entries, Infos, Owners, Requested, Live, Spots

\* A request that is taken is that of the entry which process() works on.
LEMMA RequesterIsSelf ==
    ASSUME Tables, Walk, Processing, sin[Requester] # <<>>
    PROVE  /\ qi \in 1..queue_size
           /\ Self \in Live /\ Self \in Ids /\ Requester = Self
           /\ SelfCell = task_map[Self] /\ SelfCell \in Cells
<1>1. qi \in 1..queue_size
    BY DEF Walk, Tables, TablesType
<1>2. Self \in Live /\ SelfCell = task_map[Self]
    BY <1>1 DEF Tables, Entries, Self, SelfCell
<1>3. Requester = Self /\ SelfCell \in Cells
    BY <1>2 DEF Tables, Infos, Requester
<1>4. QED
    BY <1>1, <1>2, <1>3 DEF Live

\* What Take leaves of the requests.
LEMMA TakeRequested ==
    ASSUME Tables, Walk, NEW type, NEW r, Take(type, r)
    PROVE  /\ sin' \in Channels
           /\ \A t \in Ids : Len(sin'[t]) <= SinLength
           /\ \A t \in Ids : t # Self => sin'[t] = sin[t]
           /\ \A t \in Ids : \A i \in 1..Len(sin'[t]) - 1 : sin'[t][i].type # "reap"
           /\ type = "reap" => sin'[Self] = <<>>
           /\ next_id + Cardinality(Spots(sin')) <= MaxId + 1
           /\ type = "spawn" => next_id + Cardinality(Spots(sin')) <= MaxId
<1>1. Self \in Ids /\ Requester = Self /\ Processing /\ sin[Self] # <<>>
    BY RequesterIsSelf DEF Take
<1>2. /\ sin' = [sin EXCEPT ![Self] = Tail(sin[Self])] /\ r = Head(sin[Self]) /\ r.type = type
    BY <1>1 DEF Take
<1>3. /\ sin \in Channels /\ \A t \in Ids : Len(sin[t]) <= SinLength
      /\ \A t \in Ids : \A i \in 1..Len(sin[t]) - 1 : sin[t][i].type # "reap"
      /\ next_id \in Nat /\ next_id + Cardinality(Spots(sin)) <= MaxId + 1
      /\ MaxId \in Nat /\ SinLength \in Nat
    <2>1. TablesType /\ Requested /\ MaxId \in Nat /\ SinLength \in Nat
        BY SchedAssumption DEF Tables
    <2>2. next_id \in Nat
        BY <2>1 DEF TablesType
    <2>3. QED
        BY <2>1, <2>2 DEF TablesType, Requested
<1>4. /\ sin[Self] \in Seq(Request) /\ Len(sin[Self]) \in Nat /\ Len(sin[Self]) >= 1
      /\ Tail(sin[Self]) \in Seq(Request)
      /\ Len(Tail(sin[Self])) = Len(sin[Self]) - 1
      /\ \A i \in 1..Len(sin[Self]) - 1 : Tail(sin[Self])[i] = sin[Self][i + 1]
      /\ Head(sin[Self]) = sin[Self][1]
    BY <1>1, <1>3 DEF Channels
<1>5. sin'[Self] = Tail(sin[Self]) /\ \A t \in Ids : t # Self => sin'[t] = sin[t]
    BY <1>1, <1>2, <1>3 DEF Channels
<1>6. sin' \in Channels
    BY <1>1, <1>2, <1>3, <1>4 DEF Channels
<1> DEFINE q == sin[Self]
           n == Len(q)
<1>7. ASSUME NEW t \in Ids PROVE Len(sin'[t]) <= SinLength
    <2>1. n \in Nat /\ n <= SinLength /\ Len(Tail(q)) = n - 1
        BY <1>1, <1>3, <1>4
    <2> HIDE DEF n, q
    <2>2. Len(Tail(q)) <= SinLength
        BY <1>3, <2>1
    <2>3. t = Self => sin'[t] = Tail(q)
        BY <1>5 DEF q
    <2>4. QED
        BY <1>3, <1>5, <2>2, <2>3
<1>8. ASSUME NEW t \in Ids, NEW i \in 1..Len(sin'[t]) - 1
      PROVE  sin'[t][i].type # "reap"
    <2>1. CASE t = Self
        <3>1. /\ i \in 1..Len(Tail(q)) - 1 /\ Len(Tail(q)) = n - 1 /\ n \in Nat
              /\ \A j \in 1..n - 1 : Tail(q)[j] = q[j + 1]
              /\ \A j \in 1..n - 1 : q[j].type # "reap"
            BY <1>1, <1>3, <1>4, <1>5, <2>1
        <3> HIDE DEF n, q
        <3>2. i \in 1..n - 1 /\ i + 1 \in 1..n - 1
            BY <3>1
        <3>3. Tail(q)[i].type # "reap"
            BY <3>1, <3>2
        <3>4. sin'[t][i] = Tail(q)[i]
            BY <1>5, <2>1 DEF q
        <3>5. QED
            BY <3>3, <3>4
    <2>2. CASE t # Self
        BY <1>3, <1>5, <2>2
    <2>3. QED
        BY <2>1, <2>2
<1>9. type = "reap" => sin'[Self] = <<>>
    <2>1. /\ n \in Nat /\ n >= 1 /\ q[1].type = type
          /\ Tail(q) \in Seq(Request) /\ Len(Tail(q)) = n - 1
          /\ \A j \in 1..n - 1 : q[j].type # "reap"
        BY <1>1, <1>2, <1>3, <1>4
    <2>3. n = 1 => Tail(q) = <<>>
        <3>1. Tail(q) \in Seq(Request) /\ (n = 1 => Len(Tail(q)) = 0)
            BY <2>1
        <3> HIDE DEF n, q
        <3>2. QED
            BY <3>1, EmptySeq
    <2> HIDE DEF n, q
    <2>2. type = "reap" => n = 1
        BY <2>1
    <2>4. sin'[Self] = Tail(q)
        BY <1>5 DEF q
    <2>5. QED
        BY <2>2, <2>3, <2>4
<1> HIDE DEF n, q
<1>10. /\ Cardinality(Spots(sin')) <= Cardinality(Spots(sin))
       /\ type = "spawn" => Cardinality(Spots(sin')) + 1 <= Cardinality(Spots(sin))
    BY <1>1, <1>2, <1>3, SpotsTake
<1>11. Cardinality(Spots(sin)) \in Nat /\ Cardinality(Spots(sin')) \in Nat
    BY SpotsFinite
<1>12. QED
    BY <1>3, <1>5, <1>6, <1>7, <1>8, <1>9, <1>10, <1>11

\* process() has taken a request: listen() will go over queue[] once more.
LEMMA TakeWalks ==
    ASSUME Tables, Walk, NEW type, NEW r, Take(type, r), mode' = mode, qi' = qi,
           queue_size' \in Nat, qi <= queue_size' \/ sin'[Requester'] = <<>>
    PROVE  Walk'
<1>1. mode \in {"process", "serve"} /\ any' = (mode = "serve")
    BY DEF Take, Processing
<1>2. qi \in 1..QueueLength /\ qi \in Nat
    BY SchedAssumption DEF Walk
<1>3. Processing' /\ qi' > queue_size' => sin'[Requester'] = <<>>
    BY <1>2
<1>4. QED
    BY <1>1, <1>2, <1>3 DEF Walk

\* A request that leaves the tables as they are.
LEMMA ServedStep ==
    ASSUME Tables, Walk, NEW type, NEW r, Take(type, r),
           UNCHANGED <<cr3, tables, mode, qi>>
    PROVE  Tables' /\ Walk'
<1>1. /\ qi \in 1..queue_size /\ Self \in Live
    BY RequesterIsSelf DEF Take
<1>2. UNCHANGED <<cr3, owner, slotOf, info, freed, task_map, queue, queue_size, next_id, mode, qi>>
    BY DEF tables
<1>3. Live' = Live
    BY <1>2 DEF Live
<1>4. TablesType'
    BY <1>2, TakeRequested DEF Tables, TablesType
<1>5. Entries' /\ Infos' /\ Owners'
    BY <1>2, <1>3 DEF Tables, Entries, Infos, Owners
<1>6. Requested'
    BY <1>1, <1>2, <1>3, TakeRequested DEF Tables, Requested
<1>7. qi <= queue_size' /\ queue_size' \in Nat
    BY <1>1, <1>2 DEF Tables, TablesType
<1>8. Walk'
    BY <1>2, <1>7, TakeWalks
<1>9. QED
    BY <1>4, <1>5, <1>6, <1>8 DEF Tables

\* A new task, with an id, a queue entry and a task_info_t that nobody has.
LEMMA SpawnStep ==
    ASSUME Tables, Walk, NEW r, DoSpawn(r)
    PROVE  Tables' /\ Walk'
<1>1. Take("spawn", r) /\ Processing /\ mode' = mode /\ qi' = qi
    BY DEF DoSpawn, Take
<1>2. /\ qi \in 1..queue_size /\ Self \in Live /\ Self \in Ids
    BY <1>1, RequesterIsSelf DEF Take
<1> DEFINE id == next_id
<1>3. PICK c \in FreshCells, s \in Available :
          /\ queue_size < QueueLength
          /\ cr3' = [cr3 EXCEPT ![s] = TRUE]
          /\ owner' = [owner EXCEPT ![s] = id]
          /\ slotOf' = [slotOf EXCEPT ![id] = s]
          /\ info' = [info EXCEPT ![c] = id]
          /\ freed' = freed \ {c}
          /\ task_map' = [task_map EXCEPT ![id] = c]
          /\ queue' = [queue EXCEPT ![queue_size + 1] = <<id, c>>]
          /\ queue_size' = queue_size + 1
          /\ next_id' = id + 1
    BY DEF DoSpawn
<1>4. TablesType /\ Entries /\ Infos /\ Owners /\ Requested
    BY DEF Tables
<1>5. /\ sin' \in Channels
      /\ \A t \in Ids : Len(sin'[t]) <= SinLength
      /\ \A t \in Ids : t # Self => sin'[t] = sin[t]
      /\ \A t \in Ids : \A i \in 1..Len(sin'[t]) - 1 : sin'[t][i].type # "reap"
      /\ id + Cardinality(Spots(sin')) <= MaxId
    BY <1>1, TakeRequested
<1>6. /\ id \in Ids /\ id \in 1..MaxId /\ id \in Nat /\ MaxId \in Nat /\ id # 0
      /\ id + 1 \in 1..MaxId + 1
    <2>1. Cardinality(Spots(sin')) \in Nat
        BY SpotsFinite
    <2>2. next_id \in 1..MaxId + 1 /\ MaxId \in Nat
        BY <1>4, SchedAssumption DEF TablesType
    <2> DEFINE k == Cardinality(Spots(sin'))
    <2> HIDE DEF k
    <2>3. k \in Nat /\ next_id + k <= MaxId
        BY <1>5, <2>1 DEF k
    <2>4. QED
        BY <2>2, <2>3 DEF Ids
<1>7. /\ c \in Cells /\ c \in 1..MaxId /\ c # 0 /\ s \in Slots /\ s \in 1..NumSlots /\ c \in 0..MaxId
      /\ \A t \in Live : task_map[t] # c
    <2>1. c \in freed \/ (c \in Cells /\ info[c] = 0)
        BY DEF FreshCells
    <2>2. c \in Cells
        BY <1>4, <2>1 DEF TablesType
    <2>3. ASSUME NEW t \in Live PROVE task_map[t] # c
        <3>1. task_map[t] \notin freed /\ info[task_map[t]] = t /\ t # 0
            BY <1>4 DEF Infos, Live, Ids
        <3>2. QED
            BY <2>1, <3>1
    <2>4. QED
        BY <2>2, <2>3 DEF Cells, Available, Slots
<1>8. id \notin Live /\ \A t \in Live : t \in Ids /\ t # id
    BY <1>4, <1>6 DEF Infos, Live, Ids
<1>9. /\ task_map'[id] = c /\ \A t \in Ids : t # id => task_map'[t] = task_map[t]
      /\ info'[c] = id /\ \A d \in Cells : d # c => info'[d] = info[d]
      /\ slotOf'[id] = s /\ \A t \in Ids : t # id => slotOf'[t] = slotOf[t]
      /\ owner'[s] = id /\ \A u \in Slots : u # s => owner'[u] = owner[u] /\ cr3'[u] = cr3[u]
    BY <1>3, <1>4, <1>6, <1>7 DEF TablesType
<1>10. Live' = Live \cup {id}
    BY <1>6, <1>7, <1>9 DEF Live
<1>11. /\ queue_size \in Nat /\ queue_size + 1 \in 1..QueueLength /\ QueueLength \in Nat
       /\ queue'[queue_size + 1] = <<id, c>>
       /\ \A i \in 1..queue_size : queue'[i] = queue[i]
       /\ 1..queue_size' = 1..queue_size \cup {queue_size + 1}
    BY <1>3, <1>4, SchedAssumption DEF TablesType
<1>12. TablesType'
    <2>0. id \in 0..MaxId /\ s \in 0..NumSlots
        BY <1>6, <1>7
    <2> HIDE DEF id
    <2>1. cr3' \in [Slots -> BOOLEAN] /\ owner' \in [Slots -> 0..MaxId]
        BY <1>3, <1>4, <2>0 DEF TablesType
    <2>2. slotOf' \in [Ids -> 0..NumSlots] /\ task_map' \in [Ids -> 0..MaxId]
        BY <1>3, <1>4, <1>7, <2>0 DEF TablesType
    <2>3. info' \in [Cells -> 0..MaxId] /\ freed' \subseteq Cells
        BY <1>3, <1>4, <2>0 DEF TablesType
    <2>4. queue' \in [1..QueueLength -> (0..MaxId) \X (0..MaxId)]
        <3>1. <<id, c>> \in (0..MaxId) \X (0..MaxId)
            BY <1>7, <2>0
        <3>2. queue \in [1..QueueLength -> (0..MaxId) \X (0..MaxId)]
            BY <1>4 DEF TablesType
        <3> HIDE DEF id
        <3>3. QED
            BY <1>3, <3>1, <3>2
    <2>5. queue_size' \in 0..QueueLength /\ next_id' \in 1..MaxId + 1
        BY <1>3, <1>6, <1>11
    <2>6. QED
        BY <1>5, <2>1, <2>2, <2>3, <2>4, <2>5 DEF TablesType
<1>13. Entries'
    <2>1. ASSUME NEW i \in 1..queue_size'
          PROVE  queue'[i][1] \in Live' /\ queue'[i][2] = task_map'[queue'[i][1]]
        <3>1. CASE i \in 1..queue_size
            <4>1. queue'[i] = queue[i] /\ queue[i][1] \in Live /\ queue[i][2] = task_map[queue[i][1]]
                BY <1>4, <1>11, <3>1 DEF Entries
            <4>2. QED
                BY <1>8, <1>9, <1>10, <4>1
        <3>2. CASE i = queue_size + 1
            BY <1>9, <1>10, <1>11, <3>2
        <3>3. QED
            BY <1>11, <3>1, <3>2
    <2>2. ASSUME NEW t \in Live'
          PROVE  \E i \in 1..queue_size' : queue'[i][1] = t
        <3>1. CASE t = id
            BY <1>11, <3>1
        <3>2. CASE t \in Live
            BY <1>4, <1>11, <3>2 DEF Entries
        <3>3. QED
            BY <1>10, <3>1, <3>2
    <2>3. ASSUME NEW i \in 1..queue_size', NEW j \in 1..queue_size', queue'[i][1] = queue'[j][1]
          PROVE  i = j
        <3>1. \A k \in 1..queue_size : queue'[k][1] = queue[k][1] /\ queue'[k][1] # id
            BY <1>4, <1>8, <1>11 DEF Entries
        <3>2. queue'[queue_size + 1][1] = id
            BY <1>11
        <3>3. CASE i \in 1..queue_size /\ j \in 1..queue_size
            BY <1>4, <2>3, <3>1, <3>3 DEF Entries
        <3>4. CASE i = queue_size + 1 \/ j = queue_size + 1
            BY <1>11, <2>3, <3>1, <3>2, <3>4
        <3>5. QED
            BY <1>11, <3>3, <3>4
    <2>4. IsFiniteSet(Live') /\ Cardinality(Live') = queue_size'
        <3>1. IsFiniteSet(Live) /\ Cardinality(Live) = queue_size
            BY <1>4 DEF Entries
        <3>2. QED
            BY <1>3, <1>8, <1>10, <3>1, FS_AddElement
    <2>5. QED
        BY <2>1, <2>2, <2>3, <2>4 DEF Entries
<1>14. Infos'
    <2>1. ASSUME NEW t \in Live'
          PROVE  /\ t < next_id' /\ task_map'[t] \in Cells
                 /\ info'[task_map'[t]] = t /\ task_map'[t] \notin freed'
        <3>1. CASE t = id
            BY <1>3, <1>6, <1>7, <1>9, <3>1
        <3>2. CASE t \in Live
            <4>1. /\ t \in Nat /\ t < id /\ task_map[t] \in Cells
                  /\ info[task_map[t]] = t /\ task_map[t] \notin freed
                BY <1>4, <3>2 DEF Infos, Live, Ids
            <4>2. task_map'[t] = task_map[t] /\ task_map[t] # c
                BY <1>7, <1>8, <1>9, <3>2
            <4>3. QED
                BY <1>3, <1>6, <1>9, <4>1, <4>2
        <3>3. QED
            BY <1>10, <3>1, <3>2
    <2>2. ASSUME NEW d \in Cells
          PROVE  info'[d] < next_id'
        <3>1. info[d] < id /\ info[d] \in Nat
            BY <1>4, SchedAssumption DEF Infos, TablesType
        <3>2. QED
            BY <1>3, <1>6, <1>9, <3>1
    <2>3. QED
        BY <2>1, <2>2 DEF Infos
<1>15. Owners'
    <2>1. ASSUME NEW u \in Slots, owner'[u] # 0
          PROVE  /\ owner'[u] < next_id' /\ slotOf'[owner'[u]] = u
                 /\ cr3'[u] => owner'[u] \in Live'
        <3>1. CASE u = s
            BY <1>3, <1>6, <1>9, <1>10, <3>1
        <3>2. CASE u # s
            <4>1. owner'[u] = owner[u] /\ cr3'[u] = cr3[u]
                BY <1>9, <3>2
            <4>2. owner[u] < id /\ slotOf[owner[u]] = u
                BY <1>4, <2>1, <4>1 DEF Owners
            <4> HIDE DEF id
            <4>3. owner[u] \in 0..MaxId /\ owner[u] # 0 /\ owner[u] < id
                BY <1>4, <2>1, <4>1, <4>2 DEF TablesType
            <4>4. owner[u] \in Ids /\ owner[u] # id /\ owner[u] < id + 1
                BY <1>6, <4>3 DEF Ids
            <4>7. slotOf'[owner[u]] = u
                BY <1>9, <4>2, <4>4
            <4>5. cr3[u] => owner[u] \in Live'
                BY <1>4, <1>10, <2>1, <4>1 DEF Owners
            <4>6. QED
                BY <1>3, <4>1, <4>4, <4>5, <4>7
        <3>3. QED
            BY <3>1, <3>2
    <2>2. QED
        BY <2>1 DEF Owners
<1>16. Requested'
    <2>1. ASSUME NEW t \in Ids \ Live' PROVE sin'[t] = <<>>
        BY <1>2, <1>4, <1>5, <1>10 DEF Requested
    <2>2. Cardinality(Spots(sin')) \in Nat
        BY SpotsFinite
    <2>3. next_id' + Cardinality(Spots(sin')) <= MaxId + 1
        BY <1>3, <1>5, <1>6, <2>2
    <2>4. QED
        BY <1>5, <2>1, <2>3 DEF Requested
<1>17. Walk'
    <2>1. qi <= queue_size' /\ queue_size' \in Nat
        BY <1>2, <1>3, <1>11
    <2>2. QED
        BY <1>1, <2>1, TakeWalks
<1>18. QED
    BY <1>12, <1>13, <1>14, <1>15, <1>16, <1>17 DEF Tables

\* The task that asked disappears, with its page table and its queue entry, and
\* the last entry takes that one's place.
LEMMA ReapStep ==
    ASSUME ReapIds = {0}, Tables, Walk, NEW r \in Request, DoReap(r)
    PROVE  Tables' /\ Walk'
<1>1. Take("reap", r) /\ Processing /\ mode' = mode /\ qi' = qi
    BY DEF DoReap, Take
<1>2. /\ qi \in 1..queue_size /\ Self \in Live /\ Self \in Ids /\ Requester = Self
      /\ SelfCell = task_map[Self] /\ SelfCell \in Cells
    BY <1>1, RequesterIsSelf DEF Take
<1>3. r.task_id = 0
    BY <1>1 DEF Take, Request, Spawn, SetState, Wait, Wake, Reap, Forward, SetName, GetNamed
<1>4. TablesType /\ Entries /\ Infos /\ Owners /\ Requested
    BY DEF Tables
<1>5. task_map[Self] # 0 /\ info[task_map[Self]] = Self
    BY <1>2, <1>4 DEF Infos, Live
<1>6. /\ cr3' = [cr3 EXCEPT ![slotOf[Self]] = FALSE]
      /\ task_map' = [task_map EXCEPT ![Self] = 0]
      /\ RemoveFromQueue(Self)
      /\ freed' = freed \cup {SelfCell}
      /\ UNCHANGED <<owner, slotOf, info, next_id>>
    BY <1>3, <1>5 DEF DoReap
<1>7. /\ queue' = [queue EXCEPT ![qi] = queue[queue_size]]
      /\ queue_size' = queue_size - 1
    <2> DEFINE places == {i \in 1..queue_size : queue[i][1] = Self}
    <2>1. qi \in places /\ \A i \in places : i = qi
        BY <1>2, <1>4 DEF Entries, Self
    <2>2. qi <= qi
        BY <1>2
    <2> HIDE DEF places
    <2>3. (CHOOSE i \in places : \A j \in places : i <= j) = qi
        BY <2>1, <2>2
    <2>4. QED
        BY <1>6, <2>1, <2>3 DEF RemoveFromQueue, places
<1>8. /\ sin' \in Channels
      /\ \A t \in Ids : Len(sin'[t]) <= SinLength
      /\ \A t \in Ids : t # Self => sin'[t] = sin[t]
      /\ \A t \in Ids : \A i \in 1..Len(sin'[t]) - 1 : sin'[t][i].type # "reap"
      /\ sin'[Self] = <<>>
      /\ next_id + Cardinality(Spots(sin')) <= MaxId + 1
    BY <1>1, TakeRequested
<1>9. /\ task_map'[Self] = 0 /\ \A t \in Ids : t # Self => task_map'[t] = task_map[t]
    BY <1>2, <1>4, <1>6 DEF TablesType
<1>10. Live' = Live \ {Self}
    BY <1>2, <1>9 DEF Live
<1>11. /\ queue_size \in Nat /\ queue_size - 1 \in Nat /\ queue_size \in 1..QueueLength
       /\ 1..queue_size = 1..queue_size' \cup {queue_size} /\ queue_size \notin 1..queue_size'
       /\ qi \in 1..QueueLength /\ QueueLength \in Nat /\ qi \in Nat
    <2>1. queue_size \in 0..QueueLength /\ QueueLength \in Nat
        BY <1>4, SchedAssumption DEF TablesType
    <2>2. qi \in 1..queue_size /\ queue_size' = queue_size - 1
        BY <1>2, <1>7
    <2>3. QED
        BY <2>1, <2>2
<1>12. /\ queue'[qi] = queue[queue_size]
       /\ \A i \in 1..QueueLength : i # qi => queue'[i] = queue[i]
       /\ queue[qi][1] = Self
    BY <1>4, <1>7, <1>11 DEF TablesType, Self
<1>13. TablesType'
    <2>1. cr3' \in [Slots -> BOOLEAN] /\ task_map' \in [Ids -> 0..MaxId]
        BY <1>4, <1>6, SchedAssumption DEF TablesType
    <2>2. freed' \subseteq Cells
        BY <1>2, <1>4, <1>6 DEF TablesType
    <2>3. queue[queue_size] \in (0..MaxId) \X (0..MaxId)
        BY <1>4, <1>11 DEF TablesType
    <2>4. queue' \in [1..QueueLength -> (0..MaxId) \X (0..MaxId)]
        BY <1>4, <1>7, <2>3 DEF TablesType
    <2>5. queue_size' \in 0..QueueLength
        BY <1>7, <1>11
    <2>6. QED
        BY <1>4, <1>6, <1>8, <2>1, <2>2, <2>4, <2>5 DEF TablesType
\* Which entry each one has become.
<1>14. \A i \in 1..queue_size' :
          \E j \in 1..queue_size : /\ queue'[i] = queue[j] /\ j # qi
                                   /\ j = IF i = qi THEN queue_size ELSE i
    BY <1>11, <1>12
<1>15. Entries'
    <2>1. ASSUME NEW i \in 1..queue_size'
          PROVE  queue'[i][1] \in Live' /\ queue'[i][2] = task_map'[queue'[i][1]]
        <3>1. PICK j \in 1..queue_size : queue'[i] = queue[j] /\ j # qi
            BY <1>14
        <3>2. /\ queue[j][1] \in Live /\ queue[j][2] = task_map[queue[j][1]]
              /\ queue[j][1] # Self
            BY <1>2, <1>4, <1>12, <3>1 DEF Entries
        <3>3. QED
            BY <1>9, <1>10, <3>1, <3>2 DEF Live
    <2>2. ASSUME NEW t \in Live'
          PROVE  \E i \in 1..queue_size' : queue'[i][1] = t
        <3>1. PICK j \in 1..queue_size : queue[j][1] = t
            BY <1>4, <1>10 DEF Entries
        <3>2. j # qi
            BY <1>10, <1>12, <3>1
        <3>3. CASE j = queue_size
            <4>1. qi \in 1..queue_size' /\ queue'[qi][1] = t
                BY <1>2, <1>11, <1>12, <3>1, <3>2, <3>3
            <4>2. QED
                BY <4>1
        <3>4. CASE j # queue_size
            <4>1. j \in 1..queue_size' /\ j \in 1..QueueLength /\ queue'[j][1] = t
                BY <1>11, <1>12, <3>1, <3>2, <3>4
            <4>2. QED
                BY <4>1
        <3>5. QED
            BY <3>3, <3>4
    <2>3. ASSUME NEW i \in 1..queue_size', NEW j \in 1..queue_size', queue'[i][1] = queue'[j][1]
          PROVE  i = j
        <3>1. PICK k \in 1..queue_size : /\ queue'[i] = queue[k]
                                         /\ k = IF i = qi THEN queue_size ELSE i
            BY <1>14
        <3>2. PICK l \in 1..queue_size : /\ queue'[j] = queue[l]
                                         /\ l = IF j = qi THEN queue_size ELSE j
            BY <1>14
        <3>3. k = l
            BY <1>4, <2>3, <3>1, <3>2 DEF Entries
        <3>4. QED
            BY <1>11, <3>1, <3>2, <3>3
    <2>4. IsFiniteSet(Live') /\ Cardinality(Live') = queue_size'
        <3>1. IsFiniteSet(Live) /\ Cardinality(Live) = queue_size
            BY <1>4 DEF Entries
        <3>2. QED
            BY <1>2, <1>7, <1>10, <3>1, FS_RemoveElement
    <2>5. QED
        BY <2>1, <2>2, <2>3, <2>4 DEF Entries
<1>16. Infos'
    <2>1. ASSUME NEW t \in Live'
          PROVE  /\ t < next_id /\ task_map'[t] \in Cells
                 /\ info[task_map'[t]] = t /\ task_map'[t] \notin freed'
        <3>1. /\ t \in Live /\ t \in Ids /\ t # Self /\ task_map'[t] = task_map[t]
            BY <1>9, <1>10 DEF Live
        <3>2. /\ t < next_id /\ task_map[t] \in Cells
              /\ info[task_map[t]] = t /\ task_map[t] \notin freed
            BY <1>4, <3>1 DEF Infos
        <3>3. task_map[t] # SelfCell
            BY <1>2, <1>5, <3>1, <3>2
        <3>4. QED
            BY <1>6, <3>1, <3>2, <3>3
    <2>2. QED
        BY <1>4, <1>6, <2>1 DEF Infos
<1>17. Owners'
    <2>1. ASSUME NEW s \in Slots, owner[s] # 0, cr3'[s]
          PROVE  owner[s] \in Live'
        <3>1. cr3[s] /\ s # slotOf[Self]
            BY <1>4, <1>6, <2>1 DEF TablesType
        <3>2. owner[s] \in Live /\ owner[s] # Self
            BY <1>4, <2>1, <3>1 DEF Owners
        <3>3. QED
            BY <1>10, <3>2
    <2>2. QED
        BY <1>4, <1>6, <2>1 DEF Owners
<1>18. Requested'
    <2>1. ASSUME NEW t \in Ids \ Live' PROVE sin'[t] = <<>>
        BY <1>4, <1>8, <1>10 DEF Requested
    <2>2. QED
        BY <1>6, <1>8, <2>1 DEF Requested
<1>19. Walk'
    <2>1. qi > queue_size' => Requester' = Self /\ sin'[Self] = <<>>
        <3>1. qi > queue_size' => qi = queue_size
            BY <1>2, <1>7, <1>11
        <3>2. queue[queue_size] = queue[qi] => queue'[qi] = queue[qi]
            BY <1>12
        <3>3. qi = queue_size => queue'[qi'][2] = SelfCell
            BY <1>1, <3>2 DEF SelfCell
        <3>4. qi = queue_size => Requester' = Self
            BY <1>2, <1>5, <1>6, <3>3 DEF Requester, SelfCell
        <3>5. QED
            BY <1>8, <3>1, <3>4
    <2>2. qi <= queue_size' \/ sin'[Requester'] = <<>>
        BY <1>7, <1>11, <2>1
    <2>3. QED
        BY <1>1, <1>7, <1>11, <2>2, TakeWalks
<1>20. QED
    BY <1>13, <1>15, <1>16, <1>17, <1>18, <1>19 DEF Tables

\* Whatever the request, as long as tasks reap only themselves.
LEMMA RequestTables ==
    ASSUME ReapIds = {0}, TablesInv, NEW r \in Request,
           \/ DoSpawn(r) \/ DoSpawnFull(r)
           \/ DoSetState(r)
           \/ DoWait(r) \/ DoWaitReaped(r) \/ DoWaitChanged(r)
           \/ DoWake(r) \/ DoWakeReaped(r) \/ DoWakeLoose(r)
           \/ DoReap(r)
           \/ DoForward(r) \/ DoSetName(r) \/ DoGetNamed(r)
    PROVE  TablesInv'
<1>1. Processing => Tables /\ Walk
    BY DEF TablesInv, Alive, Processing
<1>2. CASE DoSpawnFull(r) \/ DoWaitReaped(r) \/ DoWakeReaped(r) \/ DoWakeLoose(r)
    <2>1. mode' \in {"nullref", "overflow", "corrupt"}
        BY <1>2 DEF DoSpawnFull, DoWaitReaped, DoWakeReaped, DoWakeLoose, Stop
    <2>2. QED
        BY <2>1 DEF TablesInv, Alive
<1>3. CASE DoSpawn(r)
    BY <1>1, <1>3, SpawnStep DEF DoSpawn, Take, TablesInv
<1>4. CASE DoReap(r)
    BY <1>1, <1>4, ReapStep DEF DoReap, Take, TablesInv
<1>5. CASE DoSetState(r) \/ DoWait(r) \/ DoWaitChanged(r) \/ DoWake(r)
          \/ DoForward(r) \/ DoSetName(r) \/ DoGetNamed(r)
    <2>1. PICK type : Take(type, r)
        BY <1>5 DEF DoSetState, DoWait, DoWaitChanged, DoWake, DoForward, DoSetName, DoGetNamed
    <2>2. UNCHANGED <<cr3, tables, mode, qi>>
        BY <1>5 DEF DoSetState, DoWait, DoWaitChanged, DoWake, DoForward, DoSetName, DoGetNamed
    <2>3. QED
        BY <1>1, <2>1, <2>2, ServedStep DEF Take, TablesInv
<1>6. QED
    BY <1>2, <1>3, <1>4, <1>5

----------------------------------------------------------------------------
(* The other steps. *)

\* The dispatcher gives the processor to a slot.
LEMMA TransferTables ==
    ASSUME TablesInv, Alive, NEW s, Transfer(s), UNCHANGED <<cr3, tables, sin>>
    PROVE  TablesInv'
<1>1. Tables /\ queue_size \in Nat /\ QueueLength \in Nat /\ QueueLength >= 1
    BY SchedAssumption DEF TablesInv, Tables, TablesType
<1>2. Tables' /\ cr3' = cr3 /\ queue_size' = queue_size /\ queue' = queue
    BY <1>1, TablesKept DEF tables
<1>3. /\ cur' = s /\ qi' = 1
      /\ mode' = IF s = 0 \/ ~cr3[s] THEN "reset" ELSE IF s = 1 THEN Pass(1) ELSE "user"
    BY DEF Transfer
<1>4. mode' = "serve" => 1 <= queue_size
    BY <1>3 DEF Pass
<1>5. mode' = "listen" => ~ (1 <= queue_size)
    BY <1>3 DEF Pass
<1>6. mode' # "process" /\ (mode' = "user" => cr3'[cur'])
    BY <1>2, <1>3 DEF Pass
<1>7. Walk'
    BY <1>1, <1>2, <1>3, <1>4, <1>5, <1>6 DEF Walk, Processing
<1>8. QED
    BY <1>2, <1>7 DEF TablesInv

\* process() finds no request, and listen() walks on.
LEMMA KernelTables ==
    ASSUME TablesInv, ReadFreed \/ ProcessDone \/ ListenNext \/ ListenAgain \/ ListenYield
    PROVE  TablesInv'
<1>1. CASE ReadFreed
    BY <1>1 DEF ReadFreed, Stop, TablesInv, Alive
<1>2. CASE ProcessDone
    <2>1. Alive /\ UNCHANGED <<cr3, tables, sin>> /\ \E s : Transfer(s)
        BY <1>2 DEF ProcessDone, AfterProcess, memory, Alive
    <2>2. QED
        BY <2>1, TransferTables
<1>3. CASE ListenNext
    <2>1. Tables /\ Walk /\ UNCHANGED <<cr3, tables, sin, any>> /\ mode = "serve"
        BY <1>3 DEF ListenNext, memory, TablesInv, Alive
    <2>2. Tables' /\ queue_size' = queue_size /\ queue' = queue /\ sin' = sin /\ any' = any
        BY <2>1, TablesKept DEF tables
    <2>3. /\ sin[Requester] = <<>>
          /\ mode' = IF qi + 1 <= queue_size THEN "serve" ELSE "listen"
          /\ qi' = IF mode' = "serve" THEN qi + 1 ELSE 1
        BY <1>3 DEF ListenNext, Pass
    <2>4. /\ queue_size \in Nat /\ queue_size <= QueueLength /\ QueueLength \in Nat
          /\ QueueLength >= 1 /\ qi \in 1..QueueLength /\ qi \in Nat
        BY <2>1, SchedAssumption DEF Tables, TablesType, Walk
    <2>5. qi \in 1..queue_size => sin[queue[qi][1]] = <<>>
        <3>1. qi \in 1..queue_size => info[queue[qi][2]] = queue[qi][1]
            BY <2>1 DEF Tables, Entries, Infos
        <3>2. QED
            BY <2>3, <3>1 DEF Requester, SelfCell
    <2>6. ASSUME ~ any', NEW i \in 1..queue_size,
                 mode' = "listen" \/ (mode' = "serve" /\ i < qi')
          PROVE  sin[queue[i][1]] = <<>>
        <3>1. i < qi => sin[queue[i][1]] = <<>>
            BY <2>1, <2>2, <2>6 DEF Walk
        <3>2. i < qi \/ i = qi
            BY <2>3, <2>4, <2>6
        <3>3. QED
            BY <2>5, <3>1, <3>2
    <2>7. qi' \in 1..QueueLength /\ (mode' = "serve" => qi' <= queue_size)
        BY <2>3, <2>4
    <2>8. Walk'
        <3>1. mode' \in {"serve", "listen"} /\ (mode' = "listen" => qi' = 1)
            BY <2>3
        <3>2. Processing' /\ qi' > queue_size' => sin'[Requester'] = <<>>
            BY <2>2, <2>4, <2>7, <3>1 DEF Processing
        <3>3. QED
            BY <2>2, <2>6, <2>7, <3>1, <3>2 DEF Walk
    <2>9. QED
        BY <2>2, <2>8 DEF TablesInv
<1>4. CASE ListenAgain
    <2>1. Tables /\ Walk /\ UNCHANGED <<cr3, tables, sin, qi>> /\ mode = "listen"
        BY <1>4 DEF ListenAgain, memory, TablesInv, Alive
    <2>2. /\ Tables' /\ queue_size' = queue_size /\ qi' = 1 /\ queue_size \in Nat
          /\ QueueLength \in Nat /\ QueueLength >= 1
        <3>1. Tables'
            BY <2>1, TablesKept
        <3>2. qi' = 1 /\ queue_size' = queue_size
            BY <2>1 DEF Walk, tables
        <3>3. queue_size \in Nat
            BY <2>1, SchedAssumption DEF Tables, TablesType
        <3>4. QED
            BY <3>1, <3>2, <3>3, SchedAssumption
    <2>3. mode' = IF 1 <= queue_size THEN "serve" ELSE "listen"
        BY <1>4 DEF ListenAgain, Pass
    <2>4. Walk'
        BY <2>2, <2>3 DEF Walk, Processing
    <2>5. QED
        BY <2>2, <2>4 DEF TablesInv
<1>5. CASE ListenYield
    <2>1. Alive /\ UNCHANGED <<cr3, tables, sin>> /\ \E s : Transfer(s)
        BY <1>5 DEF ListenYield, YieldFrom, memory, Alive
    <2>2. QED
        BY <2>1, TransferTables
<1>6. QED
    BY <1>1, <1>2, <1>3, <1>4, <1>5

\* A task that runs exists, and makes one request more.
LEMMA UserRequestTables ==
    ASSUME ReapIds = {0}, DispatchInv, TablesInv,
           NEW t \in Ids, NEW r \in Request, UserRequest(t, r)
    PROVE  TablesInv'
<1>1. Tables /\ Walk /\ mode = "user" /\ owner[cur] = t /\ cur \in Slots /\ cr3[cur]
    BY DEF UserRequest, User, TablesInv, Alive, Walk, DispatchInv, Running
<1>2. t \in Live
    BY <1>1 DEF Tables, Owners, Ids
<1>3. /\ UNCHANGED <<cr3, tables, mode, cur, qi, any>>
      /\ sin' = [sin EXCEPT ![t] = Append(sin[t], r)]
      /\ Len(sin[t]) < SinLength
      /\ \A i \in 1..Len(sin[t]) : sin[t][i].type = "reap" => sin[t][i].task_id # 0
      /\ r.type = "spawn" => next_id + Pending("spawn") <= MaxId
    BY DEF UserRequest
<1>4. UNCHANGED <<owner, slotOf, info, freed, task_map, queue, queue_size, next_id>> /\ Live' = Live
    BY <1>3 DEF tables, Live
<1>5. /\ sin \in Channels /\ \A u \in Ids : Len(sin[u]) <= SinLength
      /\ \A u \in Ids : \A i \in 1..Len(sin[u]) - 1 : sin[u][i].type # "reap"
      /\ next_id \in Nat /\ next_id + Cardinality(Spots(sin)) <= MaxId + 1
      /\ MaxId \in Nat /\ SinLength \in Nat
    <2>1. TablesType /\ Requested /\ MaxId \in Nat /\ SinLength \in Nat
        BY <1>1, SchedAssumption DEF Tables
    <2>2. next_id \in Nat
        BY <2>1 DEF TablesType
    <2>3. QED
        BY <2>1, <2>2 DEF TablesType, Requested
<1> DEFINE q == sin[t]
           n == Len(q)
<1>6. /\ q \in Seq(Request) /\ n \in Nat /\ Append(q, r) \in Seq(Request)
      /\ Len(Append(q, r)) = n + 1 /\ \A i \in 1..n : Append(q, r)[i] = q[i]
    BY <1>5 DEF Channels
<1>7. sin'[t] = Append(q, r) /\ \A u \in Ids : u # t => sin'[u] = sin[u]
    BY <1>3, <1>5 DEF Channels
<1>8. sin' \in Channels
    BY <1>3, <1>5, <1>6 DEF Channels
<1>9. \A i \in 1..n : q[i].type # "reap"
    <2>1. \A x \in Request : x.type = "reap" => x.task_id = 0
        BY DEF Request, Spawn, SetState, Wait, Wake, Reap, Forward, SetName, GetNamed
    <2>2. \A i \in 1..n : q[i] \in Request
        BY <1>6
    <2>3. QED
        BY <1>3, <2>1, <2>2
<1>10. ASSUME NEW u \in Ids PROVE Len(sin'[u]) <= SinLength
    <2>1. n < SinLength
        BY <1>3
    <2>2. u # t => Len(sin'[u]) <= SinLength
        BY <1>5, <1>7
    <2> HIDE DEF n, q
    <2>3. Len(Append(q, r)) <= SinLength
        BY <1>5, <1>6, <2>1
    <2>4. QED
        BY <1>7, <2>2, <2>3
<1>11. ASSUME NEW u \in Ids, NEW i \in 1..Len(sin'[u]) - 1
       PROVE  sin'[u][i].type # "reap"
    <2>1. CASE u = t
        <3>1. i \in 1..Len(Append(q, r)) - 1 /\ sin'[u][i] = Append(q, r)[i]
            BY <1>7, <2>1
        <3> HIDE DEF n, q
        <3>2. i \in 1..n
            BY <1>6, <3>1
        <3>3. QED
            BY <1>6, <1>9, <3>1, <3>2
    <2>2. CASE u # t
        BY <1>5, <1>7, <2>2
    <2>3. QED
        BY <2>1, <2>2
<1>12. next_id + Cardinality(Spots(sin')) <= MaxId + 1
    <2>1. Cardinality(Spots(sin')) <= IF r.type = "spawn" THEN Cardinality(Spots(sin)) + 1
                                      ELSE Cardinality(Spots(sin))
        BY <1>3, <1>5, SpotsPut
    <2>2. r.type = "spawn" => next_id + Cardinality(Spots(sin)) <= MaxId
        BY <1>3 DEF Pending, Spots
    <2>3. Cardinality(Spots(sin)) \in Nat /\ Cardinality(Spots(sin')) \in Nat
        BY SpotsFinite
    <2> DEFINE a == Cardinality(Spots(sin))
               b == Cardinality(Spots(sin'))
    <2> HIDE DEF a, b
    <2>4. /\ b <= IF r.type = "spawn" THEN a + 1 ELSE a
          /\ r.type = "spawn" => next_id + a <= MaxId
          /\ next_id + a <= MaxId + 1 /\ a \in Nat /\ b \in Nat
        BY <1>5, <2>1, <2>2, <2>3 DEF a, b
    <2>5. next_id + b <= MaxId + 1
        BY <1>5, <2>4
    <2>6. QED
        BY <2>5 DEF b
<1> HIDE DEF n, q
<1>13. TablesType'
    BY <1>1, <1>3, <1>4, <1>8, <1>10 DEF Tables, TablesType
<1>14. Entries' /\ Infos' /\ Owners'
    BY <1>1, <1>3, <1>4 DEF Tables, Entries, Infos, Owners
<1>15. Requested'
    <2>1. ASSUME NEW u \in Ids \ Live' PROVE sin'[u] = <<>>
        BY <1>1, <1>2, <1>4, <1>7 DEF Tables, Requested
    <2>2. QED
        BY <1>4, <1>11, <1>12, <2>1 DEF Requested
<1>16. Walk'
    BY <1>1, <1>3, <1>4 DEF Walk, Processing
<1>17. QED
    BY <1>13, <1>14, <1>15, <1>16 DEF TablesInv, Tables

\* A user task's step.
LEMMA TaskTables ==
    ASSUME ReapIds = {0}, DispatchInv, TablesInv, UserStep
    PROVE  TablesInv'
<1>1. PICK t \in Ids :
          \/ \E r \in Request : UserRequest(t, r)
          \/ UserReply(t) \/ UserMessage(t)
          \/ \E a \in Addrs, w \in Words : UserStore(t, a, w)
          \/ UserProcess(t) \/ UserYield(t)
    BY DEF UserStep
<1>2. CASE \E r \in Request : UserRequest(t, r)
    BY <1>2, UserRequestTables
<1>3. CASE \/ UserReply(t) \/ UserMessage(t)
           \/ \E a \in Addrs, w \in Words : UserStore(t, a, w)
    <2>1. mode = "user" /\ UNCHANGED <<cr3, tables, sin, mode, cur, qi, any>>
        BY <1>3 DEF UserReply, UserMessage, UserStore, User
    <2>2. Tables /\ Walk
        BY <2>1 DEF TablesInv, Alive
    <2>3. Tables' /\ Walk'
        BY <2>1, <2>2, TablesKept DEF Walk, Processing
    <2>4. QED
        BY <2>3 DEF TablesInv
<1>4. CASE UserProcess(t)
    <2>1. /\ mode = "user" /\ mode' = "process" /\ qi' \in 1..queue_size
          /\ UNCHANGED <<cr3, tables, sin, any>>
        BY <1>4 DEF UserProcess, User, memory
    <2>2. Tables /\ Walk
        BY <2>1 DEF TablesInv, Alive
    <2>3. Tables' /\ queue_size' = queue_size
        BY <2>1, <2>2, TablesKept DEF tables
    <2>4. queue_size \in Nat /\ queue_size <= QueueLength /\ QueueLength \in Nat
        BY <2>2, SchedAssumption DEF Tables, TablesType
    <2>5. qi' \in 1..QueueLength /\ ~ (qi' > queue_size')
        BY <2>1, <2>3, <2>4
    <2>6. Walk'
        BY <2>1, <2>5 DEF Walk
    <2>7. QED
        BY <2>3, <2>6 DEF TablesInv
<1>5. CASE UserYield(t)
    <2>1. Alive /\ UNCHANGED <<cr3, tables, sin>> /\ \E s : Transfer(s)
        BY <1>5 DEF UserYield, YieldFrom, User, memory, Alive
    <2>2. QED
        BY <2>1, TransferTables
<1>6. QED
    BY <1>1, <1>2, <1>3, <1>4, <1>5

\* Every step keeps the invariant of the tables.
LEMMA TablesStep ==
    ASSUME ReapIds = {0}
    PROVE  DispatchInv /\ TablesInv /\ [Next]_vars => TablesInv'
<1> SUFFICES ASSUME DispatchInv, TablesInv, [Next]_vars
             PROVE  TablesInv'
    OBVIOUS
<1>1. CASE DoRequest
    BY <1>1, RequestTables DEF DoRequest
<1>2. CASE ReadFreed \/ ProcessDone \/ ListenNext \/ ListenAgain \/ ListenYield
    BY <1>2, KernelTables
<1>3. CASE UserStep
    BY <1>3, TaskTables
<1>4. CASE Stopped \/ UNCHANGED vars
    <2>1. UNCHANGED <<cr3, tables, sin, mode, cur, qi, any>>
        BY <1>4 DEF Stopped, vars, tables
    <2>2. Alive' => Tables' /\ Walk'
        BY <2>1, TablesKept DEF TablesInv, Alive, Walk, Processing, Requester, SelfCell, tables
    <2>3. QED
        BY <2>2 DEF TablesInv
<1>5. QED
    BY <1>1, <1>2, <1>3, <1>4 DEF Next, Kernel

----------------------------------------------------------------------------
(* Statuses. *)

\* Every status in sout is an answer to the task that reads it.
Replies == sout \in [Ids -> Seq(Ids)] /\ RepliesReachRequester

\* A status that goes where the request came from.
LEMMA ReplyHome ==
    ASSUME Replies, NEW t \in Ids, Requester = t, Reply(t)
    PROVE  Replies'
<1>1. CASE Len(sout[t]) < SoutLength
    <2>1. sout' = [sout EXCEPT ![t] = Append(sout[t], t)]
        BY <1>1 DEF Reply
    <2>2. /\ sout[t] \in Seq(Ids) /\ Len(sout[t]) \in Nat
          /\ Append(sout[t], t) \in Seq(Ids) /\ Len(Append(sout[t], t)) = Len(sout[t]) + 1
          /\ \A i \in 1..Len(sout[t]) : Append(sout[t], t)[i] = sout[t][i]
          /\ Append(sout[t], t)[Len(sout[t]) + 1] = t
        BY DEF Replies
    <2>3. sout' \in [Ids -> Seq(Ids)]
        BY <2>1, <2>2 DEF Replies
    <2>4. /\ sout'[t] = Append(sout[t], t)
          /\ \A u \in Ids : u # t => sout'[u] = sout[u]
        BY <2>1 DEF Replies
    <2> DEFINE q == sout[t]
               n == Len(q)
    <2>5. ASSUME NEW i \in 1..Len(Append(q, t)) PROVE Append(q, t)[i] = t
        <3>1. /\ n \in Nat /\ Len(Append(q, t)) = n + 1 /\ Append(q, t)[n + 1] = t
              /\ \A j \in 1..n : Append(q, t)[j] = t
            BY <2>2 DEF Replies, RepliesReachRequester
        <3> HIDE DEF n, q
        <3>2. i \in 1..n \/ i = n + 1
            BY <3>1
        <3>3. QED
            BY <3>1, <3>2
    <2>6. RepliesReachRequester'
        BY <2>4, <2>5 DEF Replies, RepliesReachRequester
    <2>7. QED
        BY <2>3, <2>6 DEF Replies
<1>2. CASE ~ (Len(sout[t]) < SoutLength)
    BY <1>2 DEF Reply, Replies, RepliesReachRequester
<1>3. QED
    BY <1>1, <1>2

\* Serving a request leaves every status with its requester.
LEMMA RequestReplies ==
    ASSUME ReapIds = {0}, TablesInv, Replies, NEW r \in Request,
           \/ DoSpawn(r) \/ DoSpawnFull(r)
           \/ DoSetState(r)
           \/ DoWait(r) \/ DoWaitReaped(r) \/ DoWaitChanged(r)
           \/ DoWake(r) \/ DoWakeReaped(r) \/ DoWakeLoose(r)
           \/ DoReap(r)
           \/ DoForward(r) \/ DoSetName(r) \/ DoGetNamed(r)
    PROVE  Replies'
<1>1. PICK type : Take(type, r)
    BY DEF DoSpawn, DoSpawnFull, DoSetState, DoWait, DoWaitReaped, DoWaitChanged, DoWake,
           DoWakeReaped, DoWakeLoose, DoReap, DoForward, DoSetName, DoGetNamed
<1>2. Tables /\ Walk
    BY <1>1 DEF Take, Processing, TablesInv, Alive
<1>3. /\ qi \in 1..queue_size /\ Requester = Self /\ Self \in Live /\ Self \in Ids
      /\ SelfCell = task_map[Self] /\ SelfCell \in Cells
    BY <1>1, <1>2, RequesterIsSelf DEF Take
<1>4. sout' = sout => Replies'
    BY DEF Replies, RepliesReachRequester
<1>5. Reply(Requester) => Replies'
    BY <1>3, ReplyHome
<1>6. CASE DoSpawnFull(r) \/ DoWaitReaped(r) \/ DoWakeReaped(r) \/ DoWakeLoose(r)
    BY <1>4, <1>6 DEF DoSpawnFull, DoWaitReaped, DoWakeReaped, DoWakeLoose, Stop
<1>7. CASE DoSetState(r) \/ DoWait(r) \/ DoWaitChanged(r) \/ DoWake(r)
          \/ DoForward(r) \/ DoSetName(r) \/ DoGetNamed(r)
    BY <1>5, <1>7 DEF DoSetState, DoWait, DoWaitChanged, DoWake, DoForward, DoSetName, DoGetNamed
<1>8. CASE DoReap(r)
    <2>1. r.task_id = 0
        BY <1>8 DEF DoReap, Take, Request, Spawn, SetState, Wait, Wake, Reap, Forward,
                    SetName, GetNamed
    <2>2. QED
        BY <1>4, <1>8, <2>1 DEF DoReap
\* process() reads its own entry again, which the new task has not touched.
<1>9. CASE DoSpawn(r)
    <2>1. PICK c \in FreshCells :
              /\ info' = [info EXCEPT ![c] = next_id]
              /\ queue' = [queue EXCEPT ![queue_size + 1] = <<next_id, c>>]
        BY <1>9 DEF DoSpawn
    <2>2. Reply(info'[queue'[qi][2]])
        BY <1>9 DEF DoSpawn
    <2>3. queue'[qi] = queue[qi]
        BY <1>2, <1>3, <2>1 DEF Tables, TablesType
    <2>4. c # SelfCell
        <3>1. SelfCell \notin freed /\ info[SelfCell] # 0
            BY <1>2, <1>3 DEF Tables, Infos, Live, Ids
        <3>2. QED
            BY <3>1 DEF FreshCells
    <2>5. info'[queue'[qi][2]] = Requester
        BY <1>2, <1>3, <2>1, <2>3, <2>4 DEF Tables, TablesType, Requester, SelfCell
    <2>6. QED
        BY <1>5, <2>2, <2>5
<1>10. QED
    BY <1>6, <1>7, <1>8, <1>9

\* So does every step.
LEMMA RepliesStep ==
    ASSUME ReapIds = {0}
    PROVE  TablesInv /\ Replies /\ [Next]_vars => Replies'
<1> SUFFICES ASSUME TablesInv, Replies, [Next]_vars
             PROVE  Replies'
    OBVIOUS
<1>1. sout' = sout => Replies'
    BY DEF Replies, RepliesReachRequester
<1>2. CASE DoRequest
    BY <1>2, RequestReplies DEF DoRequest
<1>3. CASE ReadFreed \/ ProcessDone \/ ListenNext \/ ListenAgain \/ ListenYield
    BY <1>1, <1>3 DEF ReadFreed, Stop, ProcessDone, ListenNext, ListenAgain, ListenYield, memory
<1>4. CASE UserStep
    <2>1. PICK t \in Ids :
              \/ \E r \in Request : UserRequest(t, r)
              \/ UserReply(t) \/ UserMessage(t)
              \/ \E a \in Addrs, w \in Words : UserStore(t, a, w)
              \/ UserProcess(t) \/ UserYield(t)
        BY <1>4 DEF UserStep
    <2>2. CASE \/ \E r \in Request : UserRequest(t, r)
               \/ UserMessage(t)
               \/ \E a \in Addrs, w \in Words : UserStore(t, a, w)
               \/ UserProcess(t) \/ UserYield(t)
        BY <1>1, <2>2 DEF UserRequest, UserMessage, UserStore, UserProcess, UserYield, memory
    <2>3. CASE UserReply(t)
        <3>1. sout[t] # <<>> /\ sout' = [sout EXCEPT ![t] = Tail(sout[t])]
            BY <2>3 DEF UserReply
        <3>2. /\ sout[t] \in Seq(Ids) /\ Tail(sout[t]) \in Seq(Ids) /\ Len(sout[t]) \in Nat
              /\ Len(Tail(sout[t])) = Len(sout[t]) - 1
              /\ \A i \in 1..Len(sout[t]) - 1 : Tail(sout[t])[i] = sout[t][i + 1]
            BY <3>1 DEF Replies
        <3>3. /\ sout' \in [Ids -> Seq(Ids)] /\ sout'[t] = Tail(sout[t])
              /\ \A u \in Ids : u # t => sout'[u] = sout[u]
            BY <3>1, <3>2 DEF Replies
        <3> DEFINE q == sout[t]
                   n == Len(q)
        <3>4. ASSUME NEW i \in 1..Len(Tail(q)) PROVE Tail(q)[i] = t
            <4>1. /\ n \in Nat /\ Len(Tail(q)) = n - 1 /\ \A j \in 1..n : q[j] = t
                  /\ \A j \in 1..n - 1 : Tail(q)[j] = q[j + 1]
                BY <3>2 DEF Replies, RepliesReachRequester
            <4> HIDE DEF n, q
            <4>2. i \in 1..n - 1 /\ i + 1 \in 1..n
                BY <4>1
            <4>3. QED
                BY <4>1, <4>2
        <3>5. RepliesReachRequester'
            BY <3>3, <3>4 DEF Replies, RepliesReachRequester
        <3>6. QED
            BY <3>3, <3>5 DEF Replies
    <2>4. QED
        BY <2>1, <2>2, <2>3
<1>5. CASE Stopped \/ UNCHANGED vars
    BY <1>1, <1>5 DEF Stopped, vars
<1>6. QED
    BY <1>2, <1>3, <1>4, <1>5 DEF Next, Kernel

----------------------------------------------------------------------------
(* Types, also of the states in which the scheduler has failed. *)

\* The processor, the lists of waiting tasks and the names.
ListsType ==
    /\ state \in [Slots -> SUBSET Bits]
    /\ head \in [Addrs -> 0..MaxWaits]
    /\ node \in [Nodes -> [task_id : 0..MaxId, next : 0..MaxWaits]]
    /\ loose \subseteq Nodes
    /\ word \in [Addrs -> Words]
    /\ named \in [Names -> 0..MaxId]
    /\ mode \in {"listen", "serve", "process", "user", "reset", "nullref", "overflow", "corrupt"}
    /\ cur \in 0..NumSlots
    /\ any \in BOOLEAN

\* What comm_write puts in the channels of tasks fits there.
BoxesType ==
    /\ gin \in [Ids -> Seq(Ids)]
    /\ \A t \in Ids : Len(gin[t]) <= GinLength
    /\ \A t \in Ids : Len(sout[t]) <= SoutLength

Typed == TablesType /\ qi \in 1..QueueLength /\ ListsType /\ BoxesType

\* The initial states are typed.
LEMMA TypedInit == Init => Typed
<1> SUFFICES ASSUME Init PROVE Typed
    OBVIOUS
<1>1. /\ NumSlots \in Nat /\ NumSlots >= 2 /\ Slots = 1..NumSlots
      /\ MaxId \in Nat /\ MaxId >= 1 /\ Ids = 1..MaxId /\ Cells = 1..MaxId
      /\ QueueLength \in Nat /\ QueueLength >= 1
      /\ SinLength \in Nat /\ SoutLength \in Nat /\ GinLength \in Nat
      /\ MaxWaits \in Nat
    BY SchedAssumption DEF Slots, Ids, Cells
<1>2. TablesType /\ qi \in 1..QueueLength
    BY TablesInit DEF TablesInv, Alive, Tables, Walk, Init
<1>3. ListsType
    <2>1. state \in [Slots -> SUBSET Bits] /\ named \in [Names -> 0..MaxId]
        BY <1>1 DEF Init, Bits
    <2>2. head \in [Addrs -> 0..MaxWaits] /\ loose \subseteq Nodes /\ word \in [Addrs -> Words]
        BY <1>1 DEF Init
    <2>3. node \in [Nodes -> [task_id : 0..MaxId, next : 0..MaxWaits]]
        BY <1>1 DEF Init
    <2>4. mode = "serve" /\ cur \in 0..NumSlots /\ any \in BOOLEAN
        <3>1. mode = "serve" /\ cur = 1 /\ any = FALSE
            BY Zenon DEF Init
        <3>2. any \in BOOLEAN
            BY <3>1, Zenon
        <3>3. QED
            BY <1>1, <3>1, <3>2
    <2>5. QED
        BY <2>1, <2>2, <2>3, <2>4 DEF ListsType
<1>4. BoxesType
    BY <1>1 DEF Init, BoxesType
<1>5. QED
    BY <1>2, <1>3, <1>4 DEF Typed

\* synch_wake meets only nodes of the list, or its end.
LEMMA MetType ==
    ASSUME ListsType, NEW r \in Wake
    PROVE  \A i \in 0..r.count : Met(r)[i] \in 0..MaxWaits
<1> DEFINE N == r.count
           V == 0..MaxWaits
           first == head[r.address]
           G == [i \in 1..N |-> [v \in V |-> IF v = 0 THEN 0 ELSE node[v].next]]
           w == Met(r)
<1>1. N \in Nat /\ r.address \in Addrs /\ first \in V /\ MaxWaits \in Nat
    BY SchedAssumption DEF Wake, ListsType
<1>2. ASSUME NEW v \in V PROVE (IF v = 0 THEN 0 ELSE node[v].next) \in V
    <2>1. v = 0 \/ v \in Nodes
        BY <1>1 DEF Nodes
    <2>2. QED
        BY <1>1, <2>1 DEF ListsType
<1>3. PICK f : Solves(f, N, V, first, G)
    <2>1. G \in [1..N -> [V -> V]]
        BY <1>2
    <2> HIDE DEF N, V, first, G
    <2>2. QED
        BY <1>1, <2>1, Recursion
<1>4. f = [i \in 0..N |-> IF i = 0 THEN first
                          ELSE IF f[i - 1] = 0 THEN 0 ELSE node[f[i - 1]].next]
    <2>1. f \in [0..N -> V] /\ f[0] = first /\ \A i \in 1..N : f[i] = G[i][f[i - 1]]
        BY <1>3 DEF Solves
    <2>2. ASSUME NEW i \in 1..N
          PROVE  f[i] = IF f[i - 1] = 0 THEN 0 ELSE node[f[i - 1]].next
        <3>1. f[i - 1] \in V
            BY <1>1, <2>1
        <3>2. QED
            BY <2>1, <3>1
    <2> HIDE DEF V, G, first
    <2>3. QED
        BY <1>1, <2>1, <2>2
<1>5. w = [i \in 0..N |-> IF i = 0 THEN first
                          ELSE IF w[i - 1] = 0 THEN 0 ELSE node[w[i - 1]].next]
    BY <1>4 DEF Met
<1> DEFINE S == {i \in 0..N : w[i] \in V}
<1> HIDE DEF w
<1>6. 0 \in S
    BY <1>1, <1>5
<1>7. ASSUME NEW i \in 0..N - 1, i \in S PROVE i + 1 \in S
    <2>1. i + 1 \in 0..N /\ i + 1 # 0 /\ (i + 1) - 1 = i /\ w[i] \in V
        BY <1>1, <1>7
    <2>2. w[i + 1] = IF w[i] = 0 THEN 0 ELSE node[w[i]].next
        <3> HIDE DEF first, V
        <3>1. QED
            BY <1>5, <2>1
    <2>3. QED
        BY <1>2, <2>1, <2>2
<1>8. 0..N \subseteq S
    <2> HIDE DEF S, N
    <2>1. \A i \in 0..N - 1 : i \in S => i + 1 \in S
        BY <1>7
    <2>2. QED
        BY <1>1, <1>6, <2>1, IntervalInduction
<1>9. QED
    BY <1>8 DEF w

\* The tables, whether the scheduler goes on or fails.
LEMMA TablesTyped ==
    ASSUME TablesInv, TablesInv', TablesType, qi \in 1..QueueLength, [Next]_vars
    PROVE  TablesType' /\ qi' \in 1..QueueLength
<1>1. CASE Alive'
    BY <1>1 DEF TablesInv, Tables, Walk
<1>2. CASE UNCHANGED <<cr3, tables, sin, qi>>
    BY <1>2 DEF tables, TablesType
<1>3. ASSUME NEW type, NEW r, Take(type, r), NEW how, Stop(how)
      PROVE  TablesType' /\ qi' \in 1..QueueLength
    <2>1. Tables /\ Walk
        BY <1>3 DEF Take, Processing, TablesInv, Alive
    <2>2. sin' \in Channels /\ \A t \in Ids : Len(sin'[t]) <= SinLength
        BY <1>3, <2>1, TakeRequested
    <2>3. QED
        BY <1>3, <2>2 DEF Stop, tables, TablesType
<1>4. ASSUME NEW s, Transfer(s), UNCHANGED <<cr3, tables, sin>>
      PROVE  TablesType' /\ qi' \in 1..QueueLength
    <2>1. qi' \in 1..QueueLength
        BY <1>4, SchedAssumption DEF Transfer
    <2>2. QED
        BY <1>4, <2>1 DEF tables, TablesType
<1>5. CASE DoRequest
    <2>1. PICK r \in Request :
              \/ DoSpawn(r) \/ DoSpawnFull(r)
              \/ DoSetState(r)
              \/ DoWait(r) \/ DoWaitReaped(r) \/ DoWaitChanged(r)
              \/ DoWake(r) \/ DoWakeReaped(r) \/ DoWakeLoose(r)
              \/ DoReap(r)
              \/ DoForward(r) \/ DoSetName(r) \/ DoGetNamed(r)
        BY <1>5 DEF DoRequest
    <2>2. CASE DoSpawnFull(r) \/ DoWaitReaped(r) \/ DoWakeReaped(r) \/ DoWakeLoose(r)
        BY <1>3, <2>2 DEF DoSpawnFull, DoWaitReaped, DoWakeReaped, DoWakeLoose
    <2>3. CASE DoSpawn(r)
        BY <1>1, <2>3 DEF DoSpawn, Take, Processing, Alive
    <2>4. CASE DoSetState(r) \/ DoWait(r) \/ DoWaitChanged(r) \/ DoWake(r)
               \/ DoReap(r) \/ DoForward(r) \/ DoSetName(r) \/ DoGetNamed(r)
        BY <1>1, <2>4 DEF DoSetState, DoWait, DoWaitChanged, DoWake, DoReap, DoForward, DoSetName,
                          DoGetNamed, Take, Processing, Alive
    <2>5. QED
        BY <2>1, <2>2, <2>3, <2>4
<1>6. CASE ReadFreed
    BY <1>2, <1>6 DEF ReadFreed, Stop
<1>7. CASE ProcessDone \/ ListenYield
    <2>1. UNCHANGED <<cr3, tables, sin>> /\ \E s : Transfer(s)
        BY <1>7 DEF ProcessDone, AfterProcess, ListenYield, YieldFrom, memory
    <2>2. QED
        BY <1>4, <2>1
<1>8. CASE ListenNext \/ ListenAgain
    BY <1>1, <1>8 DEF ListenNext, ListenAgain, Pass, Alive
<1>9. CASE UserStep
    <2>1. PICK t \in Ids :
              \/ \E r \in Request : UserRequest(t, r)
              \/ UserReply(t) \/ UserMessage(t)
              \/ \E a \in Addrs, w \in Words : UserStore(t, a, w)
              \/ UserProcess(t) \/ UserYield(t)
        BY <1>9 DEF UserStep
    <2>2. CASE UserYield(t)
        <3>1. UNCHANGED <<cr3, tables, sin>> /\ \E s : Transfer(s)
            BY <2>2 DEF UserYield, YieldFrom, memory
        <3>2. QED
            BY <1>4, <3>1
    <2>3. CASE \/ \E r \in Request : UserRequest(t, r)
               \/ UserReply(t) \/ UserMessage(t)
               \/ \E a \in Addrs, w \in Words : UserStore(t, a, w)
               \/ UserProcess(t)
        BY <1>1, <2>3 DEF UserRequest, UserReply, UserMessage, UserStore, UserProcess, User, Alive
    <2>4. QED
        BY <2>1, <2>2, <2>3
<1>10. CASE Stopped \/ UNCHANGED vars
    BY <1>2, <1>10 DEF Stopped, vars, tables
<1>11. QED
    BY <1>5, <1>6, <1>7, <1>8, <1>9, <1>10 DEF Next, Kernel

\* The processor, the lists and the names, when a request is served.
LEMMA RequestLists ==
    ASSUME TablesInv, ListsType, NEW r \in Request,
           \/ DoSpawn(r) \/ DoSpawnFull(r)
           \/ DoSetState(r)
           \/ DoWait(r) \/ DoWaitReaped(r) \/ DoWaitChanged(r)
           \/ DoWake(r) \/ DoWakeReaped(r) \/ DoWakeLoose(r)
           \/ DoReap(r)
           \/ DoForward(r) \/ DoSetName(r) \/ DoGetNamed(r)
    PROVE  ListsType'
<1>1. PICK type : Take(type, r)
    BY DEF DoSpawn, DoSpawnFull, DoSetState, DoWait, DoWaitReaped, DoWaitChanged, DoWake,
           DoWakeReaped, DoWakeLoose, DoReap, DoForward, DoSetName, DoGetNamed
<1>2. any' \in BOOLEAN
    BY <1>1 DEF Take
<1>3. Self \in Ids /\ Ids = 1..MaxId /\ MaxId \in Nat /\ MaxWaits \in Nat
    BY <1>1, RequesterIsSelf, SchedAssumption DEF Take, Processing, TablesInv, Alive, Ids
<1>4. CASE DoSpawnFull(r) \/ DoWaitReaped(r) \/ DoWakeReaped(r) \/ DoWakeLoose(r)
    <2>1. mode' \in {"nullref", "overflow", "corrupt"}
          /\ UNCHANGED <<state, waiters, word, mail, cur>>
        BY <1>4 DEF DoSpawnFull, DoWaitReaped, DoWakeReaped, DoWakeLoose, Stop
    <2>2. QED
        BY <1>2, <2>1 DEF ListsType, waiters, mail
<1>5. CASE DoSpawn(r) \/ DoWaitChanged(r) \/ DoForward(r) \/ DoGetNamed(r)
    <2>1. UNCHANGED <<state, waiters, word, named, mode, cur>>
        BY <1>5 DEF DoSpawn, DoWaitChanged, DoForward, DoGetNamed, mail
    <2>2. QED
        BY <1>2, <2>1 DEF ListsType, waiters
<1>6. CASE DoSetState(r)
    <2>1. r.value \in SUBSET Bits
        BY <1>6, SchedAssumption DEF DoSetState, Take, Request, Spawn, SetState, Wait, Wake,
                                     Reap, Forward, SetName, GetNamed
    <2>2. state' \in [Slots -> SUBSET Bits]
        BY <1>6, <2>1 DEF DoSetState, ListsType
    <2>3. QED
        BY <1>2, <1>6, <2>2 DEF DoSetState, ListsType, waiters, mail
<1>7. CASE DoWait(r)
    <2>1. PICK n \in Nodes :
              /\ node' = [node EXCEPT ![n] = [task_id |-> Self, next |-> head[r.address]]]
              /\ head' = [head EXCEPT ![r.address] = n]
              /\ loose' = loose \ {n}
        BY <1>7 DEF DoWait
    <2>2. r.address \in Addrs
        BY <1>7 DEF DoWait, Take, Request, Spawn, SetState, Wait, Wake, Reap, Forward, SetName,
                    GetNamed
    <2>3. n \in 0..MaxWaits /\ head[r.address] \in 0..MaxWaits /\ Self \in 0..MaxId
        BY <1>3, <2>2 DEF Nodes, ListsType
    <2>4. node' \in [Nodes -> [task_id : 0..MaxId, next : 0..MaxWaits]]
        <3>1. [task_id |-> Self, next |-> head[r.address]] \in [task_id : 0..MaxId, next : 0..MaxWaits]
            BY <2>3
        <3>2. QED
            BY <2>1, <3>1 DEF ListsType
    <2>5. head' \in [Addrs -> 0..MaxWaits] /\ loose' \subseteq Nodes
        BY <2>1, <2>3 DEF ListsType
    <2>6. state' \in [Slots -> SUBSET Bits]
        BY <1>7 DEF DoWait, ListsType, Bits
    <2>7. QED
        BY <1>2, <1>7, <2>4, <2>5, <2>6 DEF DoWait, ListsType, mail
<1>8. CASE DoWake(r)
    <2>1. r \in Wake
        BY <1>8 DEF DoWake, Take, Request, Spawn, SetState, Wait, Wake, Reap, Forward, SetName,
                    GetNamed
    <2>2. ASSUME NEW i \in Rounds(r) PROVE Met(r)[i + 1] \in 0..MaxWaits
        <3>1. i \in 0..r.count - 1
            BY DEF Rounds
        <3>2. r.count \in Nat
            BY <2>1, SchedAssumption DEF Wake
        <3>3. i + 1 \in 0..r.count
            BY <3>1, <3>2
        <3>4. QED
            BY <2>1, <3>3, MetType
    <2>3. loose' \subseteq Nodes
        <3>1. loose' = loose \cup ({Met(r)[i + 1] : i \in Rounds(r)} \ {0})
            BY <1>8 DEF DoWake
        <3>2. {Met(r)[i + 1] : i \in Rounds(r)} \ {0} \subseteq Nodes
            <4> SUFFICES ASSUME NEW i \in Rounds(r), Met(r)[i + 1] # 0
                         PROVE  Met(r)[i + 1] \in Nodes
                OBVIOUS
            <4> DEFINE m == Met(r)[i + 1]
            <4>1. m \in 0..MaxWaits
                BY <2>2
            <4> HIDE DEF m
            <4>2. m # 0 => m \in Nodes
                BY <1>3, <4>1 DEF Nodes
            <4>3. QED
                BY <4>2 DEF m
        <3>3. QED
            BY <3>1, <3>2 DEF ListsType
    <2>4. state' \in [Slots -> SUBSET Bits]
        <3>1. PICK woken : state' = [s \in Slots |-> IF \E c \in woken : slotOf[info[c]] = s
                                                     THEN state[s] \ {"blocked"} ELSE state[s]]
            BY <1>8 DEF DoWake
        <3>2. QED
            BY <3>1 DEF ListsType
    <2>5. QED
        BY <1>2, <1>8, <2>3, <2>4 DEF DoWake, ListsType, mail
<1>9. CASE DoReap(r)
    <2>1. \/ state' = state
          \/ \E s : state' = [state EXCEPT ![s] = {}]
        BY <1>9 DEF DoReap
    <2>2. state' \in [Slots -> SUBSET Bits]
        BY <2>1 DEF ListsType
    <2>3. QED
        BY <1>2, <1>9, <2>2 DEF DoReap, ListsType, waiters, mail
<1>10. CASE DoSetName(r)
    <2>1. r.task_id \in 0..MaxId
        BY <1>10 DEF DoSetName, Take, Request, Spawn, SetState, Wait, Wake, Reap, Forward, SetName,
                     GetNamed
    <2>2. (IF r.task_id = 0 THEN Self ELSE r.task_id) \in 0..MaxId
        BY <1>3, <2>1
    <2>3. named' = [named EXCEPT ![r.name] = IF r.task_id = 0 THEN Self ELSE r.task_id]
        BY <1>10 DEF DoSetName
    <2>4. named' \in [Names -> 0..MaxId]
        BY <2>2, <2>3 DEF ListsType
    <2>5. QED
        BY <1>2, <1>10, <2>4 DEF DoSetName, ListsType, waiters
<1>11. QED
    BY <1>4, <1>5, <1>6, <1>7, <1>8, <1>9, <1>10

\* The dispatcher and listen() put values of their types in these variables.
LEMMA TransferLists ==
    ASSUME ListsType, NEW s \in 0..NumSlots, Transfer(s), UNCHANGED memory
    PROVE  ListsType'
<1>1. mode' \in {"reset", "user", "serve", "listen"} /\ cur' = s /\ any' = FALSE
    BY DEF Transfer, Pass
<1>2. QED
    BY <1>1 DEF ListsType, memory, waiters, mail

\* Every step leaves slots, words, names and futex lists typed, freed and reused
\* nodes included.
LEMMA ListsTyped ==
    ASSUME DispatchInv, TablesInv, ListsType, [Next]_vars
    PROVE  ListsType'
<1>1. CASE DoRequest
    BY <1>1, RequestLists DEF DoRequest
<1>2. CASE ReadFreed
    BY <1>2 DEF ReadFreed, Stop, ListsType, waiters, mail
<1>3. CASE ListenNext \/ ListenAgain
    <2>1. mode' \in {"serve", "listen"} /\ any' \in BOOLEAN /\ UNCHANGED <<memory, cur>>
        <3>1. any' = any \/ any' = FALSE
            BY <1>3 DEF ListenNext, ListenAgain
        <3>2. any' \in BOOLEAN
            BY <3>1, Zenon DEF ListsType
        <3>3. QED
            BY <1>3, <3>2 DEF ListenNext, ListenAgain, Pass
    <2>2. QED
        BY <2>1 DEF ListsType, memory, waiters, mail
<1>4. ASSUME NEW s, Transfer(s), UNCHANGED memory, cur \in Slots,
             s \in {cur, choose_next(state, cur)}
      PROVE  ListsType'
    <2>1. s \in 0..NumSlots
        <3>1. cur \in 0..NumSlots
            BY <1>4, SchedAssumption DEF Slots
        <3>2. choose_next(state, cur) \in 0..NumSlots
            BY <1>4, NextFound, SchedAssumption DEF IsNext, Runnable, Slots
        <3>3. QED
            BY <1>4, <3>1, <3>2
    <2>2. QED
        BY <1>4, <2>1, TransferLists
<1>5. CASE ProcessDone \/ ListenYield
    <2>1. cur \in Slots /\ (mode = "listen" => cur = 1)
        BY <1>5 DEF ProcessDone, ListenYield, DispatchInv, Running
    <2>2. UNCHANGED memory /\ \E s \in {cur, choose_next(state, cur)} : Transfer(s)
        BY <1>5, <2>1 DEF ProcessDone, AfterProcess, ListenYield, YieldFrom
    <2>3. QED
        BY <1>4, <2>1, <2>2
<1>6. CASE UserStep
    <2>1. PICK t \in Ids :
              \/ \E r \in Request : UserRequest(t, r)
              \/ UserReply(t) \/ UserMessage(t)
              \/ \E a \in Addrs, w \in Words : UserStore(t, a, w)
              \/ UserProcess(t) \/ UserYield(t)
        BY <1>6 DEF UserStep
    <2>2. CASE \/ \E r \in Request : UserRequest(t, r)
               \/ UserReply(t) \/ UserMessage(t)
        BY <2>2 DEF UserRequest, UserReply, UserMessage, ListsType, waiters, mail
    <2>3. CASE \E a \in Addrs, w \in Words : UserStore(t, a, w)
        BY <2>3 DEF UserStore, ListsType, waiters, mail
    <2>4. CASE UserProcess(t)
        BY <2>4 DEF UserProcess, ListsType, memory, waiters, mail
    <2>5. CASE UserYield(t)
        <3>1. cur \in Slots
            BY <2>5 DEF UserYield, User, DispatchInv, Running
        <3>2. UNCHANGED memory /\ \E s \in {cur, choose_next(state, cur)} : Transfer(s)
            BY <2>5 DEF UserYield, YieldFrom
        <3>3. QED
            BY <1>4, <3>1, <3>2
    <2>6. QED
        BY <2>1, <2>2, <2>3, <2>4, <2>5
<1>7. CASE Stopped \/ UNCHANGED vars
    BY <1>7 DEF Stopped, vars, ListsType
<1>8. QED
    BY <1>1, <1>2, <1>3, <1>5, <1>6, <1>7 DEF Next, Kernel

\* comm_write puts a status in a channel only if there is room for it.
LEMMA ReplyFits ==
    ASSUME Replies, \A t \in Ids : Len(sout[t]) <= SoutLength, NEW to, Reply(to)
    PROVE  \A t \in Ids : Len(sout'[t]) <= SoutLength
<1>1. CASE to \in Ids /\ Len(sout[to]) < SoutLength
    <2>1. sout' = [sout EXCEPT ![to] = Append(sout[to], Requester)]
        BY <1>1 DEF Reply
    <2>2. sout[to] \in Seq(Ids) /\ Len(sout[to]) \in Nat /\ SoutLength \in Nat
        BY <1>1, SchedAssumption DEF Replies
    <2>3. Len(Append(sout[to], Requester)) = Len(sout[to]) + 1
        BY <2>2
    <2>4. QED
        BY <1>1, <2>1, <2>2, <2>3 DEF Replies
<1>2. CASE to \notin Ids \/ ~ (Len(sout[to]) < SoutLength)
    BY <1>2 DEF Reply, Replies
<1>3. QED
    BY <1>1, <1>2

\* One element less in a channel.
LEMMA TailFits ==
    ASSUME NEW S, NEW limit \in Nat, NEW q \in Seq(S), q # <<>>, Len(q) <= limit
    PROVE  Tail(q) \in Seq(S) /\ Len(Tail(q)) <= limit
<1>1. Len(q) \in Nat /\ Len(Tail(q)) = Len(q) - 1 /\ Tail(q) \in Seq(S)
    OBVIOUS
<1>2. QED
    BY <1>1

\* Every step leaves gin and sout within their lengths.
LEMMA BoxesTyped ==
    ASSUME ReapIds = {0}, TablesInv, Replies, BoxesType, [Next]_vars
    PROVE  BoxesType'
<1>1. UNCHANGED <<gin, sout>> => BoxesType'
    BY DEF BoxesType
<1>2. ASSUME gin' = gin, NEW to, Reply(to) PROVE BoxesType'
    BY <1>2, ReplyFits DEF BoxesType
<1>3. CASE DoRequest
    <2>1. PICK r \in Request :
              \/ DoSpawn(r) \/ DoSpawnFull(r)
              \/ DoSetState(r)
              \/ DoWait(r) \/ DoWaitReaped(r) \/ DoWaitChanged(r)
              \/ DoWake(r) \/ DoWakeReaped(r) \/ DoWakeLoose(r)
              \/ DoReap(r)
              \/ DoForward(r) \/ DoSetName(r) \/ DoGetNamed(r)
        BY <1>3 DEF DoRequest
    <2>2. CASE DoSpawnFull(r) \/ DoWaitReaped(r) \/ DoWakeReaped(r) \/ DoWakeLoose(r)
        BY <1>1, <2>2 DEF DoSpawnFull, DoWaitReaped, DoWakeReaped, DoWakeLoose, Stop, mail
    <2>3. CASE DoSpawn(r)
        BY <1>2, <2>3 DEF DoSpawn, mail
    <2>4. CASE DoSetState(r) \/ DoWait(r) \/ DoWaitChanged(r) \/ DoWake(r)
               \/ DoSetName(r) \/ DoGetNamed(r)
        BY <1>2, <2>4 DEF DoSetState, DoWait, DoWaitChanged, DoWake, DoSetName, DoGetNamed, mail
    <2>5. CASE DoReap(r)
        <3>1. gin' = gin /\ (sout' = sout \/ \E to : Reply(to))
            BY <2>5 DEF DoReap, mail
        <3>2. QED
            BY <1>1, <1>2, <3>1
    <2>6. CASE DoForward(r)
        <3>1. Self \in Ids
            BY <2>6, RequesterIsSelf DEF DoForward, Take, Processing, TablesInv, Alive
        <3> DEFINE to == info[task_map[r.task_id]]
        <3>2. \/ gin' = gin
              \/ /\ Len(gin[to]) < GinLength
                 /\ gin' = [gin EXCEPT ![to] = Append(gin[to], Self)]
            BY <2>6 DEF DoForward
        <3> HIDE DEF to
        <3>3. gin' \in [Ids -> Seq(Ids)] /\ \A t \in Ids : Len(gin'[t]) <= GinLength
            <4>1. CASE gin' = gin \/ to \notin Ids
                BY <3>2, <4>1 DEF BoxesType
            <4>2. CASE gin' # gin /\ to \in Ids
                <5>1. gin[to] \in Seq(Ids) /\ Len(gin[to]) \in Nat /\ GinLength \in Nat
                    BY <4>2, SchedAssumption DEF BoxesType
                <5>2. /\ Append(gin[to], Self) \in Seq(Ids)
                      /\ Len(Append(gin[to], Self)) = Len(gin[to]) + 1
                    BY <3>1, <5>1
                <5>3. Len(Append(gin[to], Self)) <= GinLength
                    BY <3>2, <4>2, <5>1, <5>2
                <5>4. gin' = [gin EXCEPT ![to] = Append(gin[to], Self)]
                    BY <3>2, <4>2
                <5> DEFINE q == Append(gin[to], Self)
                <5> HIDE DEF q
                <5>5. gin' = [gin EXCEPT ![to] = q] /\ q \in Seq(Ids) /\ Len(q) <= GinLength
                    BY <5>2, <5>3, <5>4 DEF q
                <5>6. QED
                    BY <4>2, <5>5 DEF BoxesType
            <4>3. QED
                BY <4>1, <4>2
        <3>4. \A t \in Ids : Len(sout'[t]) <= SoutLength
            BY <2>6, ReplyFits DEF DoForward, BoxesType
        <3>5. QED
            BY <3>3, <3>4 DEF BoxesType
    <2>7. QED
        BY <2>1, <2>2, <2>3, <2>4, <2>5, <2>6
<1>4. CASE ReadFreed \/ ProcessDone \/ ListenNext \/ ListenAgain \/ ListenYield
    BY <1>1, <1>4 DEF ReadFreed, Stop, ProcessDone, ListenNext, ListenAgain, ListenYield, memory, mail
<1>5. CASE UserStep
    <2>1. PICK t \in Ids :
              \/ \E r \in Request : UserRequest(t, r)
              \/ UserReply(t) \/ UserMessage(t)
              \/ \E a \in Addrs, w \in Words : UserStore(t, a, w)
              \/ UserProcess(t) \/ UserYield(t)
        BY <1>5 DEF UserStep
    <2>2. CASE \/ \E r \in Request : UserRequest(t, r)
               \/ \E a \in Addrs, w \in Words : UserStore(t, a, w)
               \/ UserProcess(t) \/ UserYield(t)
        BY <1>1, <2>2 DEF UserRequest, UserStore, UserProcess, UserYield, memory, mail
    <2>3. CASE UserReply(t)
        <3>1. sout[t] # <<>> /\ sout' = [sout EXCEPT ![t] = Tail(sout[t])] /\ gin' = gin
            BY <2>3 DEF UserReply, mail
        <3>2. sout[t] \in Seq(Ids) /\ Len(sout[t]) <= SoutLength /\ SoutLength \in Nat
            BY SchedAssumption DEF Replies, BoxesType
        <3>3. Len(Tail(sout[t])) <= SoutLength
            BY <3>1, <3>2, TailFits
        <3>4. QED
            BY <3>1, <3>3 DEF Replies, BoxesType
    <2>4. CASE UserMessage(t)
        <3>1. gin[t] # <<>> /\ gin' = [gin EXCEPT ![t] = Tail(gin[t])] /\ sout' = sout
            BY <2>4 DEF UserMessage
        <3>2. gin[t] \in Seq(Ids) /\ Len(gin[t]) <= GinLength /\ GinLength \in Nat
            BY SchedAssumption DEF BoxesType
        <3>3. Tail(gin[t]) \in Seq(Ids) /\ Len(Tail(gin[t])) <= GinLength
            BY <3>1, <3>2, TailFits
        <3>4. QED
            BY <3>1, <3>3 DEF BoxesType
    <2>5. QED
        BY <2>1, <2>2, <2>3, <2>4
<1>6. CASE Stopped \/ UNCHANGED vars
    BY <1>1, <1>6 DEF Stopped, vars
<1>7. QED
    BY <1>3, <1>4, <1>5, <1>6 DEF Next, Kernel

----------------------------------------------------------------------------

\* The invariant of the tables holds in every reachable state.
THEOREM TablesInvariance ==
    ASSUME ReapIds = {0}
    PROVE  Spec => [](DispatchInv /\ TablesInv /\ Replies)
<1>1. Init => DispatchInv /\ TablesInv /\ Replies
    <2>1. Init => Replies
        BY DEF Init, Replies, RepliesReachRequester
    <2>2. QED
        BY <2>1, DispatchInit, TablesInit
<1>2. DispatchInv /\ TablesInv /\ Replies /\ [Next]_vars => (DispatchInv /\ TablesInv /\ Replies)'
    BY DispatchStep, TablesStep, RepliesStep
<1>3. QED
    BY <1>1, <1>2, PTL DEF Spec

\* remove_from_queue, find_available and process() keep queue[] and task_map
\* listing the same tasks, however listen() and process_for come upon the
\* requests, for any number of tasks that reap themselves (rlib_reap_self).
THEOREM QueueAndMapAgree ==
    ASSUME ReapIds = {0}
    PROVE  Spec => []QueueMatchesMap
<1>1. TablesInv => QueueMatchesMap
    <2> SUFFICES ASSUME TablesInv, mode \in {"listen", "serve", "process", "user"}
                 PROVE  /\ {queue[i] : i \in 1..queue_size} = {<<t, task_map[t]>> : t \in Live}
                        /\ Cardinality(Live) = queue_size
                        /\ \A t \in Live : info[task_map[t]] = t /\ task_map[t] \notin freed
        BY DEF QueueMatchesMap, Live
    <2>1. TablesType /\ Entries /\ Infos
        BY DEF TablesInv, Alive, Tables
    <2>2. ASSUME NEW i \in 1..queue_size
          PROVE  queue[i] = <<queue[i][1], task_map[queue[i][1]]>> /\ queue[i][1] \in Live
        <3>1. queue[i] \in (0..MaxId) \X (0..MaxId)
            BY <2>1, SchedAssumption DEF TablesType
        <3>2. queue[i] = <<queue[i][1], queue[i][2]>>
            BY <3>1
        <3>3. QED
            BY <2>1, <3>2 DEF Entries
    <2>3. \A t \in Live : \E i \in 1..queue_size : queue[i] = <<t, task_map[t]>>
        BY <2>1, <2>2 DEF Entries
    <2>4. {queue[i] : i \in 1..queue_size} = {<<t, task_map[t]>> : t \in Live}
        BY <2>2, <2>3
    <2>5. QED
        BY <2>1, <2>4 DEF Entries, Infos
<1>2. QED
    BY <1>1, TablesInvariance, PTL

\* Cursors, indices, pointers and lengths stay in their ranges, also in the state in
\* which the scheduler fails: no list, queue or channel outgrows its memory, and
\* synch_wake meets only nodes of a list, whatever the count of the request.
THEOREM SchedTypeCorrect ==
    ASSUME ReapIds = {0}
    PROVE  Spec => []TypeOK
<1> DEFINE Inv == DispatchInv /\ TablesInv /\ Replies
<1>1. Spec => []Inv
    BY TablesInvariance
<1>2. Init => Typed
    BY TypedInit
<1>3. Inv /\ Inv' /\ Typed /\ [Next]_vars => Typed'
    BY TablesTyped, ListsTyped, BoxesTyped DEF Typed
<1>4. Inv /\ Typed => TypeOK
    <2> SUFFICES ASSUME Replies, Typed PROVE TypeOK
        OBVIOUS
    <2>1. \A t \in Ids : /\ sin[t] \in Seq(Request) /\ sout[t] \in Seq(Ids)
                         /\ gin[t] \in Seq(Ids)
        BY DEF Typed, TablesType, Channels, Replies, BoxesType
    <2>2. \A t \in Ids : /\ \A i \in 1..Len(sin[t]) : sin[t][i] \in Request
                         /\ \A i \in 1..Len(sout[t]) : sout[t][i] \in Ids
                         /\ \A i \in 1..Len(gin[t]) : gin[t][i] \in Ids
        BY <2>1, ElementOfSeq
    <2>3. QED
        BY <2>2 DEF Typed, TablesType, ListsType, BoxesType, TypeOK
<1> HIDE DEF Inv
<1>5. QED
    BY <1>1, <1>2, <1>3, <1>4, PTL DEF Spec

\* process() writes a status to the task that asked, also after the request has
\* appended an entry to queue[] or taken one out of it.
THEOREM RepliesReachTheirRequester ==
    ASSUME ReapIds = {0}
    PROVE  Spec => []RepliesReachRequester
<1>1. Replies => RepliesReachRequester
    BY DEF Replies
<1>2. QED
    BY <1>1, TablesInvariance, PTL

\* listen() yields to a task only after a pass over queue[] that has met no
\* request, and then there is none, for any number of tasks.
THEOREM ListenLeavesNothing ==
    ASSUME ReapIds = {0}
    PROVE  Spec => ListenDrains
<1>1. ASSUME TablesInv, [Next]_vars, mode = "listen", mode' = "user", NEW t \in Ids, task_map[t] # 0
      PROVE  sin[t] = <<>>
    <2>1. ~ any
        <3>1. ~ DoRequest
            BY <1>1 DEF DoRequest, DoSpawn, DoSpawnFull, DoSetState, DoWait, DoWaitReaped,
                        DoWaitChanged, DoWake, DoWakeReaped, DoWakeLoose, DoReap, DoForward,
                        DoSetName, DoGetNamed, Take, Processing
        <3>2. ~ (ReadFreed \/ ProcessDone \/ ListenNext \/ ListenAgain)
            BY <1>1 DEF ReadFreed, ProcessDone, ListenNext, ListenAgain, Processing, Pass
        <3>3. ~ UserStep
            BY <1>1 DEF UserStep, UserRequest, UserReply, UserMessage, UserStore, UserProcess,
                        UserYield, User
        <3>4. ~ (Stopped \/ UNCHANGED vars)
            BY <1>1 DEF Stopped, vars
        <3>5. QED
            BY <1>1, <3>1, <3>2, <3>3, <3>4 DEF Next, Kernel, ListenYield
    <2>2. Entries /\ Walk
        BY <1>1 DEF TablesInv, Alive, Tables
    <2>3. PICK i \in 1..queue_size : queue[i][1] = t
        BY <1>1, <2>2 DEF Entries, Live
    <2>4. QED
        BY <1>1, <2>1, <2>2, <2>3 DEF Walk
<1>2. TablesInv /\ [Next]_vars =>
          [mode = "listen" /\ mode' = "user" =>
              \A t \in Ids : task_map[t] # 0 => sin[t] = <<>>]_vars
    BY <1>1
<1>3. QED
    BY <1>2, TablesInvariance, PTL DEF Spec, ListenDrains
============================================================================
