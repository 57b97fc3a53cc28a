----------------------------- MODULE RlibProofs -----------------------------
(***************************************************************************)
(* Theorems about the requests of rlib, for channels of any length and any *)
(* sequence number width: no request is dropped, and a function that waits *)
(* for its status leaves no older one behind.                              *)
(***************************************************************************)
EXTENDS Rlib, TLAPS

----------------------------------------------------------------------------
(* Where a function can be. *)

Long == fn = "set_local_task"

\* The requests that can be in sin while the function runs.
Unserved ==
    IF Long THEN IF pc \in 1..4 THEN pc - 1
                 ELSE IF pc = 5 THEN 3 ELSE IF pc = 6 THEN 4
                 ELSE IF pc = 9 THEN 1 ELSE 0
    ELSE IF pc = 2 THEN 1 ELSE 0

\* The numbers that the function has still to take.
NumbersLeft ==
    IF fn = "none" THEN 0
    ELSE IF Long THEN IF pc \in 1..5 THEN 6 - pc ELSE 0
    ELSE IF pc = 1 THEN 1 ELSE 0

\* The function waits for the status of a request of this type, or will.
Awaits(t) ==
    \/ fn = "create_task" /\ pc \in {2, 3} /\ t = "spawn"
    \/ fn = "anonymous" /\ pc \in {2, 3} /\ t = "anonymous"
    \/ fn = "copy" /\ pc = 2 /\ t = "mirror"
    \/ Long /\ pc \in {6, 7} /\ t = "anonymous"
    \/ Long /\ pc \in {9, 10} /\ t = "set_state"

\* It has read the status it waited for.
Answered ==
    \/ fn \in {"create_task", "anonymous"} /\ pc = 4
    \/ fn = "copy" /\ pc = 3
    \/ Long /\ pc \in {8, 11}

\* Where int 0xfe returns to.
Return0xfe ==
    \/ fn \in {"create_task", "ready_task", "wait", "wake", "anonymous"} /\ pc = 3
    \/ fn = "copy" /\ pc = 2
    \/ Long /\ pc \in {7, 10}

\* What the functions are made of.
AtPlace ==
    /\ At("send") => \/ fn = "create_task" /\ pc = 1 /\ Type = "spawn"
                     \/ fn = "ready_task" /\ pc = 1 /\ Type = "set_state"
                     \/ fn = "wait" /\ pc = 1 /\ Type = "wait"
                     \/ fn = "wake" /\ pc = 1 /\ Type = "wake"
                     \/ fn = "anonymous" /\ pc = 1 /\ Type = "anonymous"
                     \/ fn = "copy" /\ pc = 1 /\ Type = "mirror"
                     \/ Long /\ pc \in {1, 2, 3} /\ Type = "set_state"
                     \/ Long /\ pc = 5 /\ Type = "anonymous"
    /\ At("number") => Long /\ pc = 4 /\ Type = "set_state"
    /\ At("write") => Long /\ pc = 8 /\ Type = "set_state"
    /\ At("process") => \/ /\ fn \in {"create_task", "ready_task", "wait", "wake", "anonymous"}
                           /\ pc = 2
                        \/ Long /\ pc \in {6, 9}
    /\ At("read") => \/ fn = "create_task" /\ pc = 3 /\ Type = "spawn"
                     \/ Long /\ pc = 10 /\ Type = "set_state"
    /\ At("poll") => \/ fn = "anonymous" /\ pc = 3 /\ Type = "anonymous"
                     \/ fn = "copy" /\ pc = 2 /\ Type = "mirror"
                     \/ Long /\ pc = 7 /\ Type = "anonymous"
    /\ pc = Len(Code[fn]) + 1 => Answered \/ (fn \in Posts /\ pc = 3)

\* The functions, by name.
LEMMA FunctionNames ==
    /\ Functions = {"create_task", "set_local_task", "ready_task", "wait", "wake",
                    "anonymous", "copy"}
    /\ "none" \notin Functions
BY DEF Functions, Code

\* The statements of rlib_set_local_task, those of rlib_anonymous among them.
LEMMA LongCode ==
    /\ Len(Code["set_local_task"]) = 10
    /\ \A i \in 1..3 : Code["set_local_task"][i] = Do("send", "set_state")
    /\ Code["set_local_task"][4] = Do("number", "set_state")
    /\ Code["set_local_task"][5] = Do("send", "anonymous")
    /\ Code["set_local_task"][6] = Do("process", "none")
    /\ Code["set_local_task"][7] = Do("poll", "anonymous")
    /\ Code["set_local_task"][8] = Do("write", "set_state")
    /\ Code["set_local_task"][9] = Do("process", "none")
    /\ Code["set_local_task"][10] = Do("read", "set_state")
<1> DEFINE first == <<Do("send", "set_state"), Do("send", "set_state"), Do("send", "set_state"),
                      Do("number", "set_state")>>
           last == <<Do("write", "set_state"), Do("process", "none"), Do("read", "set_state")>>
<1>1. Code["set_local_task"] = first \o Anonymous \o last
    BY DEF Code
<1>2. QED
    BY <1>1 DEF Anonymous

\* What the next statement of a function can be, at each place.
LEMMA Statements ==
    ASSUME fn \in Functions, pc \in 1..11
    PROVE  AtPlace
<1>1. /\ pc = 1 \/ pc = 2 \/ pc = 3 \/ pc = 4 \/ pc = 5 \/ pc = 6 \/ pc = 7 \/ pc = 8
         \/ pc = 9 \/ pc = 10 \/ pc = 11
      /\ pc \in Int
    OBVIOUS
<1> USE DEF AtPlace, At, Type, Do, Long, Answered, Posts
<1>2. CASE fn = "create_task"
    <2>1. Code[fn] = <<Do("send", "spawn"), Do("process", "none"), Do("read", "spawn")>>
        BY <1>2 DEF Code
    <2>2. QED
        BY <1>1, <1>2, <2>1
<1>3. CASE fn = "anonymous"
    <2>1. Code[fn] = <<Do("send", "anonymous"), Do("process", "none"), Do("poll", "anonymous")>>
        BY <1>3 DEF Code, Anonymous
    <2>2. QED
        BY <1>1, <1>3, <2>1
<1>4. CASE fn = "copy"
    <2>1. Code[fn] = <<Do("send", "mirror"), Do("poll", "mirror")>>
        BY <1>4 DEF Code
    <2>2. QED
        BY <1>1, <1>4, <2>1
<1>5. CASE fn = "ready_task"
    <2>1. Code[fn] = <<Do("send", "set_state"), Do("process", "none")>>
        BY <1>5 DEF Code
    <2>2. QED
        BY <1>1, <1>5, <2>1
<1>6. CASE fn = "wait"
    <2>1. Code[fn] = <<Do("send", "wait"), Do("process", "none")>>
        BY <1>6 DEF Code
    <2>2. QED
        BY <1>1, <1>6, <2>1
<1>9. CASE fn = "wake"
    <2>1. Code[fn] = <<Do("send", "wake"), Do("process", "none")>>
        BY <1>9 DEF Code
    <2>2. QED
        BY <1>1, <1>9, <2>1
<1>7. CASE Long
    BY <1>1, <1>7, LongCode
<1>8. QED
    BY <1>2, <1>3, <1>4, <1>5, <1>6, <1>7, <1>9, FunctionNames

----------------------------------------------------------------------------
(* The sequence numbers. *)

Numbers == 0..SeqMod - 1

\* The number that the i-th call of rlib_sequence from now returns.
Nth(i) == IF seq + i <= SeqMod - 1 THEN seq + i ELSE seq + i - (SeqMod - 1)

\* A residue, without the modulus.
LEMMA Residue ==
    ASSUME NEW n \in 0..SeqMod + SeqMod - 1
    PROVE  n % SeqMod = IF n < SeqMod THEN n ELSE n - SeqMod
<1>1. SeqMod \in Nat /\ SeqMod > 0
    BY RlibAssumption
<1>2. CASE n < SeqMod
    BY <1>1, <1>2
<1>3. CASE ~ (n < SeqMod)
    <2>1. n = (n - SeqMod) + SeqMod * 1 /\ n - SeqMod \in 0..SeqMod - 1
        BY <1>1, <1>3
    <2>2. n % SeqMod = n - SeqMod
        BY <1>1, <2>1
    <2>3. QED
        BY <1>3, <2>2
<1>4. QED
    BY <1>2, <1>3

\* rlib_sequence, without the modulus.
LEMMA SequenceIsNext ==
    ASSUME seq \in Numbers
    PROVE  sequence = Nth(1) /\ sequence \in Numbers /\ sequence # 0
<1>1. SeqMod \in Nat /\ SeqMod > 6
    BY RlibAssumption
<1>2. (seq + 1) % SeqMod = IF seq + 1 < SeqMod THEN seq + 1 ELSE seq + 1 - SeqMod
    BY <1>1, Residue DEF Numbers
<1>3. CASE seq + 1 < SeqMod
    <2>1. (seq + 1) % SeqMod = seq + 1
        BY <1>2, <1>3
    <2>2. seq \in Nat
        BY <1>1 DEF Numbers
    <2>3. QED
        BY <1>1, <1>3, <2>1, <2>2 DEF sequence, Nth, Numbers
<1>4. CASE ~ (seq + 1 < SeqMod)
    <2>1. seq = SeqMod - 1
        BY <1>1, <1>4 DEF Numbers
    <2>2. (seq + 1) % SeqMod = 0
        BY <1>1, <1>2, <2>1
    <2>3. QED
        BY <1>1, <2>1, <2>2 DEF sequence, Nth, Numbers
<1>5. QED
    BY <1>3, <1>4

\* What Fresh says of the numbers of a call.
LEMMA FreshNumbers ==
    ASSUME seq \in Numbers, Fresh, NEW i \in 1..5, NEW j \in 1..Len(sout)
    PROVE  sout[j] # Nth(i)
<1>1. SeqMod \in Nat /\ SeqMod > 6
    BY RlibAssumption
<1>2. sout[j] # (seq + i) % SeqMod /\ sout[j] # (seq + (i + 1)) % SeqMod
    BY DEF Fresh
<1>3. PICK a \in 0..SeqMod + SeqMod - 1 : a = seq + i
    BY <1>1 DEF Numbers
<1>4. PICK b \in 0..SeqMod + SeqMod - 1 : b = seq + (i + 1)
    BY <1>1 DEF Numbers
<1>5. sout[j] # a % SeqMod /\ sout[j] # b % SeqMod
    BY <1>2, <1>3, <1>4, Zenon
<1>6. CASE a < SeqMod
    <2>1. a % SeqMod = a
        BY <1>6, Residue
    <2>2. Nth(i) = a
        BY <1>1, <1>3, <1>6 DEF Nth
    <2>3. QED
        BY <1>5, <2>1, <2>2, Zenon
<1>7. CASE ~ (a < SeqMod)
    <2>1. ~ (b < SeqMod) /\ b \in Int /\ a \in Int /\ b = a + 1
        BY <1>1, <1>3, <1>4, <1>7 DEF Numbers
    <2>2. b % SeqMod = b - SeqMod
        BY <2>1, Residue
    <2>3. Nth(i) = b - SeqMod
        BY <1>1, <1>3, <1>7, <2>1 DEF Nth, Numbers
    <2>4. QED
        BY <1>5, <2>2, <2>3, Zenon
<1>8. QED
    BY <1>6, <1>7

----------------------------------------------------------------------------
(* The inductive invariant. *)

Types0 ==
    /\ fn \in Functions \cup {"none"}
    /\ pc \in 1..11 /\ (fn = "none" => pc = 1) /\ (fn # "none" => pc <= Len(Code[fn]) + 1)
    /\ req_id \in [Types -> Numbers]
    /\ seq \in Numbers
    /\ sin \in Seq([type : Types, req_id : Numbers]) /\ Len(sin) <= SinLength
    /\ sout \in Seq(1..SeqMod - 1) /\ Len(sout) <= SoutLength
    /\ fits \in BOOLEAN /\ inside \in BOOLEAN /\ blocked \in BOOLEAN /\ room \in BOOLEAN

\* The number n is in no request and no status but, perhaps, the very last.
OnlyLast(n) ==
    /\ \A j \in 1..Len(sout) - 1 : sout[j] # n
    /\ sin # <<>> => /\ \A j \in 1..Len(sout) : sout[j] # n
                     /\ \A j \in 1..Len(sin) - 1 : sin[j].req_id # n

Position ==
    /\ ~ inside => Len(sin) <= Unserved
    /\ inside => Return0xfe
    /\ Answered => sin = <<>> /\ sout = <<>>

Outstanding == \A t \in Types : Awaits(t) => OnlyLast(req_id[t])

\* No request and no status has a number that the function has still to take.
Upcoming ==
    \A i \in 1..NumbersLeft : /\ \A j \in 1..Len(sout) : sout[j] # Nth(i)
                              /\ \A j \in 1..Len(sin) : sin[j].req_id # Nth(i)

RlibInv == Types0 /\ Position /\ Outstanding /\ Upcoming

\* A place of a sequence.
LEMMA ElementOf ==
    ASSUME NEW S, NEW s \in Seq(S), NEW i \in 1..Len(s)
    PROVE  s[i] \in S
OBVIOUS

----------------------------------------------------------------------------
(* What each statement of a function changes of the place it is at. *)

\* No function has more than ten statements.
LEMMA Lengths ==
    ASSUME NEW f \in Functions
    PROVE  Len(Code[f]) \in 1..10
<1>1. /\ Len(Code["create_task"]) = 3 /\ Len(Code["ready_task"]) = 2
      /\ Len(Code["wait"]) = 2 /\ Len(Code["wake"]) = 2
      /\ Len(Code["anonymous"]) = 3 /\ Len(Code["copy"]) = 2
    BY DEF Code, Anonymous
<1>2. QED
    BY <1>1, LongCode, FunctionNames

\* What the types say of the place of the function.
LEMMA PlaceTypes ==
    ASSUME Types0
    PROVE  /\ fn = "none" => pc = 1
           /\ fn # "none" => fn \in Functions /\ AtPlace
           /\ pc \in 1..11 /\ (fn # "none" => Len(Code[fn]) \in 1..10)
           /\ NumbersLeft \in 0..5 /\ Unserved \in 0..4
<1>1. /\ fn = "none" => pc = 1
      /\ fn # "none" => fn \in Functions
      /\ pc \in 1..11
    BY DEF Types0
<1>2. NumbersLeft \in 0..5 /\ Unserved \in 0..4
    BY <1>1 DEF NumbersLeft, Unserved
<1>3. QED
    BY <1>1, <1>2, Statements, Lengths

\* A step that leaves the place alone changes nothing that depends on it.
LEMMA PlaceStays ==
    ASSUME UNCHANGED <<fn, pc>>
    PROVE  /\ NumbersLeft' = NumbersLeft /\ Unserved' = Unserved
           /\ (Answered' <=> Answered) /\ (Return0xfe' <=> Return0xfe)
           /\ \A t : Awaits(t)' <=> Awaits(t)
<1>1. fn' = fn /\ pc' = pc
    OBVIOUS
<1>2. NumbersLeft' = NumbersLeft
    BY <1>1 DEF NumbersLeft, Long
<1>3. Unserved' = Unserved
    BY <1>1 DEF Unserved, Long
<1>4. Answered' <=> Answered
    BY <1>1 DEF Answered, Long
<1>5. Return0xfe' <=> Return0xfe
    BY <1>1 DEF Return0xfe, Long
<1>6. \A t : Awaits(t)' <=> Awaits(t)
    BY <1>1 DEF Awaits, Long
<1>7. QED
    BY <1>2, <1>3, <1>4, <1>5, <1>6

\* A request is written where at most three are unserved, and takes a number.
LEMMA SendMoves ==
    ASSUME Types0, Send
    PROVE  /\ Type \in Types /\ pc' \in 1..11 /\ pc' <= Len(Code[fn]) + 1
           /\ NumbersLeft \in 1..5 /\ NumbersLeft' = NumbersLeft - 1
           /\ Unserved \in 0..3 /\ Unserved' = Unserved + 1
           /\ ~ Answered'
           /\ \A t : Awaits(t)' => t = Type
<1>1. /\ fn \in Functions /\ AtPlace /\ pc \in 1..11 /\ Len(Code[fn]) \in 1..10
      /\ At("send") /\ fn # "none" /\ pc <= Len(Code[fn])
      /\ pc' = pc + 1 /\ fn' = fn
    BY PlaceTypes DEF Send, At
<1>2. \/ fn \in {"create_task", "ready_task", "wait", "wake", "anonymous", "copy"} /\ pc = 1
      \/ Long /\ pc \in {1, 2, 3, 5}
    BY <1>1 DEF AtPlace
<1>3. Type \in Types
    BY <1>1 DEF AtPlace, Types
<1>4. pc' \in 1..11 /\ pc' <= Len(Code[fn]) + 1
    <2>1. PICK n \in 1..10 : n = Len(Code[fn])
        BY <1>1
    <2>2. pc \in 1..11 /\ pc <= n /\ pc' = pc + 1
        BY <1>1, <2>1
    <2>3. pc' \in 1..11 /\ pc' <= n + 1
        BY <2>2
    <2>4. QED
        BY <2>1, <2>3
<1>5. /\ NumbersLeft \in 1..5 /\ NumbersLeft' = NumbersLeft - 1
      /\ Unserved \in 0..3 /\ Unserved' = Unserved + 1
    BY <1>1, <1>2 DEF NumbersLeft, Unserved, Long
<1>6. ~ Answered'
    BY <1>1, <1>2 DEF Answered, Long
<1>7. ASSUME NEW t, Awaits(t)' PROVE t = Type
    BY <1>1, <1>2, <1>7 DEF Awaits, Long, AtPlace
<1>8. QED
    BY <1>3, <1>4, <1>5, <1>6, <1>7

\* A function reads the status it awaits when it has taken all its numbers.
LEMMA ReadPlace ==
    ASSUME Types0, Reading
    PROVE  /\ fn \in Functions /\ ~ inside /\ pc \in 1..10 /\ pc <= Len(Code[fn])
           /\ Type \in Types /\ Awaits(Type)
           /\ NumbersLeft = 0 /\ ~ Answered
           /\ At("poll") => Return0xfe
           /\ \/ fn \in {"create_task", "anonymous"} /\ pc = 3
              \/ fn = "copy" /\ pc = 2
              \/ Long /\ pc \in {7, 10}
<1>1. /\ fn \in Functions /\ AtPlace /\ pc \in 1..11 /\ Len(Code[fn]) \in 1..10
      /\ ~ inside /\ fn # "none" /\ pc <= Len(Code[fn]) /\ pc \in 1..10
      /\ At("read") \/ At("poll")
    BY PlaceTypes DEF Reading, At
<1>2. /\ \/ fn \in {"create_task", "anonymous"} /\ pc = 3
         \/ fn = "copy" /\ pc = 2
         \/ Long /\ pc \in {7, 10}
      /\ Type \in Types
      /\ At("poll") => Return0xfe
    BY <1>1 DEF AtPlace, Types, Return0xfe
<1>3. Awaits(Type)
    BY <1>1 DEF AtPlace, Awaits
<1>4. NumbersLeft = 0 /\ ~ Answered
    BY <1>1, <1>2 DEF NumbersLeft, Answered, Long
<1>5. QED
    BY <1>1, <1>2, <1>3, <1>4

----------------------------------------------------------------------------
(* The invariant is inductive. *)

\* Nothing is outstanding before the first call.
LEMMA InitHolds ==
    ASSUME Init
    PROVE  RlibInv
<1>1. SeqMod \in Nat /\ SeqMod > 6 /\ SinLength \in Nat /\ SoutLength \in Nat
    BY RlibAssumption
<1>2. Types0
    <2>1. req_id \in [Types -> Numbers] /\ seq \in Numbers
        BY <1>1 DEF Init, Numbers
    <2>2. /\ sin \in Seq([type : Types, req_id : Numbers]) /\ Len(sin) <= SinLength
          /\ sout \in Seq(1..SeqMod - 1) /\ Len(sout) <= SoutLength
        BY <1>1 DEF Init
    <2>3. /\ fn = "none" /\ pc = 1 /\ fits = TRUE /\ inside = FALSE /\ blocked = FALSE
          /\ room = TRUE
        BY DEF Init
    <2>4. /\ fn \in Functions \cup {"none"} /\ pc \in 1..11
          /\ fn = "none" => pc = 1
          /\ fn # "none" => pc <= Len(Code[fn]) + 1
        BY <2>3
    <2>5. fits \in BOOLEAN /\ inside \in BOOLEAN /\ blocked \in BOOLEAN /\ room \in BOOLEAN
        BY <2>3, Zenon
    <2>6. QED
        BY <2>1, <2>2, <2>4, <2>5, Zenon DEF Types0
<1>3. fn = "none" /\ pc = 1 /\ sin = <<>> /\ sout = <<>> /\ ~ inside
    BY DEF Init
<1>4. Position
    BY <1>3 DEF Position, Unserved, Answered, Long
<1>5. Outstanding /\ Upcoming
    BY <1>3 DEF Outstanding, Upcoming, Awaits, NumbersLeft, Long
<1>6. QED
    BY <1>2, <1>4, <1>5 DEF RlibInv

\* A call finds sin empty, and its numbers in no status: Fresh.
LEMMA CallStep ==
    ASSUME RlibInv, NEW f \in Functions, Call(f)
    PROVE  RlibInv'
<1>1. /\ Types0 /\ Position /\ fn = "none" /\ Fresh /\ fn' = f /\ pc' = 1 /\ f # "none"
      /\ UNCHANGED <<seq, sin, sout, inside, blocked>>
    BY FunctionNames DEF RlibInv, Call
<1>2. ~ inside /\ sin = <<>>
    <2>1. pc = 1
        BY <1>1 DEF Types0
    <2>2. Unserved = 0 /\ ~ Return0xfe
        BY <1>1, <2>1 DEF Unserved, Long, Return0xfe
    <2>3. ~ inside /\ Len(sin) <= 0
        BY <1>1, <2>2 DEF Position
    <2>4. QED
        BY <1>1, <2>3 DEF Types0
<1>3. Types0'
    <2>1. SeqMod \in Nat /\ SeqMod > 6
        BY RlibAssumption
    <2>2. req_id' \in [Types -> Numbers]
        BY <2>1 DEF Call, Numbers
    <2>3. fits' \in BOOLEAN /\ room' \in BOOLEAN
        BY DEF Call
    <2>4. fn' \in Functions \cup {"none"} /\ pc' \in 1..11 /\ fn' # "none"
          /\ pc' <= Len(Code[fn']) + 1
        <3>1. Len(Code[f]) \in 1..10
            BY Lengths
        <3>2. QED
            BY <1>1, <3>1
    <2>5. QED
        BY <1>1, <2>2, <2>3, <2>4 DEF Types0, Numbers
<1>4. Position'
    BY <1>1, <1>2 DEF Position, Unserved, Answered, Long
<1>5. Outstanding'
    BY <1>1 DEF Outstanding, Awaits, Long
<1>6. Upcoming'
    <2>1. NumbersLeft' \in 0..5
        BY <1>1 DEF NumbersLeft, Long
    <2>2. seq \in Numbers
        BY <1>1 DEF Types0
    <2>3. \A i \in 1..5 : \A j \in 1..Len(sout) : sout[j] # Nth(i)
        BY <1>1, <2>2, FreshNumbers
    <2>4. SUFFICES ASSUME NEW i \in 1..5
                   PROVE  /\ \A j \in 1..Len(sout) : sout[j] # Nth(i)'
                          /\ \A j \in 1..Len(sin) : sin[j].req_id # Nth(i)'
        BY <1>1, <2>1 DEF Upcoming
    <2>5. Nth(i)' = Nth(i)
        BY <1>1 DEF Nth
    <2>6. QED
        BY <1>2, <2>3, <2>5
<1>7. QED
    BY <1>3, <1>4, <1>5, <1>6 DEF RlibInv

\* Later numbers differ from the next one, and are those to come after it.
LEMMA NthShifts ==
    ASSUME seq \in Numbers, seq' = sequence, NEW i \in 1..4
    PROVE  Nth(i)' = Nth(i + 1) /\ sequence # Nth(i + 1)
<1>1. SeqMod \in Nat /\ SeqMod > 6
    BY RlibAssumption
<1>2. seq' = Nth(1)
    BY SequenceIsNext
<1>3. seq' = IF seq + 1 <= SeqMod - 1 THEN seq + 1 ELSE seq + 1 - (SeqMod - 1)
    BY <1>2 DEF Nth
<1>4. Nth(i)' = IF seq' + i <= SeqMod - 1 THEN seq' + i ELSE seq' + i - (SeqMod - 1)
    BY DEF Nth
<1>5. Nth(i + 1) = IF seq + (i + 1) <= SeqMod - 1 THEN seq + (i + 1)
                   ELSE seq + (i + 1) - (SeqMod - 1)
    BY DEF Nth
<1>6. Nth(i)' = Nth(i + 1)
    BY <1>1, <1>3, <1>4, <1>5 DEF Numbers
<1>7. seq' # Nth(i + 1)
    BY <1>1, <1>3, <1>5 DEF Numbers
<1>8. QED
    BY <1>6, <1>7

\* comm_write, in terms of the places of sin.
LEMMA WrittenPlaces ==
    ASSUME Types0, NEW t \in Types, NEW n \in Numbers, sin' = Written(t, n)
    PROVE  /\ sin' \in Seq([type : Types, req_id : Numbers])
           /\ Len(sin') \in Nat /\ Len(sin') <= SinLength
           /\ Len(sin') <= Len(sin) + 1
           /\ \A j \in 1..Len(sin') :
                 \/ j \in 1..Len(sin) /\ sin'[j] = sin[j]
                 \/ j = Len(sin') /\ sin'[j].req_id = n
<1>1. /\ sin \in Seq([type : Types, req_id : Numbers]) /\ Len(sin) <= SinLength
      /\ SinLength \in Nat
    BY RlibAssumption DEF Types0
<1>2. CASE Len(sin) < SinLength
    <2>1. sin' = Append(sin, [type |-> t, req_id |-> n])
        BY <1>2 DEF Written
    <2>2. [type |-> t, req_id |-> n] \in [type : Types, req_id : Numbers]
        OBVIOUS
    <2>3. QED
        BY <1>1, <1>2, <2>1, <2>2
<1>3. CASE ~ (Len(sin) < SinLength)
    <2>1. sin' = sin
        BY <1>3 DEF Written
    <2>2. QED
        BY <1>1, <2>1
<1>4. QED
    BY <1>2, <1>3

\* The request has the next number; the later ones are still to come.
LEMMA SendStep ==
    ASSUME RlibInv, Send
    PROVE  RlibInv'
<1>1. /\ Types0 /\ Position /\ Upcoming
      /\ seq \in Numbers /\ seq' = sequence
      /\ req_id \in [Types -> Numbers] /\ req_id' = [req_id EXCEPT ![Type] = sequence]
      /\ sin' = Written(Type, sequence) /\ pc' = pc + 1
      /\ UNCHANGED <<fn, fits, sout, inside, blocked, room>>
      /\ fn # "none" /\ ~ inside
    BY DEF RlibInv, Types0, Send, At
<1>2. PICK n \in Numbers : n = sequence /\ n = Nth(1)
    BY <1>1, SequenceIsNext
<1>3. /\ Type \in Types /\ pc' \in 1..11 /\ pc' <= Len(Code[fn]) + 1
      /\ NumbersLeft \in 1..5 /\ NumbersLeft' = NumbersLeft - 1
      /\ Unserved \in 0..3 /\ Unserved' = Unserved + 1
      /\ ~ Answered'
      /\ \A t : Awaits(t)' => t = Type
    BY <1>1, SendMoves
<1>4. /\ sin' \in Seq([type : Types, req_id : Numbers])
      /\ Len(sin') \in Nat /\ Len(sin') <= SinLength
      /\ Len(sin') <= Len(sin) + 1
      /\ \A j \in 1..Len(sin') : \/ j \in 1..Len(sin) /\ sin'[j] = sin[j]
                                 \/ j = Len(sin') /\ sin'[j].req_id = n
    <2>1. PICK t \in Types : t = Type
        BY <1>3
    <2>2. sin' = Written(t, n)
        BY <1>1, <1>2, <2>1
    <2>3. Types0
        BY <1>1
    <2>4. QED
        BY <1>2, <2>1, <2>2, <2>3, WrittenPlaces
<1>5. Types0'
    <2>1. req_id' \in [Types -> Numbers] /\ seq' \in Numbers
        BY <1>1, <1>2, <1>3
    <2>2. fn' \in Functions \cup {"none"} /\ fn' # "none" /\ pc' <= Len(Code[fn']) + 1
        BY <1>1, <1>3 DEF Types0
    <2>3. QED
        BY <1>1, <1>3, <1>4, <2>1, <2>2 DEF Types0, Numbers
<1>6. Position'
    <2>1. Len(sin) <= Unserved /\ Len(sin) \in Nat
        BY <1>1 DEF Position, Types0
    <2>2. Len(sin') <= Unserved'
        BY <1>3, <1>4, <2>1
    <2>3. QED
        BY <1>1, <1>3, <2>2 DEF Position
<1>7. /\ \A j \in 1..Len(sout) : sout[j] # n
      /\ \A j \in 1..Len(sin) : sin[j].req_id # n
    <2>1. 1 \in 1..NumbersLeft
        BY <1>3
    <2>2. QED
        BY <1>1, <1>2, <2>1 DEF Upcoming
<1>8. Outstanding'
    <2>1. req_id'[Type] = n
        BY <1>1, <1>2, <1>3
    <2>2. \A j \in 1..Len(sout') : sout'[j] # n
        BY <1>1, <1>7
    <2>3. \A j \in 1..Len(sin') - 1 : sin'[j].req_id # n
        BY <1>4, <1>7
    <2>4. OnlyLast(n)'
        <3>1. Len(sout') \in Nat
            BY <1>5 DEF Types0
        <3>2. QED
            BY <2>2, <2>3, <3>1 DEF OnlyLast
    <2>5. ASSUME NEW t \in Types, Awaits(t)' PROVE OnlyLast(req_id[t])'
        <3>1. req_id'[t] = n
            BY <1>3, <2>1, <2>5
        <3>2. QED
            BY <2>4, <3>1 DEF OnlyLast
    <2>6. QED
        BY <2>5 DEF Outstanding
<1>9. Upcoming'
    <2>1. SUFFICES ASSUME NEW i \in 1..NumbersLeft - 1
                   PROVE  /\ \A j \in 1..Len(sout) : sout[j] # Nth(i)'
                          /\ \A j \in 1..Len(sin') : sin'[j].req_id # Nth(i)'
        BY <1>1, <1>3 DEF Upcoming
    <2>2. i \in 1..4 /\ i + 1 \in 1..NumbersLeft
        BY <1>3
    <2>3. Nth(i)' = Nth(i + 1) /\ sequence # Nth(i + 1)
        BY <1>1, <2>2, NthShifts
    <2>4. /\ \A j \in 1..Len(sout) : sout[j] # Nth(i + 1)
          /\ \A j \in 1..Len(sin) : sin[j].req_id # Nth(i + 1)
        BY <1>1, <2>2 DEF Upcoming
    <2>5. QED
        BY <1>2, <1>4, <2>3, <2>4
<1>10. QED
    BY <1>5, <1>6, <1>8, <1>9 DEF RlibInv

\* rlib_set_local_task takes a number and writes no request yet.
LEMMA NumberStep ==
    ASSUME RlibInv, Number
    PROVE  RlibInv'
<1>1. /\ Types0 /\ Position /\ Upcoming /\ At("number")
      /\ seq \in Numbers /\ seq' = sequence
      /\ req_id \in [Types -> Numbers] /\ req_id' = [req_id EXCEPT ![Type] = sequence]
      /\ pc' = pc + 1
      /\ UNCHANGED <<fn, fits, sin, sout, inside, blocked, room>>
      /\ fn # "none" /\ ~ inside
    BY DEF RlibInv, Types0, Number, At
<1>2. fn = "set_local_task" /\ pc = 4 /\ Type \in Types /\ Len(Code[fn]) = 10
    <2>1. AtPlace
        BY <1>1, PlaceTypes
    <2>2. QED
        BY <1>1, <2>1, LongCode DEF AtPlace, Long, Types
<1>3. /\ NumbersLeft = 2 /\ NumbersLeft' = 1 /\ Unserved = 3 /\ Unserved' = 3
      /\ ~ Answered' /\ \A t : ~ Awaits(t)'
    BY <1>1, <1>2 DEF NumbersLeft, Unserved, Answered, Awaits, Long
<1>4. Types0'
    <2>1. sequence \in Numbers
        BY <1>1, SequenceIsNext
    <2>2. req_id' \in [Types -> Numbers] /\ seq' \in Numbers
        BY <1>1, <1>2, <2>1
    <2>3. fn' \in Functions \cup {"none"} /\ fn' # "none" /\ pc' \in 1..11
          /\ pc' <= Len(Code[fn']) + 1
        BY <1>1, <1>2 DEF Types0
    <2>4. QED
        BY <1>1, <2>2, <2>3 DEF Types0, Numbers
<1>5. Position'
    BY <1>1, <1>3 DEF Position
<1>6. Outstanding'
    BY <1>3 DEF Outstanding
<1>7. Upcoming'
    <2>1. Nth(1)' = Nth(1 + 1)
        BY <1>1, NthShifts
    <2>2. /\ \A j \in 1..Len(sout) : sout[j] # Nth(1 + 1)
          /\ \A j \in 1..Len(sin) : sin[j].req_id # Nth(1 + 1)
        BY <1>1, <1>3 DEF Upcoming
    <2>3. /\ \A j \in 1..Len(sout') : sout'[j] # Nth(1)'
          /\ \A j \in 1..Len(sin') : sin'[j].req_id # Nth(1)'
        BY <1>1, <2>1, <2>2
    <2>4. QED
        <3>1. SUFFICES ASSUME NEW i \in 1..1
                       PROVE  /\ \A j \in 1..Len(sout') : sout'[j] # Nth(i)'
                              /\ \A j \in 1..Len(sin') : sin'[j].req_id # Nth(i)'
            BY <1>3 DEF Upcoming
        <3>2. i = 1
            OBVIOUS
        <3>3. QED
            BY <2>3, <3>2
<1>8. QED
    BY <1>4, <1>5, <1>6, <1>7 DEF RlibInv

\* rlib_set_local_task has read all there was when it writes its last request.
LEMMA WriteStep ==
    ASSUME RlibInv, Write
    PROVE  RlibInv'
<1>1. /\ Types0 /\ Position /\ At("write")
      /\ seq \in Numbers /\ req_id \in [Types -> Numbers]
      /\ sin' = Written(Type, req_id[Type]) /\ pc' = pc + 1
      /\ UNCHANGED <<fn, req_id, fits, seq, sout, inside, blocked, room>>
      /\ fn # "none" /\ ~ inside
    BY DEF RlibInv, Types0, Write, At
<1>2. /\ fn = "set_local_task" /\ pc = 8 /\ Type = "set_state" /\ Type \in Types
      /\ Len(Code[fn]) = 10
    <2>1. AtPlace
        BY <1>1, PlaceTypes
    <2>2. QED
        BY <1>1, <2>1, LongCode DEF AtPlace, Long, Types
<1>3. /\ NumbersLeft' = 0 /\ Unserved' = 1 /\ ~ Answered'
      /\ \A t : Awaits(t)' => t = "set_state"
    BY <1>1, <1>2 DEF NumbersLeft, Unserved, Answered, Awaits, Long
<1>4. sin = <<>> /\ sout = <<>>
    BY <1>1, <1>2 DEF Position, Answered, Long
<1>5. sin' = <<[type |-> Type, req_id |-> req_id[Type]]>>
    BY <1>1, <1>4, RlibAssumption DEF Written
<1>6. Types0'
    <2>1. sin' \in Seq([type : Types, req_id : Numbers]) /\ Len(sin') <= SinLength
        <3>1. PICK n \in Numbers : n = req_id[Type]
            BY <1>1, <1>2
        <3>2. PICK t \in Types : t = Type
            BY <1>2
        <3>3. sin' = <<[type |-> t, req_id |-> n]>>
            BY <1>5, <3>1, <3>2
        <3>4. QED
            BY <3>3, RlibAssumption
    <2>2. fn' \in Functions \cup {"none"} /\ fn' # "none" /\ pc' \in 1..11
          /\ pc' <= Len(Code[fn']) + 1
        BY <1>1, <1>2 DEF Types0
    <2>3. QED
        BY <1>1, <2>1, <2>2 DEF Types0, Numbers
<1>7. Position'
    BY <1>1, <1>3, <1>5 DEF Position
<1>8. Outstanding'
    <2>1. Len(sin') = 1 /\ sout' = <<>>
        BY <1>1, <1>4, <1>5
    <2>2. QED
        BY <2>1 DEF Outstanding, OnlyLast
<1>9. Upcoming'
    BY <1>3 DEF Upcoming
<1>10. QED
    BY <1>6, <1>7, <1>8, <1>9 DEF RlibInv

\* int 0xfe: the function will go on behind it.
LEMMA ProcessStep ==
    ASSUME RlibInv, Process
    PROVE  RlibInv'
<1>1. /\ Types0 /\ Position /\ Outstanding /\ At("process")
      /\ inside' = TRUE /\ pc' = pc + 1
      /\ UNCHANGED <<fn, req_id, fits, seq, sin, sout, blocked, room>>
      /\ fn \in Functions /\ AtPlace /\ fn # "none" /\ pc \in 1..11
      /\ pc <= Len(Code[fn]) /\ Len(Code[fn]) \in 1..10
    BY PlaceTypes DEF RlibInv, Process, At
<1>2. \/ fn \in {"create_task", "ready_task", "wait", "wake", "anonymous"} /\ pc = 2
      \/ Long /\ pc \in {6, 9}
    BY <1>1 DEF AtPlace
<1>3. /\ NumbersLeft' = 0 /\ ~ Answered' /\ Return0xfe'
      /\ \A t : Awaits(t)' => Awaits(t)
    BY <1>1, <1>2 DEF NumbersLeft, Answered, Return0xfe, Awaits, Long
<1>4. Types0'
    <2>1. pc' \in 1..11 /\ pc' <= Len(Code[fn']) + 1
        <3>1. PICK n \in 1..10 : n = Len(Code[fn])
            BY <1>1
        <3>2. pc \in 1..11 /\ pc <= n /\ pc' = pc + 1
            BY <1>1, <3>1
        <3>3. pc' \in 1..11 /\ pc' <= n + 1
            BY <3>2
        <3>4. QED
            BY <1>1, <3>1, <3>3
    <2>2. QED
        BY <1>1, <2>1 DEF Types0, Numbers
<1>5. Position'
    BY <1>1, <1>3 DEF Position
<1>6. Outstanding'
    BY <1>1, <1>3 DEF Outstanding, OnlyLast
<1>7. Upcoming'
    BY <1>3 DEF Upcoming
<1>8. QED
    BY <1>4, <1>5, <1>6, <1>7 DEF RlibInv

----------------------------------------------------------------------------

\* What is left of sout when a status has been read.
LEMMA TailPlaces ==
    ASSUME NEW S, NEW s \in Seq(S), s # <<>>
    PROVE  /\ Tail(s) \in Seq(S) /\ Len(Tail(s)) = Len(s) - 1 /\ Len(s) \in Nat \ {0}
           /\ Head(s) = s[1]
           /\ \A j \in 1..Len(s) - 1 : Tail(s)[j] = s[j + 1]
OBVIOUS

\* The status that a function waits for is the very last one.
LEMMA ReadOwnStep ==
    ASSUME RlibInv, ReadOwn
    PROVE  RlibInv'
<1>1. /\ Types0 /\ Position /\ Outstanding /\ Reading
      /\ sout # <<>> /\ Head(sout) = req_id[Type]
      /\ sout' = Tail(sout) /\ pc' = pc + 1
      /\ UNCHANGED <<fn, req_id, fits, seq, sin, inside, blocked, room>>
      /\ sout \in Seq(1..SeqMod - 1) /\ Len(sout) <= SoutLength
      /\ sin \in Seq([type : Types, req_id : Numbers])
    BY DEF RlibInv, ReadOwn, Types0
<1>2. /\ fn \in Functions /\ fn # "none" /\ ~ inside /\ pc \in 1..10 /\ pc <= Len(Code[fn])
      /\ Type \in Types /\ Awaits(Type)
      /\ \/ fn \in {"create_task", "anonymous"} /\ pc = 3
         \/ fn = "copy" /\ pc = 2
         \/ Long /\ pc \in {7, 10}
    BY <1>1, ReadPlace, FunctionNames
<1>3. sin = <<>> /\ sout' = <<>>
    <2>1. PICK n : n = req_id[Type] /\ OnlyLast(n)
        BY <1>1, <1>2 DEF Outstanding
    <2>2. sout[1] = n /\ Len(sout) \in Nat \ {0} /\ sout' \in Seq(1..SeqMod - 1)
          /\ Len(sout') = Len(sout) - 1
        BY <1>1, <2>1, TailPlaces
    <2>3. Len(sout) = 1
        BY <2>1, <2>2 DEF OnlyLast
    <2>4. sin = <<>>
        BY <2>1, <2>2 DEF OnlyLast
    <2>5. QED
        BY <2>2, <2>3, <2>4
<1>4. /\ NumbersLeft' = 0 /\ Unserved' \in 0..4
      /\ \A t : ~ Awaits(t)'
    BY <1>1, <1>2 DEF NumbersLeft, Unserved, Awaits, Long
<1>5. Types0'
    <2>1. pc' \in 1..11 /\ pc' <= Len(Code[fn']) + 1
        <3>1. Len(Code[fn]) \in 1..10
            BY <1>2, Lengths
        <3>2. PICK n \in 1..10 : n = Len(Code[fn])
            BY <3>1
        <3>3. pc \in 1..10 /\ pc <= n /\ pc' = pc + 1
            BY <1>1, <1>2, <3>2
        <3>4. pc' \in 1..11 /\ pc' <= n + 1
            BY <3>3
        <3>5. QED
            BY <1>1, <3>2, <3>4
    <2>2. sout' \in Seq(1..SeqMod - 1) /\ Len(sout') <= SoutLength
        BY <1>3, RlibAssumption
    <2>3. QED
        BY <1>1, <1>2, <2>1, <2>2 DEF Types0, Numbers
<1>6. Position'
    BY <1>1, <1>2, <1>3, <1>4 DEF Position
<1>7. Outstanding' /\ Upcoming'
    BY <1>4 DEF Outstanding, Upcoming
<1>8. QED
    BY <1>5, <1>6, <1>7 DEF RlibInv

\* A status of an earlier function is read past, or lost.
LEMMA ReadOtherStep ==
    ASSUME RlibInv, ReadOther
    PROVE  RlibInv'
<1>1. /\ Types0 /\ Position /\ Outstanding /\ Reading
      /\ sout # <<>> /\ sout' = Tail(sout) /\ fits' \in BOOLEAN
      /\ inside' \in BOOLEAN /\ (inside' => At("poll"))
      /\ UNCHANGED <<fn, pc, req_id, seq, sin, blocked, room>>
      /\ sout \in Seq(1..SeqMod - 1) /\ Len(sout) <= SoutLength
    <2>1. inside' = At("poll") /\ fits' = TRUE
        BY DEF ReadOther
    <2>2. inside' \in BOOLEAN /\ (inside' => At("poll")) /\ fits' \in BOOLEAN
        BY <2>1, Zenon DEF At
    <2>3. QED
        BY <2>2 DEF RlibInv, ReadOther, Types0
<1>2. /\ ~ inside /\ NumbersLeft = 0 /\ ~ Answered
      /\ At("poll") => Return0xfe
    BY <1>1, ReadPlace
<1>3. /\ NumbersLeft' = 0 /\ Unserved' = Unserved /\ (Answered' <=> Answered)
      /\ (Return0xfe' <=> Return0xfe) /\ \A t : Awaits(t)' <=> Awaits(t)
    <2>1. UNCHANGED <<fn, pc>>
        BY <1>1
    <2>2. QED
        BY <1>2, <2>1, PlaceStays, Zenon
<1>4. /\ sout' \in Seq(1..SeqMod - 1) /\ Len(sout') = Len(sout) - 1 /\ Len(sout) \in Nat \ {0}
      /\ \A j \in 1..Len(sout) - 1 : sout'[j] = sout[j + 1]
    BY <1>1, TailPlaces
<1>5. Types0'
    <2>1. Len(sout') <= SoutLength
        BY <1>1, <1>4, RlibAssumption
    <2>2. QED
        BY <1>1, <1>4, <2>1 DEF Types0, Numbers
<1>6. Position'
    <2>1. inside' => Return0xfe'
        BY <1>1, <1>2, <1>3, Zenon
    <2>2. Len(sin') <= Unserved'
        BY <1>1, <1>2, <1>3 DEF Position
    <2>3. QED
        BY <1>2, <1>3, <2>1, <2>2 DEF Position
<1>7. Outstanding'
    <2>1. SUFFICES ASSUME NEW t \in Types, Awaits(t)' PROVE OnlyLast(req_id[t])'
        BY DEF Outstanding
    <2>2. PICK n : n = req_id[t] /\ OnlyLast(n)
        BY <1>1, <1>3, <2>1 DEF Outstanding
    <2>3. OnlyLast(n)'
        BY <1>1, <1>4, <2>2 DEF OnlyLast
    <2>4. QED
        BY <1>1, <2>2, <2>3 DEF OnlyLast
<1>8. Upcoming'
    BY <1>3 DEF Upcoming
<1>9. QED
    BY <1>5, <1>6, <1>7, <1>8 DEF RlibInv

\* Nothing changes but that "poll" runs the scheduler again.
LEMMA ReadNothingStep ==
    ASSUME RlibInv, ReadNothing
    PROVE  RlibInv'
<1>1. /\ Types0 /\ Position /\ Outstanding /\ Reading
      /\ inside' \in BOOLEAN /\ (inside' => At("poll"))
      /\ UNCHANGED <<fn, pc, req_id, fits, seq, sin, sout, blocked, room>>
    <2>1. inside' = At("poll")
        BY DEF ReadNothing
    <2>2. inside' \in BOOLEAN /\ (inside' => At("poll"))
        BY <2>1, Zenon DEF At
    <2>3. QED
        BY <2>2 DEF RlibInv, ReadNothing
<1>2. /\ ~ inside /\ NumbersLeft = 0 /\ ~ Answered
      /\ At("poll") => Return0xfe
    BY <1>1, ReadPlace
<1>3. /\ NumbersLeft' = 0 /\ Unserved' = Unserved /\ (Answered' <=> Answered)
      /\ (Return0xfe' <=> Return0xfe) /\ \A t : Awaits(t)' <=> Awaits(t)
    <2>1. UNCHANGED <<fn, pc>>
        BY <1>1
    <2>2. QED
        BY <1>2, <2>1, PlaceStays, Zenon
<1>4. Types0'
    BY <1>1 DEF Types0, Numbers
<1>5. Position'
    <2>1. inside' => Return0xfe'
        BY <1>1, <1>2, <1>3, Zenon
    <2>2. Len(sin') <= Unserved'
        BY <1>1, <1>2, <1>3 DEF Position
    <2>3. QED
        BY <1>2, <1>3, <2>1, <2>2 DEF Position
<1>6. Outstanding'
    BY <1>1, <1>3 DEF Outstanding, OnlyLast
<1>7. Upcoming'
    BY <1>3 DEF Upcoming
<1>8. QED
    BY <1>4, <1>5, <1>6, <1>7 DEF RlibInv

\* A function returns with sin empty, and with its status if it awaits one.
LEMMA ReturnPlace ==
    ASSUME Types0, Return
    PROVE  /\ ~ inside /\ Unserved = 0
           /\ Answered \/ fn \in Posts
<1>1. /\ fn # "none" /\ fn \in Functions /\ AtPlace /\ pc \in 1..11
      /\ ~ inside /\ pc = Len(Code[fn]) + 1
    BY PlaceTypes DEF Return
<1>2. Answered \/ (fn \in Posts /\ pc = 3)
    BY <1>1 DEF AtPlace
<1>3. Unserved = 0
    BY <1>1, <1>2 DEF Unserved, Answered, Posts, Long
<1>4. QED
    BY <1>1, <1>2, <1>3

\* A return leaves the numbers and the channels alone.
LEMMA ReturnStep ==
    ASSUME RlibInv, Return
    PROVE  RlibInv'
<1>1. /\ Types0 /\ Position /\ Len(sin) <= 0
      /\ fn' = "none" /\ pc' = 1 /\ req_id' = [t \in Types |-> 0]
      /\ fits' = TRUE /\ room' = TRUE
      /\ UNCHANGED <<seq, sin, sout, inside, blocked>> /\ ~ inside
    BY ReturnPlace DEF RlibInv, Return, Position
<1>2. /\ NumbersLeft' = 0 /\ Unserved' = 0 /\ ~ Answered' /\ \A t : ~ Awaits(t)'
    BY <1>1 DEF NumbersLeft, Unserved, Answered, Awaits, Long
<1>3. Types0'
    <2>1. req_id' \in [Types -> Numbers]
        BY <1>1, RlibAssumption DEF Numbers
    <2>2. fn' \in Functions \cup {"none"} /\ pc' \in 1..11
          /\ (fn' = "none" => pc' = 1) /\ (fn' # "none" => pc' <= Len(Code[fn']) + 1)
        BY <1>1
    <2>3. fits' \in BOOLEAN /\ room' \in BOOLEAN
        BY <1>1, Zenon
    <2>4. QED
        BY <1>1, <2>1, <2>2, <2>3 DEF Types0, Numbers
<1>4. Position'
    BY <1>1, <1>2 DEF Position
<1>5. Outstanding' /\ Upcoming'
    BY <1>2 DEF Outstanding, Upcoming
<1>6. QED
    BY <1>3, <1>4, <1>5 DEF RlibInv

\* comm_write of a status, in terms of the places of sout.
LEMMA StatusPlaces ==
    ASSUME Types0, NEW n \in Numbers, sout' = Status(n)
    PROVE  /\ sout' \in Seq(1..SeqMod - 1) /\ Len(sout') <= SoutLength
           /\ Len(sout') \in Nat
           /\ \A j \in 1..Len(sout') : \/ j \in 1..Len(sout) /\ sout'[j] = sout[j]
                                       \/ j = Len(sout') /\ sout'[j] = n
<1>1. /\ sout \in Seq(1..SeqMod - 1) /\ Len(sout) <= SoutLength
      /\ SoutLength \in Nat /\ SeqMod \in Nat
    BY RlibAssumption DEF Types0
<1>2. CASE n # 0 /\ Len(sout) < SoutLength
    <2>1. sout' = Append(sout, n) /\ n \in 1..SeqMod - 1
        BY <1>1, <1>2 DEF Status, Numbers
    <2>2. QED
        BY <1>1, <1>2, <2>1
<1>3. CASE ~ (n # 0 /\ Len(sout) < SoutLength)
    <2>1. sout' = sout
        BY <1>3 DEF Status
    <2>2. QED
        BY <1>1, <2>1
<1>4. QED
    BY <1>2, <1>3

\* A status has the number of the request that was first in sin.
LEMMA ServeStep ==
    ASSUME RlibInv, Serve
    PROVE  RlibInv'
<1>1. /\ Types0 /\ Position /\ Outstanding /\ Upcoming /\ inside /\ sin # <<>>
      /\ sin' = Tail(sin) /\ sout' = Status(Head(sin).req_id)
      /\ UNCHANGED <<fn, pc, req_id, fits, seq, inside, room>>
      /\ sin \in Seq([type : Types, req_id : Numbers]) /\ Len(sin) <= SinLength
      /\ sout \in Seq(1..SeqMod - 1) /\ Len(sout) <= SoutLength
      /\ blocked \in BOOLEAN
    BY DEF RlibInv, Serve, Types0
<1>2. /\ NumbersLeft' = NumbersLeft /\ (Answered' <=> Answered)
      /\ (Return0xfe' <=> Return0xfe) /\ \A t : Awaits(t)' <=> Awaits(t)
      /\ NumbersLeft \in 0..5
    <2>1. UNCHANGED <<fn, pc>> /\ NumbersLeft \in 0..5
        BY <1>1, PlaceTypes
    <2>2. QED
        BY <2>1, PlaceStays, Zenon
<1>3. /\ sin' \in Seq([type : Types, req_id : Numbers]) /\ Len(sin') = Len(sin) - 1
      /\ Len(sin) \in Nat \ {0} /\ Head(sin) = sin[1]
      /\ \A j \in 1..Len(sin) - 1 : sin'[j] = sin[j + 1]
    BY <1>1, TailPlaces
<1>4. PICK n \in Numbers : n = sin[1].req_id
    <2>1. sin \in Seq([type : Types, req_id : Numbers]) /\ 1 \in 1..Len(sin)
        BY <1>1, <1>3
    <2>2. sin[1] \in [type : Types, req_id : Numbers]
        BY <2>1, ElementOf, Zenon
    <2>3. QED
        BY <2>2
<1>5. /\ sout' \in Seq(1..SeqMod - 1) /\ Len(sout') <= SoutLength
      /\ Len(sout') \in Nat
      /\ \A j \in 1..Len(sout') : \/ j \in 1..Len(sout) /\ sout'[j] = sout[j]
                                  \/ j = Len(sout') /\ sout'[j] = n
    <2>1. sout' = Status(n)
        BY <1>1, <1>3, <1>4
    <2>2. Types0
        BY <1>1
    <2>3. QED
        BY <1>4, <2>1, <2>2, StatusPlaces
<1>6. Types0'
    <2>1. blocked' \in BOOLEAN
        BY <1>1 DEF Serve
    <2>2. Len(sin') <= SinLength
        BY <1>1, <1>3, RlibAssumption
    <2>3. QED
        BY <1>1, <1>3, <1>5, <2>1, <2>2 DEF Types0, Numbers
<1>7. Position'
    <2>1. ~ Answered
        BY <1>1 DEF Position
    <2>2. QED
        BY <1>1, <1>2, <2>1 DEF Position
<1>8. Outstanding'
    <2>1. SUFFICES ASSUME NEW t \in Types, Awaits(t)' PROVE OnlyLast(req_id[t])'
        BY DEF Outstanding
    <2>2. PICK m : m = req_id[t] /\ OnlyLast(m)
        BY <1>1, <1>2, <2>1 DEF Outstanding
    <2>3. /\ \A j \in 1..Len(sout) : sout[j] # m
          /\ \A j \in 1..Len(sin) - 1 : sin[j].req_id # m
        BY <1>1, <2>2 DEF OnlyLast
    <2>4. CASE sin' = <<>>
        <3>1. \A j \in 1..Len(sout') - 1 : sout'[j] # m
            BY <1>5, <2>3
        <3>2. QED
            BY <1>1, <2>2, <2>4, <3>1 DEF OnlyLast
    <2>5. CASE sin' # <<>>
        <3>1. n # m
            BY <1>3, <1>4, <2>3, <2>5
        <3>2. \A j \in 1..Len(sout') : sout'[j] # m
            BY <1>5, <2>3, <3>1
        <3>3. \A j \in 1..Len(sin') - 1 : sin'[j].req_id # m
            BY <1>3, <2>3
        <3>4. QED
            BY <1>1, <1>5, <2>2, <3>2, <3>3 DEF OnlyLast
    <2>6. QED
        BY <2>4, <2>5
<1>9. Upcoming'
    <2>1. SUFFICES ASSUME NEW i \in 1..NumbersLeft
                   PROVE  /\ \A j \in 1..Len(sout') : sout'[j] # Nth(i)'
                          /\ \A j \in 1..Len(sin') : sin'[j].req_id # Nth(i)'
        BY <1>2 DEF Upcoming
    <2>2. PICK m : m = Nth(i) /\ m = Nth(i)'
        BY <1>1 DEF Nth
    <2>3. /\ \A j \in 1..Len(sout) : sout[j] # m
          /\ \A j \in 1..Len(sin) : sin[j].req_id # m
        BY <1>1, <2>2 DEF Upcoming
    <2>4. n # m
        BY <1>3, <1>4, <2>3
    <2>5. \A j \in 1..Len(sout') : sout'[j] # m
        BY <1>5, <2>3, <2>4
    <2>6. \A j \in 1..Len(sin') : sin'[j].req_id # m
        <3>1. SUFFICES ASSUME NEW j \in 1..Len(sin') PROVE sin'[j].req_id # m
            OBVIOUS
        <3>2. j \in 1..Len(sin) - 1 /\ j + 1 \in 1..Len(sin)
            BY <1>3
        <3>3. sin'[j] = sin[j + 1]
            BY <1>3, <3>2
        <3>4. QED
            BY <2>3, <3>2, <3>3
    <2>7. QED
        BY <2>2, <2>5, <2>6, Zenon
<1>10. QED
    BY <1>6, <1>7, <1>8, <1>9 DEF RlibInv

\* The scheduler returns to the task only when sin is empty.
LEMMA ResumeWakeStep ==
    ASSUME RlibInv, Resume \/ Wake \/ UNCHANGED vars
    PROVE  RlibInv'
<1>1. /\ Types0 /\ Position /\ Outstanding /\ Upcoming
      /\ UNCHANGED <<fn, pc, req_id, fits, seq, sin, sout, room>>
      /\ inside' \in BOOLEAN /\ blocked' \in BOOLEAN
      /\ inside' => inside
      /\ ~ inside' => sin = <<>> \/ ~ inside
    <2>1. CASE Resume
        BY <2>1 DEF RlibInv, Types0, Resume
    <2>2. CASE Wake
        BY <2>2 DEF RlibInv, Types0, Wake
    <2>3. CASE UNCHANGED vars
        BY <2>3 DEF RlibInv, Types0, vars
    <2>4. QED
        BY <2>1, <2>2, <2>3
<1>2. /\ NumbersLeft' = NumbersLeft /\ Unserved' = Unserved /\ Unserved \in 0..4
      /\ (Answered' <=> Answered) /\ (Return0xfe' <=> Return0xfe)
      /\ \A t : Awaits(t)' <=> Awaits(t)
    <2>1. UNCHANGED <<fn, pc>> /\ Unserved \in 0..4
        BY <1>1, PlaceTypes
    <2>2. QED
        BY <2>1, PlaceStays, Zenon
<1>3. Types0'
    BY <1>1 DEF Types0, Numbers
<1>4. Position'
    BY <1>1, <1>2 DEF Position
<1>5. Outstanding'
    BY <1>1, <1>2 DEF Outstanding, OnlyLast
<1>6. Upcoming'
    <2>1. \A i : Nth(i)' = Nth(i)
        BY <1>1 DEF Nth
    <2>2. QED
        BY <1>1, <1>2, <2>1 DEF Upcoming
<1>7. QED
    BY <1>3, <1>4, <1>5, <1>6 DEF RlibInv

\* Every step keeps the invariant.
LEMMA NextStep ==
    ASSUME RlibInv, [Next]_vars
    PROVE  RlibInv'
<1>1. CASE \E f \in Functions : Call(f)
    BY <1>1, CallStep
<1>2. CASE Statement
    BY <1>2, SendStep, NumberStep, WriteStep, ProcessStep, ReadOwnStep, ReadOtherStep,
       ReadNothingStep, ReturnStep DEF Statement
<1>3. CASE Serve
    BY <1>3, ServeStep
<1>4. CASE Resume \/ Wake \/ UNCHANGED vars
    BY <1>4, ResumeWakeStep
<1>5. QED
    BY <1>1, <1>2, <1>3, <1>4 DEF Next

\* Whatever calls a task makes, the numbers that are still to come are in no
\* request and no status, and the status that a function waits for is the last.
THEOREM Invariance == Spec => []RlibInv
<1>1. Init => RlibInv
    BY InitHolds
<1>2. RlibInv /\ [Next]_vars => RlibInv'
    BY NextStep
<1>3. QED
    BY <1>1, <1>2, PTL DEF Spec

----------------------------------------------------------------------------
(* The properties. *)

\* Types: the sequence number and the channels stay within their bounds.
THEOREM TypeCorrect == Spec => []TypeOK
<1>1. RlibInv => TypeOK
    <2>1. SUFFICES ASSUME Types0 PROVE TypeOK
        BY DEF RlibInv
    <2>2. \A i \in 1..Len(sin) : sin[i] \in [type : Types, req_id : 0..SeqMod - 1]
        BY <2>1, ElementOf, Zenon DEF Types0, Numbers
    <2>3. \A i \in 1..Len(sout) : sout[i] \in 1..SeqMod - 1
        BY <2>1, ElementOf, Zenon DEF Types0
    <2>4. QED
        BY <2>1, <2>2, <2>3 DEF Types0, TypeOK, Numbers
<1>2. QED
    BY <1>1, Invariance, PTL

\* RequestsFit: a function has at most three requests in sin when it writes
\* another, so that comm_write, whose result rlib ignores, never drops one.
THEOREM EveryRequestFits == Spec => []RequestsFit
<1>1. RlibInv => RequestsFit
    <2>1. SUFFICES ASSUME RlibInv, At("send") \/ At("write") PROVE Len(sin) < SinLength
        BY DEF RequestsFit
    <2>2. /\ Types0 /\ Position /\ AtPlace /\ ~ inside /\ fn # "none"
          /\ SinLength \in Nat /\ SinLength >= 4
          /\ Len(sin) \in Nat /\ Len(sin) <= Unserved
        BY <2>1, PlaceTypes, RlibAssumption DEF RlibInv, At, Position, Types0
    <2>3. Unserved \in 0..3
        BY <2>1, <2>2 DEF AtPlace, Unserved, Long
    <2>4. QED
        BY <2>2, <2>3
<1>2. QED
    BY <1>1, Invariance, PTL

\* DrainedOnReturn: a function that waits for its status leaves none unread,
\* also of the calls of rlib_ready_task, rlib_wait and rlib_wake before it.
THEOREM NothingLeftUnread == Spec => DrainedOnReturn
<1>1. RlibInv /\ [Next]_vars
        => [fn # "none" /\ fn' = "none" /\ fn \notin Posts => sout' = <<>>]_vars
    <2>1. SUFFICES ASSUME RlibInv, Next, fn # "none", fn' = "none", fn \notin Posts
                   PROVE  sout' = <<>>
        OBVIOUS
    <2>2. Return
        BY <2>1, FunctionNames DEF Next, Statement, Call, Send, Number, Write, Process, ReadOwn,
           ReadOther, ReadNothing, Serve, Resume, Wake
    <2>3. Answered
        BY <2>1, <2>2, ReturnPlace DEF RlibInv
    <2>4. QED
        BY <2>1, <2>2, <2>3 DEF RlibInv, Position, Return
<1>2. QED
    BY <1>1, Invariance, PTL DEF Spec, DrainedOnReturn
============================================================================
