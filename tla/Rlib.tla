-------------------------------- MODULE Rlib --------------------------------
(***************************************************************************)
(* The requests of rlib as the task that makes them sees them: functions   *)
(* that write requests to sin, run the scheduler with int 0xfe, and either *)
(* read sout until the status of their own request comes, or return and    *)
(* leave it there for a later call to read past.                           *)
(*                                                                         *)
(* A function is the list of its statements.  rlib_set_local_task contains *)
(* a call of rlib_anonymous, whose statements are part of its list.  The   *)
(* scheduler is Sched seen from one task: it serves sin while the task is  *)
(* in int 0xfe, and the task goes on when sin is empty and it is not       *)
(* blocked.  rlib_reap_self does not return; it belongs to Sched.          *)
(***************************************************************************)
EXTENDS Integers, Sequences

CONSTANTS SinLength,   \* requests that fit in sin
          SoutLength,  \* statuses that fit in sout
          SeqMod       \* values of the sequence number: 2^64

\* The numbers of one round suffice for the statuses in sout and those of one
\* more function.
ASSUME RlibAssumption ==
    /\ SinLength \in Nat /\ SinLength >= 4
    /\ SoutLength \in Nat \ {0}
    /\ SeqMod \in Nat /\ SeqMod > SoutLength + 6

VARIABLES
    fn,       \* the function that runs, or "none"
    pc,       \* its next statement
    req_id,   \* in.req_id, for each type of request that the function makes
    fits,     \* whether "length" says that a status fits in "out"
    seq,      \* the sequence number in the task-local storage
    sin, sout,
    inside,   \* the task has executed int 0xfe and is not back
    blocked,
    room      \* history: when the function was called, sout had room for all
              \* the statuses that come before the function reads, and "length"
              \* was set

vars == <<fn, pc, req_id, fits, seq, sin, sout, inside, blocked, room>>

Types == {"spawn", "set_state", "wait", "wake", "anonymous", "mirror"}

Do(what, t) == [do |-> what, type |-> t]

\* "send" numbers a request and writes it; "read" and "poll" loop until the
\* status with the request's number is read, "poll" with int 0xfe in the loop.
Anonymous == <<Do("send", "anonymous"), Do("process", "none"), Do("poll", "anonymous")>>

\* Mutant of Code: rlib_ready_task leaves its request for a later int 0xfe.
CodeUnprocessed ==
    [create_task    |-> <<Do("send", "spawn"), Do("process", "none"), Do("read", "spawn")>>,
     set_local_task |->
        <<Do("send", "set_state"), Do("send", "set_state"), Do("send", "set_state"),
          Do("number", "set_state")>>
        \o Anonymous
        \o <<Do("write", "set_state"), Do("process", "none"), Do("read", "set_state")>>,
     ready_task     |-> <<Do("send", "set_state")>>,
     wait           |-> <<Do("send", "wait"), Do("process", "none")>>,
     wake           |-> <<Do("send", "wake"), Do("process", "none")>>,
     anonymous      |-> Anonymous,
     copy           |-> <<Do("send", "mirror"), Do("poll", "mirror")>>]

Code ==
    [create_task    |-> <<Do("send", "spawn"), Do("process", "none"), Do("read", "spawn")>>,
     set_local_task |->
        <<Do("send", "set_state"), Do("send", "set_state"), Do("send", "set_state"),
          Do("number", "set_state")>>
        \o Anonymous
        \o <<Do("write", "set_state"), Do("process", "none"), Do("read", "set_state")>>,
     ready_task     |-> <<Do("send", "set_state"), Do("process", "none")>>,
     wait           |-> <<Do("send", "wait"), Do("process", "none")>>,
     wake           |-> <<Do("send", "wake"), Do("process", "none")>>,
     anonymous      |-> Anonymous,
     copy           |-> <<Do("send", "mirror"), Do("poll", "mirror")>>]

Functions == DOMAIN Code

\* The functions that do not read the status of their request.
Posts == {"ready_task", "wait", "wake"}

\* The statuses that come before the function first reads sout.
Before(f) == IF f = "set_local_task" THEN 4 ELSE 1

Init ==
    /\ fn = "none" /\ pc = 1
    /\ req_id = [t \in Types |-> 0]
    /\ fits = TRUE
    /\ seq = 0
    /\ sin = <<>> /\ sout = <<>>
    /\ inside = FALSE /\ blocked = FALSE
    /\ room = TRUE

----------------------------------------------------------------------------
\* Mutants of sequence: 0 is not left out; the number stays the same.
SequenceWithZero == (seq + 1) % SeqMod
SequenceConstant == 1

\* rlib_sequence: 0 is left out, since it asks for no status.
sequence == IF (seq + 1) % SeqMod = 0 THEN 1 ELSE (seq + 1) % SeqMod

\* comm_write: a request for which there is no room is dropped.
Written(t, n) ==
    IF Len(sin) < SinLength THEN Append(sin, [type |-> t, req_id |-> n]) ELSE sin

\* Bound: a status is read before the sequence number comes round to it, which
\* takes a task that makes 2^64 requests with sout full.
Fresh == \A i \in 1..6 : \A j \in 1..Len(sout) : sout[j] # (seq + i) % SeqMod

\* A call; rlib_copy does not set "length" before it first uses it.
Call(f) ==
    /\ fn = "none" /\ Fresh
    /\ fn' = f /\ pc' = 1
    /\ fits' \in IF f = "copy" THEN BOOLEAN ELSE {TRUE}
    /\ room' = (fits' /\ Len(sout) + Before(f) <= SoutLength)
    /\ req_id' = [t \in Types |-> 0]
    /\ UNCHANGED <<seq, sin, sout, inside, blocked>>

\* The next statement of the function is this one.
At(what) ==
    fn # "none" /\ ~inside /\ pc <= Len(Code[fn]) /\ Code[fn][pc].do = what

Type == Code[fn][pc].type

Send ==
    /\ At("send")
    /\ seq' = sequence
    /\ req_id' = [req_id EXCEPT ![Type] = sequence]
    /\ sin' = Written(Type, sequence)
    /\ pc' = pc + 1
    /\ UNCHANGED <<fn, fits, sout, inside, blocked, room>>

Number ==
    /\ At("number")
    /\ seq' = sequence
    /\ req_id' = [req_id EXCEPT ![Type] = sequence]
    /\ pc' = pc + 1
    /\ UNCHANGED <<fn, fits, sin, sout, inside, blocked, room>>

Write ==
    /\ At("write")
    /\ sin' = Written(Type, req_id[Type])
    /\ pc' = pc + 1
    /\ UNCHANGED <<fn, req_id, fits, seq, sout, inside, blocked, room>>

\* int 0xfe
Process ==
    /\ At("process")
    /\ inside' = TRUE
    /\ pc' = pc + 1
    /\ UNCHANGED <<fn, req_id, fits, seq, sin, sout, blocked, room>>

Reading == At("read") \/ At("poll")

\* comm_read succeeds, and the status is that of the function's request.
ReadOwn ==
    /\ Reading
    /\ sout # <<>> /\ fits /\ Head(sout) = req_id[Type]
    /\ sout' = Tail(sout)
    /\ pc' = pc + 1
    /\ UNCHANGED <<fn, req_id, fits, seq, sin, inside, blocked, room>>

\* It is that of another request; or comm_read fails, having thrown away a
\* status for which "length" was too small and set "length" to its size.
ReadOther ==
    /\ Reading
    /\ sout # <<>> /\ (~fits \/ Head(sout) # req_id[Type])
    /\ sout' = Tail(sout)
    /\ fits' = TRUE
    /\ inside' = At("poll")
    /\ UNCHANGED <<fn, pc, req_id, seq, sin, blocked, room>>

\* There is nothing to read.
ReadNothing ==
    /\ Reading
    /\ sout = <<>>
    /\ inside' = At("poll")
    /\ UNCHANGED <<fn, pc, req_id, fits, seq, sin, sout, blocked, room>>

Return ==
    /\ fn # "none" /\ ~inside /\ pc = Len(Code[fn]) + 1
    /\ fn' = "none" /\ pc' = 1
    /\ req_id' = [t \in Types |-> 0] /\ fits' = TRUE /\ room' = TRUE
    /\ UNCHANGED <<seq, sin, sout, inside, blocked>>

----------------------------------------------------------------------------
(* The scheduler, for this task. *)

\* Mutant of Status: the room in sout is not looked at.
StatusUnchecked(n) == Append(sout, n)

\* comm_write of a status; it is dropped when there is no room, and none is
\* written for the number 0.
Status(n) == IF n # 0 /\ Len(sout) < SoutLength THEN Append(sout, n) ELSE sout

\* process_for; a WAIT blocks the task if the word has the value it gives.
Serve ==
    /\ inside /\ sin # <<>>
    /\ sin' = Tail(sin)
    /\ sout' = Status(Head(sin).req_id)
    /\ blocked' \in IF Head(sin).type = "wait" THEN {blocked, TRUE} ELSE {blocked}
    /\ UNCHANGED <<fn, pc, req_id, fits, seq, inside, room>>

\* process_queue goes back to the task.
Resume ==
    /\ inside /\ sin = <<>> /\ ~blocked
    /\ inside' = FALSE
    /\ UNCHANGED <<fn, pc, req_id, fits, seq, sin, sout, blocked, room>>

\* A WAKE of another task, or the task's page is released.
Wake ==
    /\ blocked /\ inside /\ sin = <<>>
    /\ blocked' = FALSE
    /\ UNCHANGED <<fn, pc, req_id, fits, seq, sin, sout, inside, room>>

----------------------------------------------------------------------------
Statement ==
    \/ Send \/ Number \/ Write \/ Process
    \/ ReadOwn \/ ReadOther \/ ReadNothing \/ Return

Next ==
    \/ \E f \in Functions : Call(f)
    \/ Statement \/ Serve \/ Resume \/ Wake

Spec == Init /\ [][Next]_vars

\* The processor executes the function and the scheduler's code; nobody need
\* call a function or wake the task.
FairSpec == Spec /\ WF_vars(Statement \/ Serve \/ Resume)
----------------------------------------------------------------------------
(* Properties. *)

TypeOK ==
    /\ fn \in Functions \cup {"none"}
    /\ pc \in 1..11
    /\ req_id \in [Types -> 0..SeqMod - 1]
    /\ seq \in 0..SeqMod - 1
    /\ \A i \in 1..Len(sin) : sin[i] \in [type : Types, req_id : 0..SeqMod - 1]
    /\ \A i \in 1..Len(sout) : sout[i] \in 1..SeqMod - 1
    /\ Len(sin) <= SinLength /\ Len(sout) <= SoutLength
    /\ fits \in BOOLEAN /\ inside \in BOOLEAN /\ blocked \in BOOLEAN /\ room \in BOOLEAN

\* No request is ever dropped, though no function looks at what comm_write
\* returns: sin always has room by the time the next request is written, also
\* in rlib_set_local_task, which writes four before the first int 0xfe.
RequestsFit == At("send") \/ At("write") => Len(sin) < SinLength

\* A function that waits for its status accepts no older one: when it returns,
\* nothing is left unread, also of the functions that were called before it
\* and did not read theirs, and after the sequence number has wrapped.
DrainedOnReturn ==
    [][fn # "none" /\ fn' = "none" /\ fn \notin Posts => sout' = <<>>]_vars

\* A function returns, unless it is blocked for ever, if sout had room for its
\* statuses when it was called (and rlib_copy found a "length" that is large
\* enough): neither stale statuses nor the order of numbers in
\* rlib_set_local_task make a read loop miss its status.
CallReturns == fn # "none" /\ room ~> fn = "none" \/ blocked
============================================================================
