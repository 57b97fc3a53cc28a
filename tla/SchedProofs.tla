---------------------------- MODULE SchedProofs ----------------------------
(***************************************************************************)
(* Theorems about the dispatcher of Sched, for every number of slots,      *)
(* tasks and addresses: no blocked task runs, and no runnable task is      *)
(* passed over.                                                            *)
(***************************************************************************)
EXTENDS Sched, WellFoundedInduction, TLAPS

\* A nonempty set of naturals has a least element.
LEMMA LeastNatural ==
    ASSUME NEW T, T \subseteq Nat, T # {}
    PROVE  \E x \in T : \A y \in T : x <= y
<1> DEFINE R == OpToRel(<, Nat)
<1>1. IsWellFoundedOn(R, Nat)
    BY NatLessThanWellFounded
<1>2. \A x, y \in Nat : x < y => <<x, y>> \in R
    BY DEF OpToRel
<1> HIDE DEF R
<1>3. PICK x \in T : \A y \in T : <<y, x>> \notin R
    BY <1>1, WFMin
<1>4. ASSUME NEW y \in T PROVE x <= y
    <2>1. ~ (y < x)
        BY <1>2, <1>3
    <2>2. x \in Nat /\ y \in Nat
        OBVIOUS
    <2>3. QED
        BY <2>1, <2>2
<1>5. QED
    BY <1>4

\* The distance that choose_next's search goes, without the modulus.
LEMMA AheadValue ==
    ASSUME NEW c \in Slots, NEW s \in Slots
    PROVE  /\ Ahead(c, s) = IF s >= c THEN s - c ELSE s - c + NumSlots
           /\ Ahead(c, s) \in 0..NumSlots - 1
<1>1. NumSlots \in Nat /\ NumSlots >= 2 /\ c \in 1..NumSlots /\ s \in 1..NumSlots
    BY SchedAssumption DEF Slots
<1>2. CASE s >= c
    <2>1. s - c + NumSlots = (s - c) + NumSlots * 1 /\ s - c \in 0..NumSlots - 1
        BY <1>1, <1>2
    <2>2. (s - c + NumSlots) % NumSlots = s - c
        BY <1>1, <2>1
    <2>3. QED
        BY <1>1, <1>2, <2>2 DEF Ahead
<1>3. CASE ~ (s >= c)
    <2>1. s - c + NumSlots \in 0..NumSlots - 1
        BY <1>1, <1>3
    <2>2. (s - c + NumSlots) % NumSlots = s - c + NumSlots
        BY <1>1, <2>1
    <2>3. QED
        BY <1>1, <1>3, <2>1, <2>2 DEF Ahead
<1>4. QED
    BY <1>2, <1>3

\* What choose_next returns: the nearest runnable slot after c, or, when no
\* other slot is runnable, c itself or nothing.
IsNext(n, st, c) ==
    \/ /\ n \in Runnable(st) \ {c}
       /\ \A t \in Runnable(st) \ {c} : Ahead(c, n) <= Ahead(c, t)
    \/ /\ Runnable(st) \ {c} = {}
       /\ n = IF "blocked" \in st[c] THEN 0 ELSE c

\* choose_next returns the nearest runnable slot after c; with none, slot 0 if c is
\* blocked, otherwise c.
LEMMA NextFound ==
    ASSUME NEW st, NEW c \in Slots
    PROVE  IsNext(choose_next(st, c), st, c)
<1> DEFINE others == Runnable(st) \ {c}
<1>1. CASE others = {}
    BY <1>1 DEF choose_next, IsNext
<1>2. CASE others # {}
    <2> DEFINE far == {Ahead(c, s) : s \in others}
    <2>1. far \subseteq Nat /\ far # {}
        BY <1>2, AheadValue, SchedAssumption DEF Runnable
    <2> HIDE DEF far
    <2>2. PICK x \in far : \A y \in far : x <= y
        BY <2>1, LeastNatural
    <2>3. \E s \in others : \A t \in others : Ahead(c, s) <= Ahead(c, t)
        BY <2>2 DEF far
    <2>4. choose_next(st, c) = CHOOSE s \in others : \A t \in others : Ahead(c, s) <= Ahead(c, t)
        BY <1>2 DEF choose_next
    <2> HIDE DEF others
    <2>5. /\ choose_next(st, c) \in others
          /\ \A t \in others : Ahead(c, choose_next(st, c)) <= Ahead(c, t)
        BY <2>3, <2>4
    <2>6. QED
        BY <2>5 DEF IsNext, others
<1>3. QED
    BY <1>1, <1>2

----------------------------------------------------------------------------
(* The inductive invariant. *)

\* Who runs: a slot, and the scheduler's own while it is in listen().
Running ==
    /\ mode \in {"listen", "serve", "process", "user"} => cur \in Slots
    /\ mode \in {"listen", "serve"} => cur = 1

\* The turns a slot has been passed over, and the slots that the search must
\* still cross before it comes to this one, are never more than there are.
Turns ==
    /\ passed \in [Slots -> Nat]
    /\ NobodySkipped
    /\ cur \in Slots =>
          /\ passed[cur] = 0
          /\ \A s \in Slots : passed[s] = 0 \/ passed[s] + Ahead(cur, s) <= NumSlots

DispatchInv == Running /\ NoBlockedRuns /\ Turns

\* The states that boot leaves satisfy the invariant.
LEMMA DispatchInit == Init => DispatchInv
BY SchedAssumption DEF Init, Pass, DispatchInv, Running, NoBlockedRuns, Turns, NobodySkipped, Slots

\* The dispatcher's step, whoever takes it.
LEMMA DispatchTransfer ==
    ASSUME DispatchInv, cur \in Slots, state' = state, NEW n, Transfer(n),
           IsNext(n, state, cur) \/ (n = cur /\ (n = 1 \/ "blocked" \notin state[cur]))
    PROVE  DispatchInv'
<1>0. NumSlots \in Nat /\ NumSlots >= 2 /\ Slots = 1..NumSlots
    BY SchedAssumption DEF Slots
<1>1. n = 0 \/ (n \in Slots /\ (n = 1 \/ "blocked" \notin state[n]))
    BY DEF IsNext, Runnable
<1>2. /\ cur' = n
      /\ mode' = IF n = 0 \/ ~cr3[n] THEN "reset" ELSE IF n = 1 THEN Pass(1) ELSE "user"
      /\ passed' = [t \in Slots |-> IF t = n \/ t \notin Runnable(state) THEN 0
                                    ELSE IF n = cur THEN passed[t] ELSE passed[t] + 1]
    BY DEF Transfer
<1>3. Running'
    BY <1>0, <1>1, <1>2 DEF Running, Pass
<1>4. NoBlockedRuns'
    BY <1>1, <1>2 DEF NoBlockedRuns, Pass
<1>5. Turns'
    <2>1. /\ passed \in [Slots -> Nat] /\ \A t \in Slots : passed[t] < NumSlots
          /\ passed[cur] = 0
          /\ \A s \in Slots : passed[s] = 0 \/ passed[s] + Ahead(cur, s) <= NumSlots
        BY DEF DispatchInv, Turns, NobodySkipped
    <2>2. passed' \in [Slots -> Nat]
        BY <1>2, <2>1
    <2>3. ASSUME NEW t \in Slots
          PROVE  /\ passed'[t] < NumSlots
                 /\ n \in Slots => passed'[t] = 0 \/ passed'[t] + Ahead(n, t) <= NumSlots
        <3>1. CASE t = n \/ t \notin Runnable(state)
            BY <1>0, <1>2, <3>1
        <3>2. CASE t # n /\ t \in Runnable(state) /\ n = cur
            BY <1>2, <2>1, <3>2
        <3>3. CASE t # n /\ t \in Runnable(state) /\ n # cur
            <4>1. passed'[t] = passed[t] + 1 /\ passed[t] \in Nat
                BY <1>2, <2>1, <3>3
            <4>2. IsNext(n, state, cur)
                BY <3>3
            <4>3. CASE t = cur
                <5>1. n \in Slots
                    BY <4>2, <4>3, <3>3, <1>1 DEF IsNext, Runnable
                <5>2. Ahead(n, t) \in 0..NumSlots - 1
                    BY <5>1, AheadValue
                <5>3. QED
                    BY <1>0, <2>1, <4>1, <4>3, <5>2
            <4>4. CASE t # cur
                <5>1. n \in Slots /\ Ahead(cur, n) <= Ahead(cur, t)
                    BY <4>2, <4>4, <3>3 DEF IsNext, Runnable
                <5>2. /\ Ahead(cur, n) = IF n >= cur THEN n - cur ELSE n - cur + NumSlots
                      /\ Ahead(cur, t) = IF t >= cur THEN t - cur ELSE t - cur + NumSlots
                      /\ Ahead(n, t) = IF t >= n THEN t - n ELSE t - n + NumSlots
                    BY <5>1, AheadValue
                <5>3. /\ Ahead(n, t) + 1 <= Ahead(cur, t) /\ Ahead(n, t) \in Nat
                      /\ Ahead(n, t) >= 1 /\ Ahead(cur, t) \in 0..NumSlots - 1
                    BY <1>0, <3>3, <5>1, <5>2
                <5>4. passed[t] = 0 \/ passed[t] + Ahead(cur, t) <= NumSlots
                    BY <2>1
                <5>5. passed'[t] + Ahead(n, t) <= NumSlots
                    BY <1>0, <4>1, <5>3, <5>4
                <5>6. QED
                    BY <1>0, <4>1, <5>3, <5>5
            <4>5. QED
                BY <4>3, <4>4
        <3>4. QED
            BY <3>1, <3>2, <3>3
    <2>4. n \in Slots => passed'[n] = 0
        BY <1>2
    <2>5. QED
        BY <1>2, <2>2, <2>3, <2>4 DEF Turns, NobodySkipped
<1>6. QED
    BY <1>3, <1>4, <1>5 DEF DispatchInv

\* A step that leaves the processor where it is, and the state of the tasks
\* too if a task has it.
LEMMA DispatchQuiet ==
    ASSUME DispatchInv, cur' = cur, passed' = passed,
           \/ mode' = mode /\ (mode = "user" => state' = state)
           \/ {mode, mode'} \subseteq {"listen", "serve"}
           \/ mode' = "process" /\ mode = "user"
           \/ mode' \notin {"listen", "serve", "process", "user"}
    PROVE  DispatchInv'
<1>1. Running' /\ NoBlockedRuns'
    BY DEF DispatchInv, Running, NoBlockedRuns
<1>2. Turns'
    BY DEF DispatchInv, Turns, NobodySkipped, Ahead
<1>3. QED
    BY <1>1, <1>2 DEF DispatchInv

\* A request is served where the processor already is.
LEMMA RequestStep ==
    ASSUME DispatchInv, NEW r \in Request,
           \/ DoSpawn(r) \/ DoSpawnFull(r)
           \/ DoSetState(r)
           \/ DoWait(r) \/ DoWaitReaped(r) \/ DoWaitChanged(r)
           \/ DoWake(r) \/ DoWakeReaped(r) \/ DoWakeLoose(r)
           \/ DoReap(r)
           \/ DoForward(r) \/ DoSetName(r) \/ DoGetNamed(r)
    PROVE  DispatchInv'
<1>1. Processing => mode # "user"
    BY DEF Processing
<1>2. CASE DoSpawn(r)
    <2>1. Processing /\ mode' = mode /\ cur' = cur /\ passed' = passed
        BY <1>2 DEF DoSpawn, Take
    <2>2. QED
        BY <1>1, <2>1, DispatchQuiet
<1>3. CASE DoSpawnFull(r) \/ DoWaitReaped(r) \/ DoWakeReaped(r) \/ DoWakeLoose(r)
    <2>1. mode' \in {"nullref", "overflow", "corrupt"} /\ cur' = cur /\ passed' = passed
        BY <1>3 DEF DoSpawnFull, DoWaitReaped, DoWakeReaped, DoWakeLoose, Stop
    <2>2. QED
        BY <2>1, DispatchQuiet
<1>4. CASE DoSetState(r) \/ DoWait(r) \/ DoWaitChanged(r) \/ DoWake(r) \/ DoReap(r)
          \/ DoForward(r) \/ DoSetName(r) \/ DoGetNamed(r)
    <2>1. Processing /\ mode' = mode /\ cur' = cur /\ passed' = passed
        BY <1>4 DEF DoSetState, DoWait, DoWaitChanged, DoWake, DoReap, DoForward,
               DoSetName, DoGetNamed, Take
    <2>2. QED
        BY <1>1, <2>1, DispatchQuiet
<1>5. QED
    BY <1>2, <1>3, <1>4

\* process() has nothing more to do, and listen() walks on or yields.
LEMMA KernelStep ==
    ASSUME DispatchInv, ReadFreed \/ ProcessDone \/ ListenNext \/ ListenAgain \/ ListenYield
    PROVE  DispatchInv'
<1>1. CASE ReadFreed
    <2>1. mode' = "corrupt" /\ cur' = cur /\ passed' = passed
        BY <1>1 DEF ReadFreed, Stop
    <2>2. QED
        BY <2>1, DispatchQuiet
<1>2. CASE ProcessDone
    <2>1. cur \in Slots /\ state' = state
        BY <1>2 DEF ProcessDone, memory, DispatchInv, Running
    <2> DEFINE n == IF "blocked" \in state[cur] THEN choose_next(state, cur) ELSE cur
    <2>2. Transfer(n)
        BY <1>2 DEF ProcessDone, AfterProcess
    <2>3. IsNext(n, state, cur) \/ (n = cur /\ "blocked" \notin state[cur])
        BY <2>1, NextFound
    <2> HIDE DEF n
    <2>4. QED
        BY <2>1, <2>2, <2>3, DispatchTransfer
<1>3. CASE ListenNext \/ ListenAgain
    <2>1. {mode, mode'} \subseteq {"listen", "serve"} /\ cur' = cur /\ passed' = passed
        BY <1>3 DEF ListenNext, ListenAgain, Pass
    <2>2. QED
        BY <2>1, DispatchQuiet
<1>4. CASE ListenYield
    <2>1. cur = 1 /\ cur \in Slots /\ state' = state
        BY <1>4 DEF ListenYield, memory, DispatchInv, Running
    <2> DEFINE n == IF "runnable" \in state[cur] THEN choose_next(state, cur) ELSE cur
    <2>2. Transfer(n)
        BY <1>4, <2>1 DEF ListenYield, YieldFrom
    <2>3. IsNext(n, state, cur) \/ (n = cur /\ n = 1)
        BY <2>1, NextFound
    <2> HIDE DEF n
    <2>4. QED
        BY <2>1, <2>2, <2>3, DispatchTransfer
<1>5. QED
    BY <1>1, <1>2, <1>3, <1>4

\* A user task's step.
LEMMA TaskStep ==
    ASSUME DispatchInv, UserStep
    PROVE  DispatchInv'
<1>1. PICK t \in Ids :
          \/ \E r \in Request : UserRequest(t, r)
          \/ UserReply(t) \/ UserMessage(t)
          \/ \E a \in Addrs, w \in Words : UserStore(t, a, w)
          \/ UserProcess(t) \/ UserYield(t)
    BY DEF UserStep
<1>2. CASE \/ \E r \in Request : UserRequest(t, r)
           \/ UserReply(t) \/ UserMessage(t)
           \/ \E a \in Addrs, w \in Words : UserStore(t, a, w)
    <2>1. state' = state /\ mode' = mode /\ cur' = cur /\ passed' = passed
        BY <1>2 DEF UserRequest, UserReply, UserMessage, UserStore
    <2>2. QED
        BY <2>1, DispatchQuiet
<1>3. CASE UserProcess(t)
    <2>1. mode = "user" /\ mode' = "process" /\ cur' = cur /\ passed' = passed
        BY <1>3 DEF UserProcess, User
    <2>2. QED
        BY <2>1, DispatchQuiet
<1>4. CASE UserYield(t)
    <2>1. cur \in Slots /\ state' = state /\ "blocked" \notin state[cur]
        BY <1>4 DEF UserYield, User, memory, DispatchInv, Running, NoBlockedRuns
    <2> DEFINE n == IF "runnable" \in state[cur] THEN choose_next(state, cur) ELSE cur
    <2>2. Transfer(n)
        BY <1>4 DEF UserYield, YieldFrom
    <2>3. IsNext(n, state, cur) \/ (n = cur /\ "blocked" \notin state[cur])
        BY <2>1, NextFound
    <2> HIDE DEF n
    <2>4. QED
        BY <2>1, <2>2, <2>3, DispatchTransfer
<1>5. QED
    BY <1>1, <1>2, <1>3, <1>4

\* Every step keeps the invariant, those in which a task changes a state included.
LEMMA DispatchStep == DispatchInv /\ [Next]_vars => DispatchInv'
<1> SUFFICES ASSUME DispatchInv, [Next]_vars
             PROVE  DispatchInv'
    OBVIOUS
<1>1. CASE DoRequest
    BY <1>1, RequestStep DEF DoRequest
<1>2. CASE ReadFreed \/ ProcessDone \/ ListenNext \/ ListenAgain \/ ListenYield
    BY <1>2, KernelStep
<1>3. CASE UserStep
    BY <1>3, TaskStep
<1>4. CASE Stopped \/ UNCHANGED vars
    <2>1. state' = state /\ mode' = mode /\ cur' = cur /\ passed' = passed
        BY <1>4 DEF Stopped, vars
    <2>2. QED
        BY <2>1, DispatchQuiet
<1>5. QED
    BY <1>1, <1>2, <1>3, <1>4 DEF Next, Kernel

----------------------------------------------------------------------------

\* The invariant of the dispatcher holds in every reachable state.
THEOREM DispatchInvariance == Spec => []DispatchInv
<1>1. QED
    BY DispatchInit, DispatchStep, PTL DEF Spec

\* process_queue, change_task and listen() never give the processor to a task
\* that a WAIT has blocked, however tasks interleave, spawn, wake and reap.
THEOREM BlockedNeverRuns == Spec => []NoBlockedRuns
<1>1. DispatchInv => NoBlockedRuns
    BY DEF DispatchInv
<1>2. QED
    BY <1>1, DispatchInvariance, PTL

\* choose_next passes over no runnable task more often than there are other
\* slots, for any number of slots.
THEOREM RoundRobin == Spec => []NobodySkipped
<1>1. DispatchInv => NobodySkipped
    BY DEF DispatchInv, Turns
<1>2. QED
    BY <1>1, DispatchInvariance, PTL
============================================================================
