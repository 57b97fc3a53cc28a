------------------------------- MODULE KSynch -------------------------------
(***************************************************************************)
(* The spinlock and the counting semaphore of klib/synch.c, used by the    *)
(* ACPI layer of the hardware task (kernel/hw/osl.c), interleaved at the   *)
(* instructions that touch shared memory or the interrupt flag.            *)
(*                                                                         *)
(* A process is whatever may run the code at the same time as another: a   *)
(* processor, or a task that an interrupt can preempt.                     *)
(***************************************************************************)
EXTENDS Integers, FiniteSets

CONSTANTS Procs,
          Amounts,      \* the values of "by" in the calls
          InitialUnits, \* argument of synch_initsemaphore
          MaxGiven,     \* bound of the model: no increment once this many
                        \* units were given
          Word          \* 2^64 in the code: the range of semaphore_t.value

ASSUME KSynchAssumption ==
    /\ Amounts \subseteq Nat \ {0}
    /\ InitialUnits \in Nat
    /\ MaxGiven \in Nat
    /\ Word \in Nat \ {0}

VARIABLES lock,      \* spinlock_t.value of accesslock
          intrflag,  \* spinlock_t.intrflag, as the interrupt bit it holds
          value,     \* semaphore_t.value
          ifl,       \* the interrupt flag of each process
          pc,        \* the next instruction of each process
          op,        \* the call it is in, "inc" or "dec"
          by,        \* the argument of that call
          reg,       \* the register that value is updated in
          failed,    \* the last synch_semaphoretrydec returned 1
          got,       \* history: the units the current call has taken
          given,     \* history: the units all the calls have added
          taken      \* history: the units all the calls have taken

vars == <<lock, intrflag, value, ifl, pc, op, by, reg, failed, got, given, taken>>

Ops == {"inc", "dec"}

Labels == {"out", "save", "cli", "spin", "check", "load", "store", "or", "release",
           "yield"}

\* Between the successful cmpxchg and the store of 0.
Critical == {"check", "load", "store", "or", "release"}

Goto(p, label) == pc' = [pc EXCEPT ![p] = label]

Init ==
    /\ lock = 0 /\ intrflag = FALSE
    /\ value = InitialUnits
    /\ ifl \in [Procs -> BOOLEAN]
    /\ pc = [p \in Procs |-> "out"]
    /\ op = [p \in Procs |-> "inc"]
    /\ by = [p \in Procs |-> 0]
    /\ reg = [p \in Procs |-> 0]
    /\ failed = [p \in Procs |-> FALSE]
    /\ got = [p \in Procs |-> 0]
    /\ given = 0 /\ taken = 0

----------------------------------------------------------------------------
(* Calls. *)

CallInc(p, n) ==
    /\ pc[p] = "out" /\ given + n <= MaxGiven
    /\ op' = [op EXCEPT ![p] = "inc"]
    /\ by' = [by EXCEPT ![p] = n]
    /\ got' = [got EXCEPT ![p] = 0]
    /\ Goto(p, "save")
    /\ UNCHANGED <<lock, intrflag, value, ifl, reg, failed, given, taken>>

CallDec(p, n) ==
    /\ pc[p] = "out"
    /\ op' = [op EXCEPT ![p] = "dec"]
    /\ by' = [by EXCEPT ![p] = n]
    /\ got' = [got EXCEPT ![p] = 0]
    /\ Goto(p, "save")
    /\ UNCHANGED <<lock, intrflag, value, ifl, reg, failed, given, taken>>

----------------------------------------------------------------------------
(* synch_spinlock. *)

SaveFlag(p) ==
    /\ pc[p] = "save"
    /\ intrflag' = ifl[p]
    /\ Goto(p, "cli")
    /\ UNCHANGED <<lock, value, ifl, op, by, reg, failed, got, given, taken>>

\* Mutant of Cli: the instruction is missing.
NoCli(p) ==
    /\ pc[p] = "cli"
    /\ Goto(p, "spin")
    /\ UNCHANGED <<lock, intrflag, value, ifl, op, by, reg, failed, got, given, taken>>

Cli(p) ==
    /\ pc[p] = "cli"
    /\ ifl' = [ifl EXCEPT ![p] = FALSE]
    /\ Goto(p, "spin")
    /\ UNCHANGED <<lock, intrflag, value, op, by, reg, failed, got, given, taken>>

\* Mutants of Acquire: an exchange that is not conditional, and an increment.
AcquireAlways(p) ==
    /\ pc[p] = "spin"
    /\ lock' = 1
    /\ Goto(p, IF op[p] = "inc" THEN "load" ELSE "check")
    /\ UNCHANGED <<intrflag, value, ifl, op, by, reg, failed, got, given, taken>>

AcquireIncrement(p) ==
    /\ pc[p] = "spin"
    /\ lock' = lock + 1
    /\ Goto(p, IF op[p] = "inc" THEN "load" ELSE "check")
    /\ UNCHANGED <<intrflag, value, ifl, op, by, reg, failed, got, given, taken>>

\* lock cmpxchg when it succeeds.
Acquire(p) ==
    /\ pc[p] = "spin" /\ lock = 0
    /\ lock' = 1
    /\ Goto(p, IF op[p] = "inc" THEN "load" ELSE "check")
    /\ UNCHANGED <<intrflag, value, ifl, op, by, reg, failed, got, given, taken>>

\* And when it does not: jnz back to the xor.
Retry(p) == pc[p] = "spin" /\ lock # 0 /\ UNCHANGED vars

----------------------------------------------------------------------------
(* The bodies of synch_semaphoreinc and synch_semaphoretrydec. *)

\* Mutant of Check: lets the value fall one below zero.
CheckOffByOne(p) ==
    /\ pc[p] = "check"
    /\ failed' = [failed EXCEPT ![p] = value + 1 < by[p]]
    /\ Goto(p, IF value + 1 >= by[p] THEN "load" ELSE "or")
    /\ UNCHANGED <<lock, intrflag, value, ifl, op, by, reg, got, given, taken>>

Check(p) ==
    /\ pc[p] = "check"
    /\ failed' = [failed EXCEPT ![p] = value < by[p]]
    /\ Goto(p, IF value >= by[p] THEN "load" ELSE "or")
    /\ UNCHANGED <<lock, intrflag, value, ifl, op, by, reg, got, given, taken>>

Load(p) ==
    /\ pc[p] = "load"
    /\ reg' = [reg EXCEPT ![p] = value]
    /\ Goto(p, "store")
    /\ UNCHANGED <<lock, intrflag, value, ifl, op, by, failed, got, given, taken>>

StoreInc(p) ==
    /\ pc[p] = "store" /\ op[p] = "inc"
    /\ value' = (reg[p] + by[p]) % Word
    /\ given' = given + by[p]
    /\ Goto(p, "or")
    /\ UNCHANGED <<lock, intrflag, ifl, op, by, reg, failed, got, taken>>

StoreDec(p) ==
    /\ pc[p] = "store" /\ op[p] = "dec"
    /\ value' = (reg[p] - by[p]) % Word
    /\ taken' = taken + by[p]
    /\ got' = [got EXCEPT ![p] = got[p] + by[p]]
    /\ Goto(p, "or")
    /\ UNCHANGED <<lock, intrflag, ifl, op, by, reg, failed, given>>

----------------------------------------------------------------------------
(* synch_spinunlock: the flags are or-ed into the lock, and the flags the  *)
(* process already has are loaded again.                                   *)

OrFlags(p) ==
    /\ pc[p] = "or"
    /\ intrflag' = (intrflag \/ ifl[p])
    /\ Goto(p, "release")
    /\ UNCHANGED <<lock, value, ifl, op, by, reg, failed, got, given, taken>>

\* Mutant of Release: the failing path of synch_semaphoretrydec keeps the lock.
ReleaseUnlessFailed(p) ==
    /\ pc[p] = "release"
    /\ lock' = IF failed[p] THEN lock ELSE 0
    /\ Goto(p, IF op[p] = "dec" /\ ~failed[p] THEN "yield" ELSE "out")
    /\ UNCHANGED <<intrflag, value, ifl, op, by, reg, failed, got, given, taken>>

\* The end of the call, except that synch_semaphoredec breaks only when
\* synch_semaphoretrydec returned 1, which it does when it took nothing.
Release(p) ==
    /\ pc[p] = "release"
    /\ lock' = 0
    /\ Goto(p, IF op[p] = "dec" /\ ~failed[p] THEN "yield" ELSE "out")
    /\ UNCHANGED <<intrflag, value, ifl, op, by, reg, failed, got, given, taken>>

\* int $0xff, and around the loop.
Yield(p) ==
    /\ pc[p] = "yield"
    /\ Goto(p, "save")
    /\ UNCHANGED <<lock, intrflag, value, ifl, op, by, reg, failed, got, given, taken>>

\* The instructions of a call in progress.
Step(p) ==
    \/ SaveFlag(p) \/ Cli(p) \/ Acquire(p)
    \/ Check(p) \/ Load(p) \/ StoreInc(p) \/ StoreDec(p)
    \/ OrFlags(p) \/ Release(p) \/ Yield(p)

Next ==
    \E p \in Procs :
        \/ \E n \in Amounts : CallInc(p, n) \/ CallDec(p, n)
        \/ Step(p)
        \/ Retry(p)

Spec == Init /\ [][Next]_vars

\* A processor keeps executing; nothing obliges a caller to make another call.
FairSpec == Spec /\ \A p \in Procs : WF_vars(Step(p))

----------------------------------------------------------------------------
(* Properties. *)

TypeOK ==
    /\ lock \in {0, 1} /\ intrflag \in BOOLEAN
    /\ value \in 0..Word - 1
    /\ ifl \in [Procs -> BOOLEAN]
    /\ pc \in [Procs -> Labels]
    /\ op \in [Procs -> Ops]
    /\ by \in [Procs -> Amounts \cup {0}]
    /\ reg \in [Procs -> 0..Word - 1]
    /\ failed \in [Procs -> BOOLEAN]
    /\ got \in [Procs -> Nat]
    /\ given \in Nat /\ taken \in Nat

\* Two processes are never both between the cmpxchg of synch_spinlock and the
\* movl of synch_spinunlock.
MutualExclusion ==
    \A p, q \in Procs : pc[p] \in Critical /\ pc[q] \in Critical => p = q

\* Interrupts are off while a process holds the lock, so no interrupt handler
\* on its processor can spin on the lock that it holds.
HolderUninterruptible == \A p \in Procs : pc[p] \in Critical => ~ifl[p]

\* No update of semaphore_t.value is lost and none goes below zero: what is
\* there is what was there, plus what was added, less what was taken.  (An
\* increment past the range of the counter is not refused, so the sum must fit.)
Conservation ==
    InitialUnits + given < Word => value + taken = InitialUnits + given

\* Whenever processes are waiting for the lock, one gets it.
LockProgress ==
    (\E p \in Procs : pc[p] = "spin") ~> (\E p \in Procs : pc[p] \in Critical)

\* synch_semaphoredec returns once it has taken the units it was called for,
\* and passes off control (synch.c:57) until then.
DecTakesItsUnits ==
    [][\A p \in Procs :
          op[p] = "dec" /\ pc[p] = "release" /\ pc'[p] = "out" => got[p] = by[p]]_vars
============================================================================
