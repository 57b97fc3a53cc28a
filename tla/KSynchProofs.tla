---------------------------- MODULE KSynchProofs ----------------------------
(***************************************************************************)
(* Proofs about KSynch, for every set of processes, every amount and every *)
(* range of the counter.                                                   *)
(***************************************************************************)
EXTENDS KSynch, TLAPS

\* The lock word says whether a process is in its critical section.
LockHeld == \A p \in Procs : pc[p] \in Critical => lock = 1

\* Interrupts are off from cli on.
IntrOff == \A p \in Procs : pc[p] \in Critical \cup {"spin"} => ~ifl[p]

\* The holder's copy of the counter is the counter.
RegCurrent == \A p \in Procs : pc[p] = "store" => reg[p] = value

\* A decrement that has passed its test can be carried out.
Enough ==
    \A p \in Procs :
        pc[p] \in {"load", "store"} /\ op[p] = "dec" => value >= by[p]

\* The inductive invariant.
SynchInv ==
    /\ TypeOK /\ InitialUnits < Word
    /\ LockHeld /\ MutualExclusion /\ IntrOff /\ RegCurrent /\ Enough
    /\ Conservation

----------------------------------------------------------------------------
\* A counter holds a number below Word.
LEMMA ModRange ==
    ASSUME NEW a \in Int
    PROVE  a % Word \in 0..Word - 1
  BY KSynchAssumption

\* A number below Word is kept as it is.
LEMMA ModSmall ==
    ASSUME NEW a \in Nat, a < Word
    PROVE  a % Word = a
  BY KSynchAssumption

\* The types of one process, as numbers.
LEMMA AmountsNat ==
    ASSUME TypeOK, NEW p \in Procs
    PROVE  /\ by[p] \in Nat /\ reg[p] \in Nat /\ value \in Nat /\ value < Word
           /\ got[p] \in Nat /\ pc[p] \in Labels /\ op[p] \in Ops
  <1>1. by[p] \in Amounts \cup {0}
    BY DEF TypeOK
  <1>2. reg[p] \in 0..Word - 1 /\ value \in 0..Word - 1
    BY DEF TypeOK
  <1>3. got[p] \in Nat /\ pc[p] \in Labels /\ op[p] \in Ops
    BY DEF TypeOK
  <1>4. by[p] \in Nat
    <2>1. Amounts \cup {0} \subseteq Nat
      BY KSynchAssumption
    <2> QED
      BY <1>1, <2>1
  <1> QED
    BY <1>2, <1>3, <1>4, KSynchAssumption

\* The initial states satisfy the invariant.
LEMMA SynchInvInit ==
    ASSUME Init, InitialUnits < Word
    PROVE  SynchInv
  <1>1. \A p \in Procs : pc[p] = "out"
    BY DEF Init
  <1>2. TypeOK
    <2>1. value \in 0..Word - 1 /\ 0 \in 0..Word - 1
      BY KSynchAssumption DEF Init
    <2> QED
      BY <2>1 DEF Init, TypeOK, Labels, Ops
  <1>3. Conservation
    BY KSynchAssumption DEF Init, Conservation
  <1> QED
    BY <1>1, <1>2, <1>3
       DEF SynchInv, LockHeld, MutualExclusion, IntrOff, RegCurrent, Enough, Critical

\* Every step of a process keeps the types.
LEMMA TypeStep ==
    ASSUME TypeOK, Next
    PROVE  TypeOK'
  <1> USE DEF TypeOK, Goto, Labels, Ops
  <1>1. ASSUME NEW p \in Procs, NEW n \in Amounts, CallInc(p, n)
        PROVE  TypeOK'
    BY <1>1 DEF CallInc
  <1>2. ASSUME NEW p \in Procs, NEW n \in Amounts, CallDec(p, n)
        PROVE  TypeOK'
    BY <1>2 DEF CallDec
  <1>3. ASSUME NEW p \in Procs, SaveFlag(p)
        PROVE  TypeOK'
    BY <1>3 DEF SaveFlag
  <1>4. ASSUME NEW p \in Procs, Cli(p)
        PROVE  TypeOK'
    BY <1>4 DEF Cli
  <1>5. ASSUME NEW p \in Procs, Acquire(p)
        PROVE  TypeOK'
    BY <1>5 DEF Acquire
  <1>6. ASSUME NEW p \in Procs, Check(p)
        PROVE  TypeOK'
    <2>1. (value < by[p]) \in BOOLEAN
      OBVIOUS
    <2> QED
      BY <1>6, <2>1 DEF Check
  <1>7. ASSUME NEW p \in Procs, Load(p)
        PROVE  TypeOK'
    BY <1>7 DEF Load
  <1>8. ASSUME NEW p \in Procs, StoreInc(p)
        PROVE  TypeOK'
    <2>1. reg[p] + by[p] \in Int /\ given + by[p] \in Nat
      BY AmountsNat
    <2>2. (reg[p] + by[p]) % Word \in 0..Word - 1
      BY <2>1, ModRange
    <2> QED
      BY <1>8, <2>1, <2>2 DEF StoreInc
  <1>9. ASSUME NEW p \in Procs, StoreDec(p)
        PROVE  TypeOK'
    <2>1. reg[p] - by[p] \in Int /\ taken + by[p] \in Nat /\ got[p] + by[p] \in Nat
      BY AmountsNat
    <2>2. (reg[p] - by[p]) % Word \in 0..Word - 1
      BY <2>1, ModRange
    <2> QED
      BY <1>9, <2>1, <2>2 DEF StoreDec
  <1>10. ASSUME NEW p \in Procs, OrFlags(p)
         PROVE  TypeOK'
    <2>1. (intrflag \/ ifl[p]) \in BOOLEAN
      OBVIOUS
    <2> QED
      BY <1>10, <2>1 DEF OrFlags
  <1>11. ASSUME NEW p \in Procs, Release(p)
         PROVE  TypeOK'
    BY <1>11 DEF Release
  <1>12. ASSUME NEW p \in Procs, Yield(p)
         PROVE  TypeOK'
    BY <1>12 DEF Yield
  <1>13. ASSUME NEW p \in Procs, Retry(p)
         PROVE  TypeOK'
    BY <1>13 DEF Retry, vars
  <1> QED
    BY <1>1, <1>2, <1>3, <1>4, <1>5, <1>6, <1>7, <1>8, <1>9, <1>10, <1>11, <1>12,
       <1>13 DEF Next, Step

\* A step that only moves one process along its code, not into its critical
\* section nor to spin, and leaves the counter and the lock alone.
LEMMA OutsideStep ==
    ASSUME SynchInv, TypeOK', NEW p \in Procs,
           pc[p] \notin Critical \cup {"spin"},
           NEW label \in Labels \ (Critical \cup {"spin"}), Goto(p, label),
           \A q \in Procs \ {p} : op'[q] = op[q] /\ by'[q] = by[q],
           UNCHANGED <<lock, value, ifl, reg, given, taken>>
    PROVE  SynchInv'
  <1>1. \A q \in Procs : q # p => pc'[q] = pc[q]
    BY DEF Goto, SynchInv, TypeOK
  <1>2. pc'[p] = label /\ pc'[p] \notin Critical \cup {"spin"}
    BY DEF Goto, SynchInv, TypeOK
  <1>3. LockHeld' /\ MutualExclusion' /\ IntrOff' /\ RegCurrent'
    BY <1>1, <1>2
       DEF SynchInv, LockHeld, MutualExclusion, IntrOff, RegCurrent, Critical
  <1>4. Enough'
    BY <1>1, <1>2 DEF SynchInv, Enough, Critical
  <1>5. Conservation'
    BY DEF SynchInv, Conservation
  <1> QED
    BY <1>3, <1>4, <1>5 DEF SynchInv

\* The step of the one process that is in its critical section.
LEMMA InsideStep ==
    ASSUME SynchInv, TypeOK', NEW p \in Procs, pc[p] \in Critical,
           NEW label \in Critical, Goto(p, label),
           label = "store" => reg'[p] = value',
           label \in {"load", "store"} /\ op[p] = "dec" => value' >= by[p],
           \A q \in Procs \ {p} : reg'[q] = reg[q],
           UNCHANGED <<lock, ifl, op, by>>,
           Conservation'
    PROVE  SynchInv'
  <1>1. \A q \in Procs : q # p => pc'[q] = pc[q] /\ pc[q] \notin Critical
    BY DEF Goto, SynchInv, TypeOK, MutualExclusion
  <1>2. pc'[p] = label /\ lock = 1 /\ ~ifl[p]
    BY DEF Goto, SynchInv, TypeOK, LockHeld, IntrOff
  <1>3. LockHeld' /\ MutualExclusion' /\ IntrOff'
    BY <1>1, <1>2 DEF SynchInv, LockHeld, MutualExclusion, IntrOff
  <1>4. RegCurrent' /\ Enough'
    BY <1>1, <1>2 DEF RegCurrent, Enough, Critical
  <1> QED
    BY <1>3, <1>4 DEF SynchInv

\* Every step of a process keeps the invariant.
LEMMA SynchInvStep ==
    ASSUME SynchInv, Next
    PROVE  SynchInv'
  <1>0. TypeOK /\ TypeOK' /\ Conservation
    BY TypeStep DEF SynchInv
  <1>1. ASSUME NEW p \in Procs, NEW n \in Amounts, CallInc(p, n) \/ CallDec(p, n)
        PROVE  SynchInv'
    <2>1. pc[p] = "out" /\ Goto(p, "save")
      BY <1>1 DEF CallInc, CallDec
    <2>2. /\ \A q \in Procs \ {p} : op'[q] = op[q] /\ by'[q] = by[q]
          /\ UNCHANGED <<lock, value, ifl, reg, given, taken>>
      BY <1>0, <1>1 DEF CallInc, CallDec, TypeOK
    <2>3. "save" \in Labels \ (Critical \cup {"spin"})
      BY DEF Labels, Critical
    <2> QED
      BY <1>0, <2>1, <2>2, <2>3, OutsideStep DEF Critical
  <1>2. ASSUME NEW p \in Procs, SaveFlag(p)
        PROVE  SynchInv'
    <2>1. "cli" \in Labels \ (Critical \cup {"spin"})
      BY DEF Labels, Critical
    <2> QED
      BY <1>0, <1>2, <2>1, OutsideStep DEF SaveFlag, Critical
  <1>3. ASSUME NEW p \in Procs, Yield(p)
        PROVE  SynchInv'
    <2>1. "save" \in Labels \ (Critical \cup {"spin"})
      BY DEF Labels, Critical
    <2> QED
      BY <1>0, <1>3, <2>1, OutsideStep DEF Yield, Critical
  <1>4. ASSUME NEW p \in Procs, Cli(p)
        PROVE  SynchInv'
    <2>1. /\ \A q \in Procs : q # p => pc'[q] = pc[q] /\ ifl'[q] = ifl[q]
          /\ pc'[p] = "spin" /\ ifl'[p] = FALSE
          /\ UNCHANGED <<lock, value, op, by, reg, given, taken>>
      BY <1>0, <1>4 DEF Cli, Goto, TypeOK
    <2>2. LockHeld' /\ MutualExclusion' /\ IntrOff'
      BY <2>1 DEF SynchInv, LockHeld, MutualExclusion, IntrOff, Critical
    <2>3. RegCurrent' /\ Enough' /\ Conservation'
      BY <2>1 DEF SynchInv, RegCurrent, Enough, Conservation
    <2> QED
      BY <1>0, <2>2, <2>3 DEF SynchInv
  <1>5. ASSUME NEW p \in Procs, Acquire(p)
        PROVE  SynchInv'
    <2> DEFINE label == IF op[p] = "inc" THEN "load" ELSE "check"
    <2>1. /\ \A q \in Procs : q # p => pc'[q] = pc[q]
          /\ pc'[p] = label /\ pc[p] = "spin" /\ lock = 0 /\ lock' = 1
          /\ UNCHANGED <<value, ifl, op, by, reg, given, taken>>
      BY <1>0, <1>5 DEF Acquire, Goto, TypeOK
    <2>2. \A q \in Procs : pc[q] \notin Critical
      BY <2>1 DEF SynchInv, LockHeld
    <2>3. ~ifl[p] /\ label \in Critical
      BY <2>1 DEF SynchInv, IntrOff, Critical
    <2>4. LockHeld' /\ MutualExclusion' /\ IntrOff'
      BY <2>1, <2>2, <2>3 DEF SynchInv, LockHeld, MutualExclusion, IntrOff
    <2>5. RegCurrent'
      BY <2>1 DEF SynchInv, RegCurrent
    <2>6. Enough'
      BY <1>0, <2>1 DEF SynchInv, Enough, TypeOK, Ops
    <2>7. Conservation'
      BY <2>1 DEF SynchInv, Conservation
    <2> QED
      BY <1>0, <2>4, <2>5, <2>6, <2>7 DEF SynchInv
  <1>6. ASSUME NEW p \in Procs, Check(p)
        PROVE  SynchInv'
    <2> DEFINE label == IF value >= by[p] THEN "load" ELSE "or"
    <2>1. /\ pc[p] \in Critical /\ label \in Critical /\ Goto(p, label)
          /\ label # "store"
          /\ UNCHANGED <<lock, value, ifl, op, by, reg, given, taken>>
      BY <1>6 DEF Check, Critical
    <2>2. Conservation'
      BY <1>0, <2>1 DEF Conservation
    <2>3. label \in {"load", "store"} /\ op[p] = "dec" => value' >= by[p]
      BY <2>1
    <2> HIDE DEF label
    <2> QED
      BY <1>0, <2>1, <2>2, <2>3, InsideStep
  <1>7. ASSUME NEW p \in Procs, Load(p)
        PROVE  SynchInv'
    <2>1. /\ pc[p] \in Critical /\ "store" \in Critical /\ Goto(p, "store")
          /\ UNCHANGED <<lock, value, ifl, op, by, given, taken>>
      BY <1>7 DEF Load, Critical
    <2>2. Conservation'
      BY <1>0, <2>1 DEF Conservation
    <2>3. reg'[p] = value' /\ \A q \in Procs \ {p} : reg'[q] = reg[q]
      BY <1>0, <1>7 DEF Load, TypeOK
    <2>4. op[p] = "dec" => value' >= by[p]
      BY <1>7 DEF Load, SynchInv, Enough
    <2> QED
      BY <1>0, <2>1, <2>2, <2>3, <2>4, InsideStep
  <1>8. ASSUME NEW p \in Procs, StoreInc(p)
        PROVE  SynchInv'
    <2>1. /\ pc[p] \in Critical /\ "or" \in Critical /\ Goto(p, "or")
          /\ UNCHANGED <<lock, ifl, op, by, reg, taken>>
      BY <1>8 DEF StoreInc, Critical
    <2>2. reg[p] = value /\ by[p] \in Nat /\ value \in Nat /\ given \in Nat
          /\ taken \in Nat
      BY <1>0, <1>8, AmountsNat DEF StoreInc, SynchInv, RegCurrent, TypeOK
    <2>3. given' = given + by[p] /\ value' = (value + by[p]) % Word
      BY <1>8, <2>2 DEF StoreInc
    <2>4. Conservation'
      <3> SUFFICES ASSUME InitialUnits + given' < Word
                   PROVE  value' + taken = InitialUnits + given'
        BY <2>1 DEF Conservation
      <3>1. value + taken = InitialUnits + given
        BY <1>0, <2>2, <2>3, KSynchAssumption DEF Conservation
      <3>2. value + by[p] \in Nat /\ value + by[p] < Word
        BY <2>2, <2>3, <3>1, KSynchAssumption
      <3>3. value' = value + by[p]
        BY <2>3, <3>2, ModSmall
      <3> QED
        BY <2>2, <2>3, <3>1, <3>3, KSynchAssumption
    <2> QED
      BY <1>0, <2>1, <2>4, InsideStep
  <1>9. ASSUME NEW p \in Procs, StoreDec(p)
        PROVE  SynchInv'
    <2>1. /\ pc[p] \in Critical /\ "or" \in Critical /\ Goto(p, "or")
          /\ UNCHANGED <<lock, ifl, op, by, reg, given>>
      BY <1>9 DEF StoreDec, Critical
    <2>2. /\ reg[p] = value /\ by[p] \in Nat /\ value \in Nat /\ given \in Nat
          /\ taken \in Nat /\ value >= by[p] /\ value < Word
      BY <1>0, <1>9, AmountsNat DEF StoreDec, SynchInv, RegCurrent, Enough, TypeOK
    <2>3. taken' = taken + by[p] /\ value' = (value - by[p]) % Word
      BY <1>9, <2>2 DEF StoreDec
    <2>4. value' = value - by[p]
      <3>1. value - by[p] \in Nat /\ value - by[p] < Word
        BY <2>2, KSynchAssumption
      <3> QED
        BY <2>3, <3>1, ModSmall
    <2>5. Conservation'
      BY <1>0, <2>1, <2>2, <2>3, <2>4, KSynchAssumption DEF Conservation
    <2> QED
      BY <1>0, <2>1, <2>5, InsideStep
  <1>10. ASSUME NEW p \in Procs, OrFlags(p)
         PROVE  SynchInv'
    <2>1. /\ pc[p] \in Critical /\ "release" \in Critical /\ Goto(p, "release")
          /\ UNCHANGED <<lock, value, ifl, op, by, reg, given, taken>>
      BY <1>10 DEF OrFlags, Critical
    <2>2. Conservation'
      BY <1>0, <2>1 DEF Conservation
    <2> QED
      BY <1>0, <2>1, <2>2, InsideStep
  <1>11. ASSUME NEW p \in Procs, Release(p)
         PROVE  SynchInv'
    <2> DEFINE label == IF op[p] = "dec" /\ ~failed[p] THEN "yield" ELSE "out"
    <2>1. /\ \A q \in Procs : q # p => pc'[q] = pc[q]
          /\ pc'[p] = label /\ pc[p] = "release" /\ lock' = 0
          /\ UNCHANGED <<value, ifl, op, by, reg, given, taken>>
      BY <1>0, <1>11 DEF Release, Goto, TypeOK
    <2>2. label \notin Critical \cup {"spin"}
      BY DEF Critical
    <2> HIDE DEF label
    <2>3. \A q \in Procs : pc'[q] \notin Critical
      BY <2>1, <2>2 DEF SynchInv, MutualExclusion, Critical
    <2>4. LockHeld' /\ MutualExclusion' /\ IntrOff'
      BY <2>1, <2>2, <2>3 DEF SynchInv, LockHeld, MutualExclusion, IntrOff
    <2>5. RegCurrent' /\ Enough' /\ Conservation'
      BY <2>1, <2>3 DEF SynchInv, RegCurrent, Enough, Conservation, Critical
    <2> QED
      BY <1>0, <2>4, <2>5 DEF SynchInv
  <1>12. ASSUME NEW p \in Procs, Retry(p)
         PROVE  SynchInv'
    BY <1>12 DEF Retry, vars, SynchInv, TypeOK, LockHeld, MutualExclusion, IntrOff,
                 RegCurrent, Enough, Conservation
  <1> QED
    BY <1>1, <1>2, <1>3, <1>4, <1>5, <1>6, <1>7, <1>8, <1>9, <1>10, <1>11, <1>12
       DEF Next, Step

----------------------------------------------------------------------------
(* The theorems. *)

\* Every instruction of every process keeps SynchInv.
THEOREM SynchInvariance ==
    ASSUME InitialUnits < Word
    PROVE  Spec => []SynchInv
  <1>1. Init => SynchInv
    BY SynchInvInit
  <1>2. SynchInv /\ UNCHANGED vars => SynchInv'
    BY DEF vars, SynchInv, TypeOK, LockHeld, MutualExclusion, IntrOff, RegCurrent,
           Enough, Conservation
  <1>3. SynchInv /\ [Next]_vars => SynchInv'
    BY <1>2, SynchInvStep
  <1> QED
    BY <1>1, <1>3, PTL DEF Spec

\* Types of the lock, the counter and the registers.
THEOREM SynchTypeCorrect ==
    ASSUME InitialUnits < Word
    PROVE  Spec => []TypeOK
  <1>1. SynchInv => TypeOK
    BY DEF SynchInv
  <1> QED
    BY <1>1, SynchInvariance, PTL

\* synch_spinlock lets one process at a time pass, however many there are.
THEOREM SpinlockExcludes ==
    ASSUME InitialUnits < Word
    PROVE  Spec => []MutualExclusion
  <1>1. SynchInv => MutualExclusion
    BY DEF SynchInv
  <1> QED
    BY <1>1, SynchInvariance, PTL

\* The holder of the lock runs with interrupts off.
THEOREM HolderNotInterrupted ==
    ASSUME InitialUnits < Word
    PROVE  Spec => []HolderUninterruptible
  <1>1. SynchInv => HolderUninterruptible
    BY DEF SynchInv, IntrOff, HolderUninterruptible
  <1> QED
    BY <1>1, SynchInvariance, PTL

\* The semaphore loses and invents no units, for every mix of increments and
\* decrements that the counter can hold.
THEOREM SemaphoreConserves ==
    ASSUME InitialUnits < Word
    PROVE  Spec => []Conservation
  <1>1. SynchInv => Conservation
    BY DEF SynchInv
  <1> QED
    BY <1>1, SynchInvariance, PTL
============================================================================
