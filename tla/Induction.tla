------------------------------ MODULE Induction ------------------------------
(***************************************************************************)
(* Induction over the naturals, and the functions that a recurrence over   *)
(* 0..N defines, as facts without operator parameters: what is proved by   *)
(* induction is given as the set of the numbers it holds of, and the step  *)
(* of a recurrence as a function.  The first follows from the pigeonhole   *)
(* principle for finite sets.                                              *)
(***************************************************************************)
EXTENDS Integers, FiniteSetTheorems, TLAPS

\* A set with 0 and the successor of every number in it has all the numbers: if
\* it missed N, then adding 1 would map the members below N one-to-one to those
\* of them that are not 0.  The arithmetic under every claim about a list walk.
LEMMA InductionOnNat ==
    ASSUME NEW S, 0 \in S, \A n \in Nat : n \in S => n + 1 \in S
    PROVE  Nat \subseteq S
  <1>1. SUFFICES ASSUME NEW N \in Nat, N \notin S PROVE FALSE
    OBVIOUS
  <1> DEFINE T == {n \in 0..N : n \in S}
             up == [n \in T |-> n + 1]
  <1>2. 0 \in T
    OBVIOUS
  <1>3. \A n \in T : n \in Nat /\ n + 1 \in T \ {0}
    <2> SUFFICES ASSUME NEW n \in T PROVE n \in Nat /\ n + 1 \in T \ {0}
      OBVIOUS
    <2>1. n \in Nat /\ n <= N /\ n # N /\ n + 1 \in S
      BY <1>1
    <2> QED
      BY <2>1
  <1>4. T \in SUBSET (0..N) /\ IsFiniteSet(0..N)
    BY FS_Interval
  <1>5. up \in [T -> T \ {0}]
    <2> HIDE DEF T
    <2> QED
      BY <1>3
  <1>6. \A x, y \in T : up[x] = up[y] => x = y
    <2> HIDE DEF T
    <2> QED
      BY <1>3
  <1> HIDE DEF T, up
  <1>7. IsFiniteSet(T) /\ Cardinality(T) \in Nat
    BY <1>4, FS_Subset, FS_CardinalityType
  <1>8. IsFiniteSet(T \ {0}) /\ Cardinality(T \ {0}) = Cardinality(T) - 1
    BY <1>2, <1>7, FS_RemoveElement
  <1>9. Cardinality(T \ {0}) < Cardinality(T)
    BY <1>7, <1>8
  <1>10. \E x, y \in T : x # y /\ up[x] = up[y]
    BY <1>5, <1>7, <1>8, <1>9, FS_PigeonHole
  <1> QED
    BY <1>6, <1>10

\* The same up to a bound N, for a claim that is only about 0..N.
LEMMA IntervalInduction ==
    ASSUME NEW N \in Nat, NEW S, 0 \in S,
           \A n \in 0..N - 1 : n \in S => n + 1 \in S
    PROVE  0..N \subseteq S
  <1> DEFINE T == {n \in Nat : n <= N => n \in S}
  <1>1. 0 \in T
    OBVIOUS
  <1>2. ASSUME NEW n \in Nat, n \in T
        PROVE  n + 1 \in T
    <2> SUFFICES ASSUME n + 1 <= N PROVE n + 1 \in S
      OBVIOUS
    <2>1. n \in 0..N - 1 /\ n \in S
      BY <1>2
    <2> QED
      BY <2>1
  <1>3. Nat \subseteq T
    <2> HIDE DEF T
    <2> QED
      BY <1>1, <1>2, InductionOnNat
  <1> QED
    BY <1>3

\* The function on 0..N with values in V that starts from v0 and continues by G.
Solves(f, N, V, v0, G) ==
    /\ f \in [0..N -> V]
    /\ f[0] = v0
    /\ \A i \in 1..N : f[i] = G[i][f[i - 1]]

\* Every recurrence over 0..N has a solution, so that a walk along a list or a sum
\* over a queue, which the model defines by recursion, is a function.
LEMMA Recursion ==
    ASSUME NEW N \in Nat, NEW V, NEW v0 \in V, NEW G \in [1..N -> [V -> V]]
    PROVE  \E f : Solves(f, N, V, v0, G)
  <1> DEFINE Solvable(n) == \E f : Solves(f, n, V, v0, G)
             S == {n \in 0..N : Solvable(n)}
  <1>1. 0 \in S
    <2> DEFINE f == [i \in 0..0 |-> v0]
    <2>1. Solves(f, 0, V, v0, G)
      BY DEF Solves
    <2> HIDE DEF f
    <2> QED
      BY <2>1
  <1>2. ASSUME NEW n \in 0..N - 1, n \in S
        PROVE  n + 1 \in S
    <2>1. PICK f : Solves(f, n, V, v0, G)
      BY <1>2
    <2> DEFINE g == [i \in 0..n + 1 |-> IF i = n + 1 THEN G[n + 1][f[n]] ELSE f[i]]
    <2>2. n + 1 \in 1..N /\ f[n] \in V
      BY <2>1 DEF Solves
    <2>3. G[n + 1][f[n]] \in V
      BY <2>2
    <2>4. g \in [0..n + 1 -> V] /\ g[0] = v0
      BY <2>1, <2>3 DEF Solves
    <2>5. ASSUME NEW i \in 1..n + 1
          PROVE  g[i] = G[i][g[i - 1]]
      <3>1. g[i - 1] = f[i - 1]
        BY <2>5
      <3>2. CASE i = n + 1
        BY <3>1, <3>2
      <3>3. CASE i \in 1..n
        BY <2>1, <3>1, <3>3 DEF Solves
      <3> QED
        BY <3>2, <3>3
    <2>6. Solves(g, n + 1, V, v0, G)
      BY <2>4, <2>5 DEF Solves
    <2> HIDE DEF g
    <2> QED
      BY <2>6
  <1>3. N \in S
    <2> HIDE DEF S
    <2>1. \A n \in 0..N - 1 : n \in S => n + 1 \in S
      BY <1>2
    <2>2. 0..N \subseteq S
      BY <1>1, <2>1, IntervalInduction
    <2> QED
      BY <2>2
  <1>4. Solvable(N)
    <2> HIDE DEF Solvable
    <2> QED
      BY <1>3
  <1> QED
    BY <1>4

\* The partial sums of N numbers.
LEMMA PartialSums ==
    ASSUME NEW N \in Nat, NEW w \in [1..N -> Nat]
    PROVE  \E f : /\ f \in [0..N -> Nat]
                 /\ f[0] = 0
                 /\ \A i \in 1..N : f[i] = f[i - 1] + w[i]
  <1> DEFINE G == [i \in 1..N |-> [v \in Nat |-> v + w[i]]]
  <1>1. G \in [1..N -> [Nat -> Nat]]
    OBVIOUS
  <1>2. PICK f : Solves(f, N, Nat, 0, G)
    <2>1. 0 \in Nat
      OBVIOUS
    <2> HIDE DEF G
    <2> QED
      BY <1>1, <2>1, Recursion, Zenon
  <1>3. ASSUME NEW i \in 1..N
        PROVE  f[i] = f[i - 1] + w[i]
    <2>1. f[i - 1] \in Nat
      BY <1>2 DEF Solves
    <2>2. G[i][f[i - 1]] = f[i - 1] + w[i]
      BY <2>1
    <2> QED
      BY <1>2, <2>2 DEF Solves
  <1> QED
    BY <1>2, <1>3 DEF Solves
=============================================================================
