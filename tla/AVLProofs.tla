------------------------------ MODULE AVLProofs ------------------------------
(***************************************************************************)
(* Proofs about the trees of clib/avl.c, for every finite set of keys: a   *)
(* tree stays ordered, its depths stay true to within one, and a tree is   *)
(* the function that Map describes.                                        *)
(*                                                                         *)
(* The recursive helpers are proved about by induction over the levels of  *)
(* a tree.  Good says what the program keeps of every subtree; Shape says  *)
(* it of the children only, which is what a node has while update_depth    *)
(* and rebalance have still to be called on it.                            *)
(***************************************************************************)
EXTENDS AVL, Induction

N == Cardinality(Keys)

NodesOver(T) == [key : Keys, data : Datas, depth : Nat, left : T, right : T]

\* There are finitely many keys.
LEMMA NType == N \in Nat
  BY KeysAssumption, FS_CardinalityType DEF N

---------------------------------------------------------------------------
(* Trees, by levels. *)

\* The trees of n levels are those whose children have n - 1: the records that
\* insert_helper allocates.
LEMMA TreesStep ==
    /\ Trees[0] = {NULL}
    /\ \A n \in 1..N : Trees[n] = {NULL} \cup NodesOver(Trees[n - 1])
  <1> DEFINE Level(f, i) ==
                 {NULL} \cup IF i = 0 THEN {}
                             ELSE [key : Keys, data : Datas, depth : Nat,
                                   left : f[i - 1], right : f[i - 1]]
             Solution(n) == \E f : f = [i \in 0..n |-> Level(f, i)]
             S == {n \in 0..N : Solution(n)}
  <1>1. 0 \in S
    <2> DEFINE f == [i \in 0..0 |-> {NULL}]
    <2>1. f = [i \in 0..0 |-> Level(f, i)]
      OBVIOUS
    <2>2. Solution(0)
      BY <2>1
    <2> QED
      BY <2>2, NType
  <1>2. ASSUME NEW n \in 0..N - 1, n \in S
        PROVE  n + 1 \in S
    <2>1. PICK f : f = [i \in 0..n |-> Level(f, i)]
      BY <1>2
    <2> DEFINE g == [i \in 0..n + 1 |-> Level(f, i)]
    <2>2. ASSUME NEW i \in 0..n + 1
          PROVE  Level(f, i) = Level(g, i)
      <3>1. CASE i = 0
        BY <3>1
      <3>2. CASE i # 0
        <4>1. i - 1 \in 0..n /\ i - 1 \in 0..n + 1
          BY <3>2
        <4>2. f[i - 1] = g[i - 1]
          BY <2>1, <4>1
        <4> HIDE DEF g
        <4> QED
          BY <4>2
      <3> QED
        BY <3>1, <3>2
    <2>3. g = [i \in 0..n + 1 |-> Level(g, i)]
      <3> HIDE DEF Level
      <3> QED
        BY <2>2
    <2>4. Solution(n + 1)
      <3> HIDE DEF g, Level
      <3> QED
        BY <2>3
    <2> HIDE DEF Solution
    <2> QED
      BY <2>4, NType
  <1>3. Solution(N)
    <2> HIDE DEF Solution
    <2>1. 0..N \subseteq S
      <3> HIDE DEF S
      <3> QED
        BY <1>1, <1>2, IntervalInduction, NType
    <2> QED
      BY <2>1, NType
  <1>4. Trees = [i \in 0..N |-> Level(Trees, i)]
    BY <1>3 DEF Trees, N
  <1>5. Trees[0] = {NULL}
    BY <1>4, NType
  <1>6. ASSUME NEW n \in 1..N
        PROVE  Trees[n] = {NULL} \cup NodesOver(Trees[n - 1])
    BY <1>4, NType DEF NodesOver
  <1> QED
    BY <1>5, <1>6

\* The empty tree is a tree of any number of levels.
LEMMA NoTreesBelow == \A n \in 0..N : NULL \in Trees[n]
  <1> SUFFICES ASSUME NEW n \in 0..N PROVE NULL \in Trees[n]
    OBVIOUS
  <1>1. n = 0 \/ n \in 1..N
    BY NType
  <1> QED
    BY <1>1, TreesStep

\* A tree of n levels is one of more.
LEMMA TreesNext == \A n \in 0..N - 1 : Trees[n] \subseteq Trees[n + 1]
  <1> DEFINE S == {n \in 0..N : n < N => Trees[n] \subseteq Trees[n + 1]}
  <1>1. 0 \in S
    BY NType, TreesStep, NoTreesBelow
  <1>2. ASSUME NEW n \in 0..N - 1, n \in S
        PROVE  n + 1 \in S
    <2> SUFFICES ASSUME n + 1 < N PROVE Trees[n + 1] \subseteq Trees[n + 2]
      BY NType
    <2>1. Trees[n] \subseteq Trees[n + 1]
      BY <1>2, NType
    <2>2. NodesOver(Trees[n]) \subseteq NodesOver(Trees[n + 1])
      BY <2>1 DEF NodesOver
    <2>3. Trees[n + 1] = {NULL} \cup NodesOver(Trees[n])
      BY TreesStep, NType
    <2>4. Trees[n + 2] = {NULL} \cup NodesOver(Trees[n + 1])
      <3>1. n + 2 \in 1..N /\ (n + 2) - 1 = n + 1
        BY NType
      <3> QED
        BY <3>1, TreesStep
    <2> QED
      BY <2>2, <2>3, <2>4
  <1>3. 0..N \subseteq S
    <2> HIDE DEF S
    <2> QED
      BY <1>1, <1>2, IntervalInduction, NType
  <1> QED
    BY <1>3, NType

\* A tree of m levels is a tree of n, for every n from m on.
LEMMA TreesMonotone ==
    ASSUME NEW m \in 0..N, NEW n \in m..N
    PROVE  Trees[m] \subseteq Trees[n]
  <1> DEFINE S == {i \in 0..N : m <= i => Trees[m] \subseteq Trees[i]}
  <1>1. 0 \in S
    BY NType
  <1>2. ASSUME NEW i \in 0..N - 1, i \in S
        PROVE  i + 1 \in S
    <2>1. CASE m <= i
      <3>1. Trees[m] \subseteq Trees[i] /\ Trees[i] \subseteq Trees[i + 1]
        BY <1>2, <2>1, TreesNext
      <3> QED
        BY <3>1, NType
    <2>2. CASE m = i + 1
      BY <2>2, NType
    <2>3. CASE m > i + 1
      BY <2>3, NType
    <2> QED
      BY <2>1, <2>2, <2>3, NType
  <1>3. 0..N \subseteq S
    <2> HIDE DEF S
    <2> QED
      BY <1>1, <1>2, IntervalInduction, NType
  <1> QED
    BY <1>3, NType

\* A record with the fields of a node and what they are.
IsNode(t) == t = [key |-> t.key, data |-> t.data, depth |-> t.depth,
                  left |-> t.left, right |-> t.right]

\* The empty tree is no record of a node.
LEMMA NullIsNoNode == \A n \in 0..N : NULL \notin NodesOver(Trees[n])
  <1> SUFFICES ASSUME NEW n \in 0..N PROVE NULL \notin NodesOver(Trees[n])
    OBVIOUS
  <1>1. Trees[n] \subseteq Tree
    BY TreesMonotone, NType DEF Tree, N
  <1>2. NodesOver(Trees[n]) \subseteq NodesOver(Tree)
    BY <1>1 DEF NodesOver
  <1> QED
    BY <1>2, NullAssumption DEF NodesOver

\* The children of a node have one level less.
LEMMA ChildLevels ==
    ASSUME NEW n \in 0..N, NEW t \in Trees[n], t # NULL
    PROVE  /\ n \in 1..N /\ n - 1 \in 0..N
           /\ t \in NodesOver(Trees[n - 1])
           /\ IsNode(t)
  <1>1. n \in 1..N
    <2>1. n # 0
      BY TreesStep
    <2> QED
      BY <2>1, NType
  <1>2. t \in NodesOver(Trees[n - 1])
    BY <1>1, TreesStep
  <1>3. IsNode(t)
    BY <1>2 DEF NodesOver, IsNode
  <1> QED
    BY <1>1, <1>2, <1>3, NType

\* The empty tree, which a root starts as.
LEMMA NullTree == NULL \in Tree
  BY NoTreesBelow, NType DEF Tree, N

\* A tree of any number of levels up to N is a tree.
LEMMA LevelsAreTrees == \A n \in 0..N : Trees[n] \subseteq Tree
  BY TreesMonotone, NType DEF Tree, N

\* The fields of a node; its children are trees.
LEMMA Children ==
    ASSUME NEW t \in Node
    PROVE  /\ t # NULL /\ t \in Tree /\ IsNode(t)
           /\ t.key \in Keys /\ t.data \in Datas /\ t.depth \in Nat
           /\ t.left \in Tree /\ t.right \in Tree
  <1>1. t # NULL /\ t \in Tree /\ t \in Trees[N] /\ N \in 0..N
    BY NType DEF Node, Tree, N
  <1>2. N - 1 \in 0..N /\ t \in NodesOver(Trees[N - 1]) /\ IsNode(t)
    BY <1>1, ChildLevels
  <1>3. Trees[N - 1] \subseteq Tree
    BY <1>2, LevelsAreTrees
  <1> QED
    BY <1>1, <1>2, <1>3 DEF NodesOver

\* What holds of NULL, and of a node when it holds of its children, holds of
\* every tree.
LEMMA TreeInduction ==
    ASSUME NEW P, NULL \in P,
           \A t \in Node : t.left \in P /\ t.right \in P => t \in P
    PROVE  Tree \subseteq P
  <1> DEFINE S == {n \in 0..N : Trees[n] \subseteq P}
  <1>1. 0 \in S
    BY NType, TreesStep
  <1>2. ASSUME NEW n \in 0..N - 1, n \in S
        PROVE  n + 1 \in S
    <2>1. n + 1 \in 0..N /\ n + 1 \in 1..N /\ Trees[n] \subseteq P
      BY <1>2, NType
    <2>2. ASSUME NEW t \in Trees[n + 1] PROVE t \in P
      <3>1. CASE t = NULL
        BY <3>1
      <3>2. CASE t # NULL
        <4>1. t \in NodesOver(Trees[n])
          BY <2>1, <3>2, ChildLevels
        <4>2. t.left \in P /\ t.right \in P
          BY <2>1, <4>1 DEF NodesOver
        <4>3. t \in Node
          BY <2>1, <3>2, LevelsAreTrees DEF Node
        <4> QED
          BY <4>2, <4>3
      <3> QED
        BY <3>1, <3>2
    <2> QED
      BY <2>1, <2>2
  <1>3. 0..N \subseteq S
    <2> HIDE DEF S
    <2> QED
      BY <1>1, <1>2, IntervalInduction, NType
  <1>4. N \in S
    BY <1>3, NType
  <1> QED
    BY <1>4 DEF Tree, N
---------------------------------------------------------------------------
(* The recursive functions of AVL exist: each satisfies its recurrence.     *)
(* All of them are built level by level at once.                            *)

\* What search(k), insert_helper(k, d), TakeLast, remove_depth_helper,
\* remove_helper(k), Subtrees and Height give for a node, when f is what they give
\* for its children.
Walk(f, t, k, d) ==
    [height   |-> 1 + Larger(f[t.left].height, f[t.right].height),
     subtrees |-> {t} \cup f[t.left].subtrees \cup f[t.right].subtrees,
     found    |-> IF k = t.key THEN t.data ELSE f[Descend(t, k)].found,
     inserted |->
         IF k = t.key THEN [node |-> [t EXCEPT !.data = d], ret |-> t.data]
         ELSE LET sub == f[Descend(t, k)].inserted
              IN  [node |-> update_depth(rebalance(Graft(t, k, sub.node))),
                   ret  |-> sub.ret],
     taken    |->
         IF t.right = NULL THEN [last |-> t, rest |-> t.left]
         ELSE LET sub == f[t.right].taken
              IN  [last |-> sub.last, rest |-> [t EXCEPT !.right = sub.rest]],
     deepened |-> update_depth([t EXCEPT !.right = f[t.right].deepened]),
     removed  |->
         IF k = t.key THEN [node |-> Settle(Replacement(t)), ret |-> t.data]
         ELSE LET sub == f[Descend(t, k)].removed
              IN  [node |-> Settle(Graft(t, k, sub.node)), ret |-> sub.ret]]

WalkNull(k, d) ==
    [height   |-> 0,
     subtrees |-> {},
     found    |-> NULL,
     inserted |-> [node |-> Leaf(k, d), ret |-> NULL],
     taken    |-> NULL,
     deepened |-> NULL,
     removed  |-> [node |-> NULL, ret |-> NULL]]

Walks(f, T, k, d) ==
    f = [t \in T |-> IF t = NULL THEN WalkNull(k, d) ELSE Walk(f, t, k, d)]

\* Walk looks at f for the children only.
LEMMA WalkLocal ==
    ASSUME NEW f, NEW g, NEW t, NEW k, NEW d,
           f[t.left] = g[t.left], f[t.right] = g[t.right]
    PROVE  Walk(f, t, k, d) = Walk(g, t, k, d)
  <1>1. f[Descend(t, k)] = g[Descend(t, k)]
    BY DEF Descend
  <1> QED
    BY <1>1 DEF Walk

\* There is one function for all of them.
LEMMA WalksExist ==
    ASSUME NEW k, NEW d
    PROVE  \E f : Walks(f, Tree, k, d)
  <1> DEFINE Solution(n) == \E f : Walks(f, Trees[n], k, d)
             S == {n \in 0..N : Solution(n)}
  <1>1. 0 \in S
    <2> DEFINE f == [t \in Trees[0] |-> WalkNull(k, d)]
    <2>1. Walks(f, Trees[0], k, d)
      BY TreesStep DEF Walks
    <2>2. Solution(0)
      <3> HIDE DEF f
      <3> QED
        BY <2>1
    <2> QED
      BY <2>2, NType
  <1>2. ASSUME NEW n \in 0..N - 1, n \in S
        PROVE  n + 1 \in S
    <2>1. PICK f : Walks(f, Trees[n], k, d)
      BY <1>2
    <2> DEFINE Value(h, t) == IF t = NULL THEN WalkNull(k, d) ELSE Walk(h, t, k, d)
               g == [t \in Trees[n + 1] |-> Value(f, t)]
    <2>2. ASSUME NEW t \in Trees[n + 1]
          PROVE  Value(f, t) = Value(g, t)
      <3>1. CASE t = NULL
        BY <3>1
      <3>2. CASE t # NULL
        <4>1. t.left \in Trees[n] /\ t.right \in Trees[n]
          <5>1. n + 1 \in 0..N /\ (n + 1) - 1 = n
            BY NType
          <5>2. t \in NodesOver(Trees[n])
            BY <3>2, <5>1, ChildLevels
          <5> QED
            BY <5>2 DEF NodesOver
        <4>2. ASSUME NEW s \in Trees[n] PROVE f[s] = g[s]
          <5>1. f[s] = Value(f, s)
            BY <2>1 DEF Walks
          <5>2. g[s] = Value(f, s)
            BY TreesNext
          <5> QED
            BY <5>1, <5>2
        <4>3. f[t.left] = g[t.left] /\ f[t.right] = g[t.right]
          BY <4>1, <4>2
        <4> HIDE DEF g
        <4> QED
          BY <3>2, <4>3, WalkLocal
      <3> QED
        BY <3>1, <3>2
    <2>3. Walks(g, Trees[n + 1], k, d)
      <3>1. g = [t \in Trees[n + 1] |-> Value(g, t)]
        <4> HIDE DEF Value
        <4> QED
          BY <2>2
      <3> HIDE DEF g
      <3> QED
        BY <3>1 DEF Walks
    <2>4. Solution(n + 1)
      <3> HIDE DEF g
      <3> QED
        BY <2>3
    <2> HIDE DEF Solution
    <2> QED
      BY <2>4, NType
  <1>3. 0..N \subseteq S
    <2> HIDE DEF S
    <2> QED
      BY <1>1, <1>2, IntervalInduction, NType
  <1>4. Solution(N)
    <2> HIDE DEF Solution
    <2> QED
      BY <1>3, NType
  <1> QED
    BY <1>4 DEF Tree, N

\* Height, by its recurrence.
LEMMA HeightStep ==
    /\ Height[NULL] = 0
    /\ \A t \in Node : Height[t] = 1 + Larger(Height[t.left], Height[t.right])
  <1>1. PICK f : Walks(f, Tree, 0, 0)
    BY WalksExist
  <1> DEFINE h == [t \in Tree |-> f[t].height]
             Step(g) == g = [t \in Tree |->
                                IF t = NULL THEN 0
                                ELSE 1 + Larger(g[t.left], g[t.right])]
  <1>2. ASSUME NEW t \in Tree
        PROVE  f[t].height = IF t = NULL THEN 0
                             ELSE 1 + Larger(h[t.left], h[t.right])
    <2>1. CASE t = NULL
      BY <1>1, <2>1 DEF Walks, WalkNull
    <2>2. CASE t # NULL
      <3>1. t.left \in Tree /\ t.right \in Tree
        BY <2>2, Children DEF Node
      <3>2. f[t] = Walk(f, t, 0, 0)
        BY <1>1, <2>2 DEF Walks
      <3> QED
        BY <2>2, <3>1, <3>2 DEF Walk
    <2> QED
      BY <2>1, <2>2
  <1>3. Step(h)
    BY <1>2
  <1>4. \E g : Step(g)
    <2> HIDE DEF h, Step
    <2> QED
      BY <1>3
  <1>5. Step(Height)
    BY <1>4 DEF Height
  <1> QED
    BY <1>5, NullTree, Children DEF Node

\* Subtrees, by its recurrence.
LEMMA SubtreesStep ==
    /\ Subtrees[NULL] = {}
    /\ \A t \in Node : Subtrees[t] = {t} \cup Subtrees[t.left] \cup Subtrees[t.right]
  <1>1. PICK f : Walks(f, Tree, 0, 0)
    BY WalksExist
  <1> DEFINE h == [t \in Tree |-> f[t].subtrees]
             Value(g, t) ==
                 IF t = NULL THEN {}
                 ELSE {t} \cup g[t.left] \cup g[t.right]
             Step(g) == g = [t \in Tree |-> Value(g, t)]
  <1>2. ASSUME NEW t \in Tree
        PROVE  f[t].subtrees = Value(h, t)
    <2>1. CASE t = NULL
      BY <1>1, <2>1 DEF Walks, WalkNull
    <2>2. CASE t # NULL
      <3>1. t.left \in Tree /\ t.right \in Tree
        BY <2>2, Children DEF Node
      <3>2. f[t] = Walk(f, t, 0, 0)
        BY <1>1, <2>2 DEF Walks
      <3> QED
        BY <2>2, <3>1, <3>2 DEF Walk
    <2> QED
      BY <2>1, <2>2
  <1>3. Step(h)
    <2> HIDE DEF Value
    <2> QED
      BY <1>2
  <1>4. \E g : Step(g)
    <2> HIDE DEF h, Step
    <2> QED
      BY <1>3
  <1>5. Step(Subtrees)
    BY <1>4 DEF Subtrees
  <1> QED
    BY <1>5, NullTree, Children DEF Node

\* The loop of search, by its recurrence.
LEMMA SearchStep ==
    ASSUME NEW k
    PROVE  /\ search(k)[NULL] = NULL
           /\ \A t \in Node : search(k)[t] = IF k = t.key THEN t.data
                                             ELSE search(k)[Descend(t, k)]
  <1>1. PICK f : Walks(f, Tree, k, 0)
    BY WalksExist
  <1> DEFINE h == [t \in Tree |-> f[t].found]
             Value(g, t) ==
                 IF t = NULL THEN NULL
                 ELSE IF k = t.key THEN t.data ELSE g[Descend(t, k)]
             Step(g) == g = [t \in Tree |-> Value(g, t)]
  <1>2. ASSUME NEW t \in Tree
        PROVE  f[t].found = Value(h, t)
    <2>1. CASE t = NULL
      BY <1>1, <2>1 DEF Walks, WalkNull
    <2>2. CASE t # NULL
      <3>1. t.left \in Tree /\ t.right \in Tree
        BY <2>2, Children DEF Node
      <3>2. f[t] = Walk(f, t, k, 0)
        BY <1>1, <2>2 DEF Walks
      <3> QED
        BY <2>2, <3>1, <3>2 DEF Walk, Descend
    <2> QED
      BY <2>1, <2>2
  <1>3. Step(h)
    <2> HIDE DEF Value
    <2> QED
      BY <1>2
  <1>4. \E g : Step(g)
    <2> HIDE DEF h, Step
    <2> QED
      BY <1>3
  <1>5. Step(search(k))
    BY <1>4 DEF search
  <1> QED
    BY <1>5, NullTree, Children DEF Node, Descend

\* insert_helper, by its recurrence.
LEMMA InsertStep ==
    ASSUME NEW k, NEW d
    PROVE  /\ insert_helper(k, d)[NULL] = [node |-> Leaf(k, d), ret |-> NULL]
           /\ \A t \in Node :
                 insert_helper(k, d)[t] =
                    IF k = t.key THEN [node |-> [t EXCEPT !.data = d], ret |-> t.data]
                    ELSE LET sub == insert_helper(k, d)[Descend(t, k)]
                         IN  [node |-> update_depth(rebalance(Graft(t, k, sub.node))),
                              ret  |-> sub.ret]
  <1>1. PICK f : Walks(f, Tree, k, d)
    BY WalksExist
  <1> DEFINE h == [t \in Tree |-> f[t].inserted]
             Value(g, t) ==
                 IF t = NULL THEN [node |-> Leaf(k, d), ret |-> NULL]
                 ELSE IF k = t.key THEN [node |-> [t EXCEPT !.data = d], ret |-> t.data]
                 ELSE LET sub == g[Descend(t, k)]
                      IN  [node |-> update_depth(rebalance(Graft(t, k, sub.node))),
                           ret  |-> sub.ret]
             Step(g) == g = [t \in Tree |-> Value(g, t)]
  <1>2. ASSUME NEW t \in Tree
        PROVE  f[t].inserted = Value(h, t)
    <2>1. CASE t = NULL
      BY <1>1, <2>1 DEF Walks, WalkNull
    <2>2. CASE t # NULL
      <3>1. t.left \in Tree /\ t.right \in Tree
        BY <2>2, Children DEF Node
      <3>2. f[t] = Walk(f, t, k, d)
        BY <1>1, <2>2 DEF Walks
      <3> QED
        BY <2>2, <3>1, <3>2 DEF Walk, Descend
    <2> QED
      BY <2>1, <2>2
  <1>3. Step(h)
    <2> HIDE DEF Value
    <2> QED
      BY <1>2
  <1>4. \E g : Step(g)
    <2> HIDE DEF h, Step
    <2> QED
      BY <1>3
  <1>5. Step(insert_helper(k, d))
    BY <1>4 DEF insert_helper
  <1> QED
    BY <1>5, NullTree, Children DEF Node, Descend

\* remove_depth_helper, by its recurrence.
LEMMA RemoveDepthStep ==
    /\ remove_depth_helper[NULL] = NULL
    /\ \A t \in Node : remove_depth_helper[t] =
                         update_depth([t EXCEPT !.right = remove_depth_helper[t.right]])
  <1>1. PICK f : Walks(f, Tree, 0, 0)
    BY WalksExist
  <1> DEFINE h == [t \in Tree |-> f[t].deepened]
             Value(g, t) ==
                 IF t = NULL THEN NULL
                 ELSE update_depth([t EXCEPT !.right = g[t.right]])
             Step(g) == g = [t \in Tree |-> Value(g, t)]
  <1>2. ASSUME NEW t \in Tree
        PROVE  f[t].deepened = Value(h, t)
    <2>1. CASE t = NULL
      BY <1>1, <2>1 DEF Walks, WalkNull
    <2>2. CASE t # NULL
      <3>1. t.left \in Tree /\ t.right \in Tree
        BY <2>2, Children DEF Node
      <3>2. f[t] = Walk(f, t, 0, 0)
        BY <1>1, <2>2 DEF Walks
      <3> QED
        BY <2>2, <3>1, <3>2 DEF Walk
    <2> QED
      BY <2>1, <2>2
  <1>3. Step(h)
    <2> HIDE DEF Value
    <2> QED
      BY <1>2
  <1>4. \E g : Step(g)
    <2> HIDE DEF h, Step
    <2> QED
      BY <1>3
  <1>5. Step(remove_depth_helper)
    BY <1>4 DEF remove_depth_helper
  <1> QED
    BY <1>5, NullTree, Children DEF Node

\* remove_helper, by its recurrence.
LEMMA RemoveStep ==
    ASSUME NEW k
    PROVE  /\ remove_helper(k)[NULL] = [node |-> NULL, ret |-> NULL]
           /\ \A t \in Node :
                 remove_helper(k)[t] =
                    IF k = t.key THEN [node |-> Settle(Replacement(t)), ret |-> t.data]
                    ELSE LET sub == remove_helper(k)[Descend(t, k)]
                         IN  [node |-> Settle(Graft(t, k, sub.node)), ret |-> sub.ret]
  <1>1. PICK f : Walks(f, Tree, k, 0)
    BY WalksExist
  <1> DEFINE h == [t \in Tree |-> f[t].removed]
             Value(g, t) ==
                 IF t = NULL THEN [node |-> NULL, ret |-> NULL]
                 ELSE IF k = t.key THEN [node |-> Settle(Replacement(t)), ret |-> t.data]
                 ELSE LET sub == g[Descend(t, k)]
                      IN  [node |-> Settle(Graft(t, k, sub.node)), ret |-> sub.ret]
             Step(g) == g = [t \in Tree |-> Value(g, t)]
  <1>2. ASSUME NEW t \in Tree
        PROVE  f[t].removed = Value(h, t)
    <2>1. CASE t = NULL
      BY <1>1, <2>1 DEF Walks, WalkNull
    <2>2. CASE t # NULL
      <3>1. t.left \in Tree /\ t.right \in Tree
        BY <2>2, Children DEF Node
      <3>2. f[t] = Walk(f, t, k, 0)
        BY <1>1, <2>2 DEF Walks
      <3> QED
        BY <2>2, <3>1, <3>2 DEF Walk, Descend
    <2> QED
      BY <2>1, <2>2
  <1>3. Step(h)
    <2> HIDE DEF Value
    <2> QED
      BY <1>2
  <1>4. \E g : Step(g)
    <2> HIDE DEF h, Step
    <2> QED
      BY <1>3
  <1>5. Step(remove_helper(k))
    BY <1>4 DEF remove_helper
  <1> QED
    BY <1>5, NullTree, Children DEF Node, Descend

\* TakeLast, by its recurrence.
LEMMA TakeLastStep ==
    \A t \in Node :
       TakeLast[t] =
          IF t.right = NULL THEN [last |-> t, rest |-> t.left]
          ELSE LET sub == TakeLast[t.right]
               IN  [last |-> sub.last, rest |-> [t EXCEPT !.right = sub.rest]]
  <1>1. PICK f : Walks(f, Tree, 0, 0)
    BY WalksExist
  <1> DEFINE h == [t \in Node |-> f[t].taken]
             Value(g, t) ==
                 IF t.right = NULL THEN [last |-> t, rest |-> t.left]
                 ELSE LET sub == g[t.right]
                      IN  [last |-> sub.last, rest |-> [t EXCEPT !.right = sub.rest]]
             Step(g) == g = [t \in Node |-> Value(g, t)]
  <1>2. ASSUME NEW t \in Node
        PROVE  f[t].taken = Value(h, t)
    <2>1. t # NULL /\ t \in Tree /\ t.right \in Tree
      BY Children
    <2>2. t.right # NULL => t.right \in Node
      BY <2>1 DEF Node
    <2>3. f[t] = Walk(f, t, 0, 0)
      BY <1>1, <2>1 DEF Walks
    <2> QED
      BY <2>2, <2>3 DEF Walk
  <1>3. Step(h)
    <2> HIDE DEF Value
    <2> QED
      BY <1>2
  <1>4. \E g : Step(g)
    <2> HIDE DEF h, Step
    <2> QED
      BY <1>3
  <1>5. Step(TakeLast)
    BY <1>4 DEF TakeLast
  <1> QED
    BY <1>5
---------------------------------------------------------------------------
(* Keys, order, heights and contents of a tree and of its children.         *)

\* What is below a node is a node, its keys are keys, and a height is a number.
LEMMA SubtreesType ==
    ASSUME NEW t \in Tree
    PROVE  /\ Subtrees[t] \subseteq Node
           /\ KeysOf(t) \subseteq Keys
           /\ Height[t] \in Nat
  <1> DEFINE P == {s \in Tree : Subtrees[s] \subseteq Node /\ Height[s] \in Nat}
  <1>1. NULL \in P
    BY NullTree, SubtreesStep, HeightStep
  <1>2. ASSUME NEW s \in Node, s.left \in P, s.right \in P
        PROVE  s \in P
    <2>1. Subtrees[s] = {s} \cup Subtrees[s.left] \cup Subtrees[s.right]
      BY SubtreesStep
    <2>2. Height[s] = 1 + Larger(Height[s.left], Height[s.right])
      BY HeightStep
    <2>3. Subtrees[s] \subseteq Node
      BY <1>2, <2>1
    <2>4. Height[s] \in Nat
      BY <1>2, <2>2 DEF Larger
    <2> QED
      BY <2>3, <2>4, Children
  <1>3. t \in P
    <2> HIDE DEF P
    <2> QED
      BY <1>1, <1>2, TreeInduction
  <1>4. KeysOf(t) \subseteq Keys
    <2>1. \A s \in Subtrees[t] : s.key \in Keys
      BY <1>3, Children
    <2> QED
      BY <2>1 DEF KeysOf
  <1> QED
    BY <1>3, <1>4

\* The empty tree has no keys and is ordered.
LEMMA KeysOfNull == KeysOf(NULL) = {} /\ Ordered(NULL)
  BY SubtreesStep DEF KeysOf, Ordered

\* The keys of a node are its own and those of its children.
LEMMA KeysOfNode ==
    ASSUME NEW t \in Node
    PROVE  KeysOf(t) = {t.key} \cup KeysOf(t.left) \cup KeysOf(t.right)
  BY SubtreesStep DEF KeysOf

Below(t, k) == \A x \in KeysOf(t) : x < k
Above(t, k) == \A x \in KeysOf(t) : k < x

\* A node is ordered when its children are and its key is between theirs.
LEMMA OrderedNode ==
    ASSUME NEW t \in Node
    PROVE  Ordered(t) <=> /\ Ordered(t.left) /\ Ordered(t.right)
                          /\ Below(t.left, t.key) /\ Above(t.right, t.key)
  BY SubtreesStep DEF Ordered, Below, Above

\* A node whose children are ordered and whose key is not among theirs has no more
\* levels than keys.
LEMMA NodeFits ==
    ASSUME NEW l \in Tree, NEW r \in Tree, NEW t, IsNode(t), t.left = l, t.right = r,
           t.key \in Keys, t.data \in Datas, t.depth \in Nat,
           t.key \notin KeysOf(l) \cup KeysOf(r),
           l \in Trees[Cardinality(KeysOf(l))], r \in Trees[Cardinality(KeysOf(r))]
    PROVE  LET K == {t.key} \cup KeysOf(l) \cup KeysOf(r)
           IN  Cardinality(K) \in 1..N /\ t \in Trees[Cardinality(K)]
  <1> DEFINE K == {t.key} \cup KeysOf(l) \cup KeysOf(r)
             n == Cardinality(K)
  <1>1. K \subseteq Keys /\ IsFiniteSet(K) /\ n \in 0..N
    <2>1. K \subseteq Keys
      BY SubtreesType
    <2> HIDE DEF K
    <2>2. IsFiniteSet(K) /\ Cardinality(K) <= Cardinality(Keys) /\ Cardinality(K) \in Nat
      BY <2>1, KeysAssumption, FS_Subset, FS_CardinalityType
    <2> QED
      BY <2>1, <2>2, NType DEF N
  <1>2. /\ IsFiniteSet(K \ {t.key}) /\ Cardinality(K \ {t.key}) = n - 1
        /\ Cardinality(K \ {t.key}) \in Nat
    <2>1. t.key \in K
      OBVIOUS
    <2> HIDE DEF K
    <2> QED
      BY <1>1, <2>1, FS_RemoveElement, FS_CardinalityType
  <1>3. \A s \in {l, r} : /\ Cardinality(KeysOf(s)) \in 0..n - 1
                         /\ s \in Trees[n - 1]
    <2> SUFFICES ASSUME NEW s \in {l, r}
                 PROVE  Cardinality(KeysOf(s)) \in 0..n - 1 /\ s \in Trees[n - 1]
      OBVIOUS
    <2>1. KeysOf(s) \subseteq K \ {t.key}
      OBVIOUS
    <2>2. Cardinality(KeysOf(s)) \in Nat /\ Cardinality(KeysOf(s)) <= n - 1
      <3> HIDE DEF K, n
      <3> QED
        BY <1>2, <2>1, FS_Subset, FS_CardinalityType
    <2>3. Cardinality(KeysOf(s)) \in 0..N /\ n - 1 \in Cardinality(KeysOf(s))..N
      <3> HIDE DEF K, n
      <3> QED
        BY <1>1, <2>2, NType
    <2>4. s \in Trees[Cardinality(KeysOf(s))]
      OBVIOUS
    <2>5. Trees[Cardinality(KeysOf(s))] \subseteq Trees[n - 1]
      <3> HIDE DEF K, n
      <3> QED
        BY <2>3, TreesMonotone
    <2>6. s \in Trees[n - 1]
      BY <2>4, <2>5
    <2>7. Cardinality(KeysOf(s)) \in 0..n - 1
      <3> HIDE DEF K, n
      <3> QED
        BY <1>1, <2>2
    <2> QED
      BY <2>6, <2>7
  <1>4. n \in 1..N
    <2> HIDE DEF K, n
    <2> QED
      BY <1>1, <1>2, NType
  <1>5. t \in NodesOver(Trees[n - 1])
    <2>1. t.left \in Trees[n - 1] /\ t.right \in Trees[n - 1]
      <3> HIDE DEF n
      <3> QED
        BY <1>3
    <2> HIDE DEF n
    <2> QED
      BY <2>1 DEF NodesOver, IsNode
  <1>6. t \in Trees[n]
    <2> HIDE DEF n
    <2> QED
      BY <1>4, <1>5, TreesStep
  <1> QED
    BY <1>4, <1>6

\* An ordered tree has no more levels than keys.
LEMMA OrderedFits ==
    ASSUME NEW t \in Tree, Ordered(t)
    PROVE  t \in Trees[Cardinality(KeysOf(t))]
  <1> DEFINE P == {s \in Tree : Ordered(s) => s \in Trees[Cardinality(KeysOf(s))]}
  <1>1. NULL \in P
    BY NullTree, KeysOfNull, FS_EmptySet, TreesStep, NType
  <1>2. ASSUME NEW s \in Node, s.left \in P, s.right \in P
        PROVE  s \in P
    <2> SUFFICES ASSUME Ordered(s) PROVE s \in Trees[Cardinality(KeysOf(s))]
      BY Children
    <2>1. /\ Ordered(s.left) /\ Ordered(s.right)
          /\ Below(s.left, s.key) /\ Above(s.right, s.key)
      BY OrderedNode
    <2>2. s.key \in Int
      BY Children, KeysAssumption
    <2>3. s.key \notin KeysOf(s.left) \cup KeysOf(s.right)
      BY <2>1, <2>2 DEF Below, Above
    <2>4. /\ s.left \in Trees[Cardinality(KeysOf(s.left))]
          /\ s.right \in Trees[Cardinality(KeysOf(s.right))]
      BY <1>2, <2>1
    <2> QED
      BY <2>3, <2>4, NodeFits, KeysOfNode, Children
  <1>3. t \in P
    <2> HIDE DEF P
    <2> QED
      BY <1>1, <1>2, TreeInduction
  <1> QED
    BY <1>3

\* The nodes of a key, and the data they stand for.
With(t, k) == {s \in Subtrees[t] : s.key = k}
Datum(S) == IF S = {} THEN NULL ELSE (CHOOSE s \in S : TRUE).data

\* Contents, key by key.
LEMMA ContentsAt ==
    ASSUME NEW t
    PROVE  Contents(t) = [k \in Keys |-> Datum(With(t, k))]
  BY DEF Contents, With, Datum

\* A tree stands for a function from keys to data.
LEMMA ContentsType ==
    ASSUME NEW t \in Tree
    PROVE  Contents(t) \in [Keys -> Datas \cup {NULL}]
  <1> SUFFICES ASSUME NEW k \in Keys PROVE Datum(With(t, k)) \in Datas \cup {NULL}
    BY ContentsAt
  <1>1. \A s \in With(t, k) : s.data \in Datas
    BY SubtreesType, Children DEF With
  <1> QED
    BY <1>1 DEF Datum

\* The empty tree is the map with which Map begins.
LEMMA ContentsOfNull == Contents(NULL) = [k \in Keys |-> NULL]
  BY SubtreesStep DEF Contents

\* A key that is not in a tree has no data.
LEMMA ContentsAbsent ==
    ASSUME NEW t \in Tree, NEW k \in Keys, k \notin KeysOf(t)
    PROVE  Contents(t)[k] = NULL
  <1>1. With(t, k) = {}
    BY DEF With, KeysOf
  <1> QED
    BY <1>1, ContentsAt DEF Datum

\* The data of a key in an ordered node are on the side that a search takes.
LEMMA ContentsOfNode ==
    ASSUME NEW t \in Node, Below(t.left, t.key), Above(t.right, t.key),
           NEW k \in Keys
    PROVE  Contents(t)[k] = IF k = t.key THEN t.data
                            ELSE IF k < t.key THEN Contents(t.left)[k]
                                 ELSE Contents(t.right)[k]
  <1>1. With(t, k) = (IF k = t.key THEN {t} ELSE {})
                     \cup With(t.left, k) \cup With(t.right, k)
    BY SubtreesStep DEF With
  <1>2. t.key \in Int /\ k \in Int
    BY Children, KeysAssumption
  <1>3. k >= t.key => With(t.left, k) = {}
    <2> SUFFICES ASSUME k >= t.key, NEW s \in With(t.left, k) PROVE FALSE
      OBVIOUS
    <2>1. k \in KeysOf(t.left)
      BY DEF With, KeysOf
    <2> QED
      BY <1>2, <2>1 DEF Below
  <1>4. k <= t.key => With(t.right, k) = {}
    <2> SUFFICES ASSUME k <= t.key, NEW s \in With(t.right, k) PROVE FALSE
      OBVIOUS
    <2>1. k \in KeysOf(t.right)
      BY DEF With, KeysOf
    <2> QED
      BY <1>2, <2>1 DEF Above
  <1>5. CASE k = t.key
    <2>1. With(t, k) = {t}
      BY <1>1, <1>2, <1>3, <1>4, <1>5
    <2>2. Datum({t}) = t.data
      BY DEF Datum
    <2> QED
      BY <1>5, <2>1, <2>2, ContentsAt
  <1>6. CASE k < t.key
    <2>1. With(t, k) = With(t.left, k) /\ k # t.key
      BY <1>1, <1>2, <1>4, <1>6
    <2> QED
      BY <1>6, <2>1, ContentsAt
  <1>7. CASE k > t.key
    <2>1. With(t, k) = With(t.right, k) /\ k # t.key /\ ~(k < t.key)
      BY <1>1, <1>2, <1>3, <1>7
    <2> QED
      BY <2>1, ContentsAt
  <1> QED
    BY <1>2, <1>5, <1>6, <1>7

---------------------------------------------------------------------------
(* What the program keeps of a tree, and what a node has in between.        *)

Close(t) == t.depth \in {Height[t], Height[t] + 1}

Good(t) == t \in Tree /\ Ordered(t) /\ \A s \in Subtrees[t] : Close(s)

Shape(t) ==
    /\ IsNode(t)
    /\ t.key \in Keys /\ t.data \in Datas /\ t.depth \in Nat
    /\ Good(t.left) /\ Below(t.left, t.key)
    /\ Good(t.right) /\ Above(t.right, t.key)

\* The empty tree is good.
LEMMA GoodNull == Good(NULL)
  BY NullTree, KeysOfNull, SubtreesStep DEF Good

\* A node with good children is a tree, and good when its depth is true.
LEMMA ShapeIsTree ==
    ASSUME NEW t, Shape(t)
    PROVE  t \in Node /\ Ordered(t) /\ (Close(t) => Good(t))
  <1>1. t.left \in Tree /\ t.right \in Tree /\ t.key \in Keys /\ t.key \in Int
    BY KeysAssumption DEF Shape, Good
  <1>2. t.key \notin KeysOf(t.left) \cup KeysOf(t.right)
    BY <1>1 DEF Shape, Below, Above
  <1>3. /\ t.left \in Trees[Cardinality(KeysOf(t.left))]
        /\ t.right \in Trees[Cardinality(KeysOf(t.right))]
    BY OrderedFits DEF Shape, Good
  <1> DEFINE n == Cardinality({t.key} \cup KeysOf(t.left) \cup KeysOf(t.right))
  <1>4. n \in 1..N /\ t \in Trees[n]
    BY <1>1, <1>2, <1>3, NodeFits DEF Shape
  <1>5. t \in Tree
    <2> HIDE DEF n
    <2> QED
      BY <1>4, LevelsAreTrees, NType
  <1>6. t # NULL
    <2>1. t \in NodesOver(Tree)
      BY <1>1 DEF Shape, IsNode, NodesOver
    <2>2. NULL \notin NodesOver(Tree)
      BY NullIsNoNode, NType DEF Tree, N
    <2> QED
      BY <2>1, <2>2
  <1>7. t \in Node
    BY <1>5, <1>6 DEF Node
  <1>8. Ordered(t)
    BY <1>7, OrderedNode DEF Shape, Good
  <1>9. Close(t) => Good(t)
    BY <1>7, <1>8, SubtreesStep DEF Shape, Good, Node
  <1> QED
    BY <1>7, <1>8, <1>9

\* The children of a good node are good.
LEMMA GoodIsShape ==
    ASSUME NEW t, Good(t), t # NULL
    PROVE  t \in Node /\ Shape(t) /\ Close(t)
  <1>1. t \in Node
    BY DEF Good, Node
  <1>2. Subtrees[t] = {t} \cup Subtrees[t.left] \cup Subtrees[t.right]
    BY <1>1, SubtreesStep
  <1>3. Ordered(t)
    BY DEF Good
  <1>4. Good(t.left) /\ Good(t.right)
    BY <1>1, <1>2, <1>3, OrderedNode, Children DEF Good
  <1>5. Shape(t)
    BY <1>1, <1>3, <1>4, OrderedNode, Children DEF Shape
  <1>6. Close(t)
    BY <1>2 DEF Good
  <1> QED
    BY <1>1, <1>5, <1>6

Same(t, u) == KeysOf(t) = KeysOf(u) /\ Contents(t) = Contents(u)

\* The depth that balance_factor reads of a good child is its height or one more,
\* and 0 only of a missing one.
LEMMA GoodDepth ==
    ASSUME NEW t, Good(t)
    PROVE  /\ Depth(t) \in Nat /\ Height[t] \in Nat
           /\ Depth(t) \in {Height[t], Height[t] + 1}
           /\ Depth(t) = 0 <=> t = NULL
           /\ Height[t] = 0 <=> t = NULL
  <1>1. CASE t = NULL
    BY <1>1, HeightStep DEF Depth
  <1>2. CASE t # NULL
    <2>1. t \in Node /\ Close(t)
      BY <1>2, GoodIsShape
    <2>2. /\ Height[t] = 1 + Larger(Height[t.left], Height[t.right])
          /\ Height[t.left] \in Nat /\ Height[t.right] \in Nat
      BY <2>1, HeightStep, Children, SubtreesType
    <2>3. Height[t] \in Nat /\ Height[t] > 0
      BY <2>2 DEF Larger
    <2> QED
      BY <1>2, <2>1, <2>3 DEF Depth, Close
  <1> QED
    BY <1>1, <1>2

\* Keys and contents of a node are those of its key, data and sides, whatever its
\* depth and the shape of the sides.
LEMMA SameNode ==
    ASSUME NEW t, NEW u, Shape(t), Shape(u), u.key = t.key, u.data = t.data,
           Same(u.left, t.left), Same(u.right, t.right)
    PROVE  Same(u, t)
  <1>1. t \in Node /\ u \in Node /\ t \in Tree /\ u \in Tree
    BY ShapeIsTree, Children
  <1>2. KeysOf(u) = KeysOf(t)
    BY <1>1, KeysOfNode DEF Same
  <1>3. ASSUME NEW k \in Keys PROVE Contents(u)[k] = Contents(t)[k]
    <2>1. Contents(t)[k] = IF k = t.key THEN t.data
                           ELSE IF k < t.key THEN Contents(t.left)[k]
                                ELSE Contents(t.right)[k]
      BY <1>1, ContentsOfNode DEF Shape
    <2>2. Contents(u)[k] = IF k = u.key THEN u.data
                           ELSE IF k < u.key THEN Contents(u.left)[k]
                                ELSE Contents(u.right)[k]
      BY <1>1, ContentsOfNode DEF Shape
    <2> QED
      BY <2>1, <2>2 DEF Same
  <1>4. Contents(u) = Contents(t)
    BY <1>1, <1>3, ContentsType
  <1> QED
    BY <1>2, <1>4 DEF Same

\* update_depth makes a node with good children good: the one it adds to a node
\* without children is all that it is off by.
LEMMA UpdateDepth ==
    ASSUME NEW t, Shape(t)
    PROVE  LET u == update_depth(t)
           IN  /\ Good(u) /\ u # NULL /\ Same(u, t)
               /\ u.key = t.key /\ u.data = t.data /\ u.left = t.left /\ u.right = t.right
  <1> DEFINE u == update_depth(t)
             d == 1 + Larger(1, Larger(Depth(t.left), Depth(t.right)))
  <1>1. u = [key |-> t.key, data |-> t.data, depth |-> d,
             left |-> t.left, right |-> t.right]
    BY DEF update_depth, Shape, IsNode
  <1>2. /\ IsNode(u) /\ u.depth = d
        /\ u.key = t.key /\ u.data = t.data /\ u.left = t.left /\ u.right = t.right
    BY <1>1 DEF IsNode
  <1>3. Good(t.left) /\ Good(t.right)
    BY DEF Shape
  <1>4. d \in Nat
    BY <1>3, GoodDepth DEF Larger
  <1> HIDE DEF u, d
  <1>5. Shape(u)
    BY <1>2, <1>4 DEF Shape
  <1>6. u \in Node
    BY <1>5, ShapeIsTree
  <1>7. Height[u] = 1 + Larger(Height[t.left], Height[t.right])
    BY <1>2, <1>6, HeightStep
  <1>8. d \in {Height[u], Height[u] + 1}
    <2>1. /\ Depth(t.left) \in {Height[t.left], Height[t.left] + 1}
          /\ Depth(t.right) \in {Height[t.right], Height[t.right] + 1}
          /\ Height[t.left] \in Nat /\ Height[t.right] \in Nat
          /\ Depth(t.left) \in Nat /\ Depth(t.right) \in Nat
          /\ Depth(t.left) = 0 <=> Height[t.left] = 0
          /\ Depth(t.right) = 0 <=> Height[t.right] = 0
      BY <1>3, GoodDepth
    <2> QED
      BY <1>7, <2>1 DEF d, Larger
  <1>9. Good(u)
    BY <1>2, <1>5, <1>8, ShapeIsTree DEF Close
  <1>10. Same(u, t)
    BY <1>2, <1>5, SameNode DEF Same
  <1> QED
    BY <1>2, <1>6, <1>9, <1>10, Children DEF u

\* A rotation keeps the order, the keys and what they stand for, and leaves true
\* depths in the two nodes it turns.
LEMMA RotateRightGood ==
    ASSUME NEW t, Shape(t), t.left # NULL
    PROVE  Good(RotateRight(t)) /\ RotateRight(t) # NULL /\ Same(RotateRight(t), t)
  <1> DEFINE l == t.left
             a == [t EXCEPT !.left = l.right]
             b == update_depth(a)
             c == [l EXCEPT !.right = b]
  <1>1. Good(l) /\ Shape(l) /\ l \in Node /\ t \in Node /\ Good(t.right)
    BY GoodIsShape, ShapeIsTree DEF Shape
  <1>2. /\ KeysOf(t) = {t.key} \cup KeysOf(l) \cup KeysOf(t.right)
        /\ KeysOf(l) = {l.key} \cup KeysOf(l.left) \cup KeysOf(l.right)
    BY <1>1, KeysOfNode
  <1>3. a = [key |-> t.key, data |-> t.data, depth |-> t.depth,
             left |-> l.right, right |-> t.right]
    BY DEF Shape, IsNode
  <1>4. /\ IsNode(a) /\ a.depth = t.depth /\ a.key = t.key /\ a.data = t.data
        /\ a.left = l.right /\ a.right = t.right
    BY <1>3 DEF IsNode
  <1> HIDE DEF a
  <1>5. Shape(a)
    <2>1. Good(l.right) /\ Below(l.right, t.key)
      BY <1>1, <1>2 DEF Shape, Below
    <2> QED
      BY <1>4, <2>1 DEF Shape
  <1>6. /\ Good(b) /\ b # NULL /\ Same(b, a)
        /\ b.key = t.key /\ b.data = t.data /\ b.left = l.right /\ b.right = t.right
    BY <1>4, <1>5, UpdateDepth
  <1> HIDE DEF b
  <1>7. Shape(b) /\ b \in Node
    BY <1>6, GoodIsShape
  <1>8. KeysOf(b) = {t.key} \cup KeysOf(l.right) \cup KeysOf(t.right)
    BY <1>6, <1>7, KeysOfNode
  <1>9. c = [key |-> l.key, data |-> l.data, depth |-> l.depth,
             left |-> l.left, right |-> b]
    BY <1>1 DEF Shape, IsNode
  <1>10. /\ IsNode(c) /\ c.depth = l.depth /\ c.key = l.key /\ c.data = l.data
         /\ c.left = l.left /\ c.right = b
    BY <1>9 DEF IsNode
  <1> HIDE DEF c
  <1>11. Above(b, l.key)
    <2>1. l.key \in Int /\ t.key \in Int /\ \A x \in KeysOf(t.right) : x \in Int
      BY <1>1, KeysAssumption, SubtreesType DEF Shape, Good
    <2>2. l.key < t.key
      BY <1>2 DEF Shape, Below
    <2>3. \A x \in KeysOf(t.right) : l.key < x
      BY <2>1, <2>2 DEF Shape, Above
    <2>4. \A x \in KeysOf(l.right) : l.key < x
      BY <1>1 DEF Shape, Above
    <2> QED
      BY <1>8, <2>2, <2>3, <2>4 DEF Above
  <1>12. Shape(c) /\ c \in Node
    BY <1>1, <1>6, <1>10, <1>11, ShapeIsTree DEF Shape
  <1>13. Good(update_depth(c)) /\ update_depth(c) # NULL /\ Same(update_depth(c), c)
    BY <1>12, UpdateDepth
  <1>14. KeysOf(c) = KeysOf(t)
    BY <1>2, <1>8, <1>10, <1>12, KeysOfNode
  <1>15. ASSUME NEW k \in Keys PROVE Contents(c)[k] = Contents(t)[k]
    <2>1. Contents(t)[k] = IF k = t.key THEN t.data
                           ELSE IF k < t.key THEN Contents(l)[k]
                                ELSE Contents(t.right)[k]
      BY <1>1, ContentsOfNode DEF Shape
    <2>2. Contents(l)[k] = IF k = l.key THEN l.data
                           ELSE IF k < l.key THEN Contents(l.left)[k]
                                ELSE Contents(l.right)[k]
      BY <1>1, ContentsOfNode DEF Shape
    <2>3. Contents(b)[k] = IF k = t.key THEN t.data
                           ELSE IF k < t.key THEN Contents(l.right)[k]
                                ELSE Contents(t.right)[k]
      BY <1>6, <1>7, ContentsOfNode DEF Shape
    <2>4. Contents(c)[k] = IF k = l.key THEN l.data
                           ELSE IF k < l.key THEN Contents(l.left)[k]
                                ELSE Contents(b)[k]
      BY <1>10, <1>12, ContentsOfNode DEF Shape
    <2>5. l.key \in Int /\ t.key \in Int /\ k \in Int /\ l.key < t.key
      BY <1>1, <1>2, KeysAssumption DEF Shape, Below
    <2> HIDE DEF l
    <2> QED
      BY <2>1, <2>2, <2>3, <2>4, <2>5
  <1>16. Contents(c) = Contents(t)
    BY <1>1, <1>12, <1>15, ContentsType, Children
  <1>17. RotateRight(t) = update_depth(c)
    BY DEF RotateRight, a, b, c
  <1> QED
    BY <1>13, <1>14, <1>16, <1>17 DEF Same

\* The same from the other side.
LEMMA RotateLeftGood ==
    ASSUME NEW t, Shape(t), t.right # NULL
    PROVE  Good(RotateLeft(t)) /\ RotateLeft(t) # NULL /\ Same(RotateLeft(t), t)
  <1> DEFINE r == t.right
             a == [t EXCEPT !.right = r.left]
             b == update_depth(a)
             c == [r EXCEPT !.left = b]
  <1>1. Good(r) /\ Shape(r) /\ r \in Node /\ t \in Node /\ Good(t.left)
    BY GoodIsShape, ShapeIsTree DEF Shape
  <1>2. /\ KeysOf(t) = {t.key} \cup KeysOf(r) \cup KeysOf(t.left)
        /\ KeysOf(r) = {r.key} \cup KeysOf(r.right) \cup KeysOf(r.left)
    BY <1>1, KeysOfNode
  <1>3. a = [key |-> t.key, data |-> t.data, depth |-> t.depth,
             left |-> t.left, right |-> r.left]
    BY DEF Shape, IsNode
  <1>4. /\ IsNode(a) /\ a.depth = t.depth /\ a.key = t.key /\ a.data = t.data
        /\ a.right = r.left /\ a.left = t.left
    BY <1>3 DEF IsNode
  <1> HIDE DEF a
  <1>5. Shape(a)
    <2>1. Good(r.left) /\ Above(r.left, t.key)
      BY <1>1, <1>2 DEF Shape, Above
    <2> QED
      BY <1>4, <2>1 DEF Shape
  <1>6. /\ Good(b) /\ b # NULL /\ Same(b, a)
        /\ b.key = t.key /\ b.data = t.data /\ b.right = r.left /\ b.left = t.left
    BY <1>4, <1>5, UpdateDepth
  <1> HIDE DEF b
  <1>7. Shape(b) /\ b \in Node
    BY <1>6, GoodIsShape
  <1>8. KeysOf(b) = {t.key} \cup KeysOf(r.left) \cup KeysOf(t.left)
    BY <1>6, <1>7, KeysOfNode
  <1>9. c = [key |-> r.key, data |-> r.data, depth |-> r.depth,
             left |-> b, right |-> r.right]
    BY <1>1 DEF Shape, IsNode
  <1>10. /\ IsNode(c) /\ c.depth = r.depth /\ c.key = r.key /\ c.data = r.data
         /\ c.right = r.right /\ c.left = b
    BY <1>9 DEF IsNode
  <1> HIDE DEF c
  <1>11. Below(b, r.key)
    <2>1. r.key \in Int /\ t.key \in Int /\ \A x \in KeysOf(t.left) : x \in Int
      BY <1>1, KeysAssumption, SubtreesType DEF Shape, Good
    <2>2. t.key < r.key
      BY <1>2 DEF Shape, Above
    <2>3. \A x \in KeysOf(t.left) : x < r.key
      BY <2>1, <2>2 DEF Shape, Below
    <2>4. \A x \in KeysOf(r.left) : x < r.key
      BY <1>1 DEF Shape, Below
    <2> QED
      BY <1>8, <2>2, <2>3, <2>4 DEF Below
  <1>12. Shape(c) /\ c \in Node
    BY <1>1, <1>6, <1>10, <1>11, ShapeIsTree DEF Shape
  <1>13. Good(update_depth(c)) /\ update_depth(c) # NULL /\ Same(update_depth(c), c)
    BY <1>12, UpdateDepth
  <1>14. KeysOf(c) = KeysOf(t)
    BY <1>2, <1>8, <1>10, <1>12, KeysOfNode
  <1>15. ASSUME NEW k \in Keys PROVE Contents(c)[k] = Contents(t)[k]
    <2>1. Contents(t)[k] = IF k = t.key THEN t.data
                           ELSE IF k < t.key THEN Contents(t.left)[k]
                                ELSE Contents(r)[k]
      BY <1>1, ContentsOfNode DEF Shape
    <2>2. Contents(r)[k] = IF k = r.key THEN r.data
                           ELSE IF k < r.key THEN Contents(r.left)[k]
                                ELSE Contents(r.right)[k]
      BY <1>1, ContentsOfNode DEF Shape
    <2>3. Contents(b)[k] = IF k = t.key THEN t.data
                           ELSE IF k < t.key THEN Contents(t.left)[k]
                                ELSE Contents(r.left)[k]
      BY <1>6, <1>7, ContentsOfNode DEF Shape
    <2>4. Contents(c)[k] = IF k = r.key THEN r.data
                           ELSE IF k < r.key THEN Contents(b)[k]
                                ELSE Contents(r.right)[k]
      BY <1>10, <1>12, ContentsOfNode DEF Shape
    <2>5. r.key \in Int /\ t.key \in Int /\ k \in Int /\ t.key < r.key
      BY <1>1, <1>2, KeysAssumption DEF Shape, Above
    <2> HIDE DEF r
    <2> QED
      BY <2>1, <2>2, <2>3, <2>4, <2>5
  <1>16. Contents(c) = Contents(t)
    BY <1>1, <1>12, <1>15, ContentsType, Children
  <1>17. RotateLeft(t) = update_depth(c)
    BY DEF RotateLeft, a, b, c
  <1> QED
    BY <1>13, <1>14, <1>16, <1>17 DEF Same

\* Whatever depths it compares, rebalance keeps the order, the keys and what they
\* stand for, and a true depth where there was one: a depth of 2 or more, or one
\* above another's, is that of a child which is there.
LEMMA RebalanceGood ==
    ASSUME NEW t, Shape(t)
    PROVE  LET u == rebalance(t)
           IN  Shape(u) /\ u # NULL /\ Same(u, t) /\ (Good(t) => Good(u))
  <1> DEFINE l == t.left
             r == t.right
  <1>1. Good(l) /\ Good(r) /\ t \in Node /\ t # NULL
    BY ShapeIsTree, Children DEF Shape
  <1>2. Depth(l) \in Nat /\ Depth(r) \in Nat
    BY <1>1, GoodDepth
  <1>3. CASE balance_factor(t) = 2
    <2>1. l # NULL
      BY <1>2, <1>3 DEF balance_factor, Depth
    <2>2. Good(RotateRight(t)) /\ RotateRight(t) # NULL /\ Same(RotateRight(t), t)
      BY <2>1, RotateRightGood
    <2>3. CASE balance_factor(l) < 0
      <3> DEFINE m == RotateLeft(l)
                 v == [t EXCEPT !.left = m]
      <3>1. Shape(l) /\ l \in Node
        BY <1>1, <2>1, GoodIsShape
      <3>2. l.right # NULL
        <4>1. Depth(l.left) \in Nat /\ Depth(l.right) \in Nat
          BY <3>1, GoodDepth DEF Shape
        <4> QED
          BY <2>3, <4>1 DEF balance_factor, Depth
      <3>3. Good(m) /\ m # NULL /\ Same(m, l)
        BY <3>1, <3>2, RotateLeftGood
      <3> HIDE DEF m
      <3>4. v = [key |-> t.key, data |-> t.data, depth |-> t.depth,
                 left |-> m, right |-> t.right]
        BY DEF Shape, IsNode
      <3>5. /\ IsNode(v) /\ v.depth = t.depth /\ v.key = t.key /\ v.data = t.data
            /\ v.left = m /\ v.right = t.right
        BY <3>4 DEF IsNode
      <3> HIDE DEF v
      <3>6. Shape(v)
        BY <3>3, <3>5 DEF Shape, Same, Below
      <3>7. Same(v, t)
        BY <3>3, <3>5, <3>6, SameNode DEF Same
      <3>8. Good(RotateRight(v)) /\ RotateRight(v) # NULL /\ Same(RotateRight(v), v)
        BY <3>3, <3>5, <3>6, RotateRightGood
      <3>9. rebalance(t) = RotateRight(v)
        BY <1>3, <2>3 DEF rebalance, v, m
      <3> QED
        BY <3>7, <3>8, <3>9, GoodIsShape DEF Same
    <2>4. CASE ~(balance_factor(l) < 0)
      <3>1. rebalance(t) = RotateRight(t)
        BY <1>3, <2>4 DEF rebalance
      <3> QED
        BY <2>2, <3>1, GoodIsShape
    <2> QED
      BY <2>3, <2>4
  <1>4. CASE balance_factor(t) = -2
    <2>1. r # NULL
      BY <1>2, <1>4 DEF balance_factor, Depth
    <2>2. Good(RotateLeft(t)) /\ RotateLeft(t) # NULL /\ Same(RotateLeft(t), t)
      BY <2>1, RotateLeftGood
    <2>3. CASE balance_factor(r) > 0
      <3> DEFINE m == RotateRight(r)
                 v == [t EXCEPT !.right = m]
      <3>1. Shape(r) /\ r \in Node
        BY <1>1, <2>1, GoodIsShape
      <3>2. r.left # NULL
        <4>1. Depth(r.left) \in Nat /\ Depth(r.right) \in Nat
          BY <3>1, GoodDepth DEF Shape
        <4> QED
          BY <2>3, <4>1 DEF balance_factor, Depth
      <3>3. Good(m) /\ m # NULL /\ Same(m, r)
        BY <3>1, <3>2, RotateRightGood
      <3> HIDE DEF m
      <3>4. v = [key |-> t.key, data |-> t.data, depth |-> t.depth,
                 left |-> t.left, right |-> m]
        BY DEF Shape, IsNode
      <3>5. /\ IsNode(v) /\ v.depth = t.depth /\ v.key = t.key /\ v.data = t.data
            /\ v.left = t.left /\ v.right = m
        BY <3>4 DEF IsNode
      <3> HIDE DEF v
      <3>6. Shape(v)
        BY <3>3, <3>5 DEF Shape, Same, Above
      <3>7. Same(v, t)
        BY <3>3, <3>5, <3>6, SameNode DEF Same
      <3>8. Good(RotateLeft(v)) /\ RotateLeft(v) # NULL /\ Same(RotateLeft(v), v)
        BY <3>3, <3>5, <3>6, RotateLeftGood
      <3>9. balance_factor(t) # 2
        BY <1>4
      <3>10. rebalance(t) = RotateLeft(v)
        BY <1>4, <2>3, <3>9 DEF rebalance, v, m
      <3> QED
        BY <3>7, <3>8, <3>10, GoodIsShape DEF Same
    <2>4. CASE ~(balance_factor(r) > 0)
      <3>1. rebalance(t) = RotateLeft(t)
        BY <1>4, <2>4 DEF rebalance
      <3> QED
        BY <2>2, <3>1, GoodIsShape
    <2> QED
      BY <2>3, <2>4
  <1>5. CASE balance_factor(t) # 2 /\ balance_factor(t) # -2
    <2>1. rebalance(t) = t
      BY <1>5 DEF rebalance
    <2> QED
      BY <1>1, <2>1 DEF Same
  <1> QED
    BY <1>3, <1>4, <1>5

\* insert_helper rotates and then updates; remove_helper updates and then rotates.
\* Both leave a node good.
LEMMA RebalanceThenUpdate ==
    ASSUME NEW t, Shape(t)
    PROVE  LET u == update_depth(rebalance(t))
           IN  Good(u) /\ u # NULL /\ Same(u, t)
  <1>1. Shape(rebalance(t)) /\ Same(rebalance(t), t)
    BY RebalanceGood
  <1> QED
    BY <1>1, UpdateDepth DEF Same

\* The order of remove_helper.
LEMMA UpdateThenRebalance ==
    ASSUME NEW t, Shape(t)
    PROVE  LET u == rebalance(update_depth(t))
           IN  Good(u) /\ u # NULL /\ Same(u, t)
  <1>1. /\ Good(update_depth(t)) /\ update_depth(t) # NULL
        /\ Same(update_depth(t), t)
    BY UpdateDepth
  <1>2. Shape(update_depth(t))
    BY <1>1, GoodIsShape
  <1> QED
    BY <1>1, <1>2, RebalanceGood DEF Same

---------------------------------------------------------------------------
(* Search, insertion and removal.                                           *)

\* A function from keys to data with another value for one key.
Put(m, k, v) == [m EXCEPT ![k] = v]

\* A changed subtree put back on the side of its key.
LEMMA GraftGood ==
    ASSUME NEW t, Shape(t), NEW k \in Keys, k # t.key, NEW s, Good(s), NEW v,
           NEW X \in SUBSET {k},
           KeysOf(s) \subseteq KeysOf(Descend(t, k)) \cup X,
           Contents(s) = Put(Contents(Descend(t, k)), k, v)
    PROVE  LET u == Graft(t, k, s)
           IN  /\ Shape(u) /\ u # NULL
               /\ KeysOf(u) \subseteq KeysOf(t) \cup X
               /\ Contents(u) = Put(Contents(t), k, v)
  <1> DEFINE u == Graft(t, k, s)
  <1>1. /\ t \in Node /\ t.key \in Int /\ k \in Int /\ t \in Tree
        /\ t.left \in Tree /\ t.right \in Tree /\ s \in Tree
    BY ShapeIsTree, KeysAssumption, Children DEF Good
  <1>2. KeysOf(t) = {t.key} \cup KeysOf(t.left) \cup KeysOf(t.right)
    BY <1>1, KeysOfNode
  <1>3. /\ Contents(t) \in [Keys -> Datas \cup {NULL}]
        /\ Contents(t.left) \in [Keys -> Datas \cup {NULL}]
        /\ Contents(t.right) \in [Keys -> Datas \cup {NULL}]
    BY <1>1, ContentsType
  <1>4. \A x \in Keys :
           Contents(t)[x] = IF x = t.key THEN t.data
                            ELSE IF x < t.key THEN Contents(t.left)[x]
                                 ELSE Contents(t.right)[x]
    BY <1>1, ContentsOfNode DEF Shape
  <1>5. CASE k < t.key
    <2>1. u = [key |-> t.key, data |-> t.data, depth |-> t.depth,
               left |-> s, right |-> t.right]
      BY <1>5 DEF Graft, Shape, IsNode
    <2>2. /\ IsNode(u) /\ u.depth = t.depth /\ u.key = t.key /\ u.data = t.data
          /\ u.left = s /\ u.right = t.right
      BY <2>1 DEF IsNode
    <2>3. Descend(t, k) = t.left
      BY <1>5 DEF Descend
    <2> HIDE DEF u
    <2>4. Below(s, t.key)
      BY <1>5, <2>3 DEF Below, Shape
    <2>5. Shape(u)
      BY <2>2, <2>4 DEF Shape
    <2>6. u \in Node /\ u # NULL /\ u \in Tree
      BY <2>5, ShapeIsTree, Children
    <2>7. KeysOf(u) \subseteq KeysOf(t) \cup X
      BY <1>2, <2>2, <2>3, <2>6, KeysOfNode
    <2>8. ASSUME NEW x \in Keys
          PROVE  Contents(u)[x] = Put(Contents(t), k, v)[x]
      <3>1. Contents(u)[x] = IF x = u.key THEN u.data
                             ELSE IF x < u.key THEN Contents(u.left)[x]
                                  ELSE Contents(u.right)[x]
        BY <2>5, <2>6, ContentsOfNode DEF Shape
      <3>2. Contents(s)[x] = IF x = k THEN v ELSE Contents(t.left)[x]
        BY <1>3, <2>3 DEF Put
      <3>3. Put(Contents(t), k, v)[x] = IF x = k THEN v ELSE Contents(t)[x]
        BY <1>3 DEF Put
      <3> QED
        BY <1>4, <1>5, <2>2, <3>1, <3>2, <3>3
    <2>9. Contents(u) = Put(Contents(t), k, v)
      <3>1. Contents(u) \in [Keys -> Datas \cup {NULL}]
        BY <2>6, ContentsType
      <3> QED
        BY <1>3, <2>8, <3>1 DEF Put
    <2> QED
      BY <2>5, <2>6, <2>7, <2>9 DEF u
  <1>6. CASE ~(k < t.key)
    <2>1. u = [key |-> t.key, data |-> t.data, depth |-> t.depth,
               left |-> t.left, right |-> s]
      BY <1>6 DEF Graft, Shape, IsNode
    <2>2. /\ IsNode(u) /\ u.depth = t.depth /\ u.key = t.key /\ u.data = t.data
          /\ u.left = t.left /\ u.right = s
      BY <2>1 DEF IsNode
    <2>3. Descend(t, k) = t.right
      BY <1>6 DEF Descend
    <2> HIDE DEF u
    <2>4. Above(s, t.key)
      <3>1. t.key < k
        BY <1>1, <1>6
      <3> QED
        BY <2>3, <3>1 DEF Above, Shape
    <2>5. Shape(u)
      BY <2>2, <2>4 DEF Shape
    <2>6. u \in Node /\ u # NULL /\ u \in Tree
      BY <2>5, ShapeIsTree, Children
    <2>7. KeysOf(u) \subseteq KeysOf(t) \cup X
      BY <1>2, <2>2, <2>3, <2>6, KeysOfNode
    <2>8. ASSUME NEW x \in Keys
          PROVE  Contents(u)[x] = Put(Contents(t), k, v)[x]
      <3>1. Contents(u)[x] = IF x = u.key THEN u.data
                             ELSE IF x < u.key THEN Contents(u.left)[x]
                                  ELSE Contents(u.right)[x]
        BY <2>5, <2>6, ContentsOfNode DEF Shape
      <3>2. Contents(s)[x] = IF x = k THEN v ELSE Contents(t.right)[x]
        BY <1>3, <2>3 DEF Put
      <3>3. Put(Contents(t), k, v)[x] = IF x = k THEN v ELSE Contents(t)[x]
        BY <1>3 DEF Put
      <3> QED
        BY <1>1, <1>4, <1>6, <2>2, <3>1, <3>2, <3>3
    <2>9. Contents(u) = Put(Contents(t), k, v)
      <3>1. Contents(u) \in [Keys -> Datas \cup {NULL}]
        BY <2>6, ContentsType
      <3> QED
        BY <1>3, <2>8, <3>1 DEF Put
    <2> QED
      BY <2>5, <2>6, <2>7, <2>9 DEF u
  <1> QED
    BY <1>5, <1>6

\* The side on which a key's data are.
LEMMA DescendGood ==
    ASSUME NEW t, Shape(t), NEW k \in Keys, k # t.key
    PROVE  /\ Good(Descend(t, k))
           /\ Contents(t)[k] = Contents(Descend(t, k))[k]
  <1>1. t \in Node
    BY ShapeIsTree
  <1> QED
    BY <1>1, ContentsOfNode DEF Shape, Descend

\* search returns what the tree has for a key.
LEMMA SearchFinds ==
    ASSUME NEW t, Good(t), NEW k \in Keys
    PROVE  search(k)[t] = Contents(t)[k]
  <1> DEFINE P == {s \in Tree : Good(s) => search(k)[s] = Contents(s)[k]}
  <1>1. NULL \in P
    BY NullTree, SearchStep, ContentsOfNull
  <1>2. ASSUME NEW s \in Node, s.left \in P, s.right \in P
        PROVE  s \in P
    <2> SUFFICES ASSUME Good(s) PROVE search(k)[s] = Contents(s)[k]
      BY Children
    <2>1. Shape(s)
      BY Children, GoodIsShape
    <2>2. CASE k = s.key
      <3>1. search(k)[s] = s.data
        BY <2>2, SearchStep
      <3> QED
        BY <2>1, <2>2, <3>1, ContentsOfNode DEF Shape
    <2>3. CASE k # s.key
      <3>1. search(k)[s] = search(k)[Descend(s, k)]
        BY <2>3, SearchStep
      <3>2. Descend(s, k) \in P
        BY <1>2 DEF Descend
      <3> QED
        BY <2>1, <2>3, <3>1, <3>2, DescendGood
    <2> QED
      BY <2>2, <2>3
  <1>3. Tree \subseteq P
    <2> HIDE DEF P
    <2> QED
      BY <1>1, <1>2, TreeInduction
  <1> QED
    BY <1>3 DEF Good

\* The node that insert_helper allocates is a good tree of one key.
LEMMA LeafGood ==
    ASSUME NEW k \in Keys, NEW d \in Datas
    PROVE  /\ Good(Leaf(k, d)) /\ Leaf(k, d) # NULL
           /\ KeysOf(Leaf(k, d)) = {k}
           /\ Contents(Leaf(k, d)) = Put(Contents(NULL), k, d)
  <1> DEFINE u == Leaf(k, d)
  <1>1. /\ IsNode(u) /\ u.key = k /\ u.data = d /\ u.depth = 1
        /\ u.left = NULL /\ u.right = NULL
    BY DEF Leaf, IsNode
  <1> HIDE DEF u
  <1>2. Shape(u)
    BY <1>1, GoodNull, KeysOfNull DEF Shape, Below, Above
  <1>3. u \in Node /\ u \in Tree /\ u # NULL
    BY <1>2, ShapeIsTree, Children
  <1>4. Height[u] = 1
    BY <1>1, <1>3, HeightStep DEF Larger
  <1>5. Good(u)
    BY <1>1, <1>2, <1>4, ShapeIsTree DEF Close
  <1>6. KeysOf(u) = {k}
    BY <1>1, <1>3, KeysOfNode, KeysOfNull
  <1>7. ASSUME NEW x \in Keys
        PROVE  Contents(u)[x] = Put(Contents(NULL), k, d)[x]
    <2>1. Contents(u)[x] = IF x = u.key THEN u.data
                           ELSE IF x < u.key THEN Contents(u.left)[x]
                                ELSE Contents(u.right)[x]
      BY <1>2, <1>3, ContentsOfNode DEF Shape
    <2> QED
      BY <1>1, <2>1, ContentsOfNull DEF Put
  <1>8. Contents(u) = Put(Contents(NULL), k, d)
    <2>1. Contents(u) \in [Keys -> Datas \cup {NULL}]
      BY <1>3, ContentsType
    <2> QED
      BY <1>7, <2>1, ContentsOfNull DEF Put
  <1> QED
    BY <1>3, <1>5, <1>6, <1>8 DEF u

\* What insert_helper makes of a tree: a good one, with the key's data replaced.
Inserted(t, k, d, r) ==
    /\ Good(r.node) /\ KeysOf(r.node) \subseteq KeysOf(t) \cup {k}
    /\ Contents(r.node) = Put(Contents(t), k, d)
    /\ r.ret = Contents(t)[k]

\* insert_helper replaces the data of one key, whatever it rotates on the way back.
LEMMA InsertInserts ==
    ASSUME NEW t, Good(t), NEW k \in Keys, NEW d \in Datas
    PROVE  Inserted(t, k, d, insert_helper(k, d)[t])
  <1> DEFINE P == {s \in Tree : Good(s) => Inserted(s, k, d, insert_helper(k, d)[s])}
  <1>1. NULL \in P
    <2>1. insert_helper(k, d)[NULL] = [node |-> Leaf(k, d), ret |-> NULL]
      BY InsertStep
    <2>2. Contents(NULL)[k] = NULL
      BY ContentsOfNull
    <2> DEFINE r == insert_helper(k, d)[NULL]
    <2>3. Inserted(NULL, k, d, r)
      <3>1. r.node = Leaf(k, d) /\ r.ret = NULL
        BY <2>1
      <3> HIDE DEF r
      <3> QED
        BY <2>2, <3>1, LeafGood DEF Inserted
    <2> QED
      BY <2>3, NullTree
  <1>2. ASSUME NEW s \in Node, s.left \in P, s.right \in P
        PROVE  s \in P
    <2> SUFFICES ASSUME Good(s) PROVE Inserted(s, k, d, insert_helper(k, d)[s])
      BY Children
    <2>1. Shape(s) /\ Close(s) /\ s \in Tree
      BY Children, GoodIsShape
    <2>2. CASE k = s.key
      <3> DEFINE u == [s EXCEPT !.data = d]
      <3>1. insert_helper(k, d)[s] = [node |-> u, ret |-> s.data]
        BY <2>2, InsertStep
      <3>2. u = [key |-> s.key, data |-> d, depth |-> s.depth,
                 left |-> s.left, right |-> s.right]
        BY <2>1 DEF Shape, IsNode
      <3>3. /\ IsNode(u) /\ u.key = s.key /\ u.data = d /\ u.depth = s.depth
            /\ u.left = s.left /\ u.right = s.right
        BY <3>2 DEF IsNode
      <3> HIDE DEF u
      <3>4. Shape(u)
        BY <2>1, <3>3 DEF Shape
      <3>5. u \in Node /\ u \in Tree
        BY <3>4, ShapeIsTree, Children
      <3>6. Good(u)
        <4>1. Height[u] = Height[s]
          BY <3>3, <3>5, HeightStep
        <4> QED
          BY <2>1, <3>3, <3>4, <4>1, ShapeIsTree DEF Close
      <3>7. KeysOf(u) \subseteq KeysOf(s) \cup {k}
        BY <3>3, <3>5, KeysOfNode
      <3>8. Contents(u) = Put(Contents(s), k, d) /\ Contents(s)[k] = s.data
        <4>1. \A x \in Keys :
                 Contents(u)[x] = IF x = u.key THEN u.data
                                  ELSE IF x < u.key THEN Contents(u.left)[x]
                                       ELSE Contents(u.right)[x]
          BY <3>4, <3>5, ContentsOfNode DEF Shape
        <4>2. \A x \in Keys :
                 Contents(s)[x] = IF x = s.key THEN s.data
                                  ELSE IF x < s.key THEN Contents(s.left)[x]
                                       ELSE Contents(s.right)[x]
          BY <2>1, ContentsOfNode DEF Shape
        <4>3. /\ Contents(u) \in [Keys -> Datas \cup {NULL}]
              /\ Contents(s) \in [Keys -> Datas \cup {NULL}]
          BY <2>1, <3>5, ContentsType
        <4>4. \A x \in Keys : Contents(u)[x] = Put(Contents(s), k, d)[x]
          BY <2>2, <3>3, <4>1, <4>2, <4>3 DEF Put
        <4> QED
          BY <2>2, <4>2, <4>3, <4>4 DEF Put
      <3> QED
        BY <3>1, <3>6, <3>7, <3>8 DEF Inserted
    <2>3. CASE k # s.key
      <3> DEFINE c == Descend(s, k)
                 sub == insert_helper(k, d)[c]
                 u == Graft(s, k, sub.node)
                 v == update_depth(rebalance(u))
      <3>1. insert_helper(k, d)[s] = [node |-> v, ret |-> sub.ret]
        BY <2>3, InsertStep
      <3>2. c \in P /\ Good(c) /\ Contents(s)[k] = Contents(c)[k]
        BY <1>2, <2>1, <2>3, DescendGood DEF Descend
      <3>3. Inserted(c, k, d, sub)
        BY <3>2
      <3>4. /\ Shape(u) /\ KeysOf(u) \subseteq KeysOf(s) \cup {k}
            /\ Contents(u) = Put(Contents(s), k, d)
        <4> DEFINE n == sub.node
                   X == {k}
        <4>1. /\ Good(n) /\ KeysOf(n) \subseteq KeysOf(Descend(s, k)) \cup X
              /\ Contents(n) = Put(Contents(Descend(s, k)), k, d)
          BY <3>3 DEF Inserted
        <4>2. X \in SUBSET {k}
          OBVIOUS
        <4> HIDE DEF n, X
        <4>3. LET w == Graft(s, k, n)
              IN  /\ Shape(w) /\ w # NULL
                  /\ KeysOf(w) \subseteq KeysOf(s) \cup X
                  /\ Contents(w) = Put(Contents(s), k, d)
          BY <2>1, <2>3, <4>1, <4>2, GraftGood
        <4> QED
          BY <4>3 DEF n, X
      <3>5. Good(v) /\ Same(v, u)
        <4> HIDE DEF u
        <4> QED
          BY <3>4, RebalanceThenUpdate
      <3> HIDE DEF v, u, sub, c
      <3> QED
        BY <3>1, <3>2, <3>3, <3>4, <3>5 DEF Inserted, Same
    <2> QED
      BY <2>2, <2>3
  <1>3. Tree \subseteq P
    <2> HIDE DEF P
    <2> QED
      BY <1>1, <1>2, TreeInduction
  <1> QED
    BY <1>3 DEF Good

\* remove_depth_helper leaves a good tree good.
LEMMA RemoveDepthGood ==
    ASSUME NEW t, Good(t)
    PROVE  Good(remove_depth_helper[t]) /\ Same(remove_depth_helper[t], t)
  <1> DEFINE D(s) == remove_depth_helper[s]
             P == {s \in Tree : Good(s) => Good(D(s)) /\ Same(D(s), s)}
  <1>1. NULL \in P
    BY NullTree, RemoveDepthStep DEF Same
  <1>2. ASSUME NEW s \in Node, s.left \in P, s.right \in P
        PROVE  s \in P
    <2> SUFFICES ASSUME Good(s) PROVE Good(D(s)) /\ Same(D(s), s)
      BY Children
    <2>1. Shape(s)
      BY Children, GoodIsShape
    <2> DEFINE q == D(s.right)
               u == [s EXCEPT !.right = q]
    <2>2. Good(q) /\ Same(q, s.right)
      BY <1>2, <2>1 DEF Shape
    <2>3. D(s) = update_depth(u)
      BY RemoveDepthStep
    <2> HIDE DEF D, q
    <2>4. u = [key |-> s.key, data |-> s.data, depth |-> s.depth,
               left |-> s.left, right |-> q]
      BY <2>1 DEF Shape, IsNode
    <2>5. /\ IsNode(u) /\ u.key = s.key /\ u.data = s.data /\ u.depth = s.depth
          /\ u.left = s.left /\ u.right = q
      BY <2>4 DEF IsNode
    <2> HIDE DEF u
    <2>6. Shape(u)
      BY <2>1, <2>2, <2>5 DEF Shape, Same, Above
    <2>7. Same(u, s)
      BY <2>1, <2>2, <2>5, <2>6, SameNode DEF Same
    <2>8. Good(update_depth(u)) /\ Same(update_depth(u), u)
      BY <2>6, UpdateDepth
    <2> QED
      BY <2>3, <2>7, <2>8 DEF Same
  <1>3. Tree \subseteq P
    <2> HIDE DEF P
    <2> QED
      BY <1>1, <1>2, TreeInduction
  <1> QED
    BY <1>3 DEF Good

\* What TakeLast takes: the greatest key, with its data, out of a tree of no more
\* levels that is good again once remove_depth_helper has gone over it.
Taken(t, r) ==
    /\ \A n \in 0..N : t \in Trees[n] => r.rest \in Trees[n]
    /\ r.last \in Node
    /\ r.last.key \in KeysOf(t) /\ r.last.data = Contents(t)[r.last.key]
    /\ \A x \in KeysOf(t) : x <= r.last.key
    /\ LET q == remove_depth_helper[r.rest]
       IN  /\ Good(q) /\ KeysOf(q) \subseteq KeysOf(t) \ {r.last.key}
           /\ Contents(q) = Put(Contents(t), r.last.key, NULL)

\* The node itself is the last one.
LEMMA TakeLastHere ==
    ASSUME NEW t, Good(t), t # NULL, t.right = NULL
    PROVE  Taken(t, TakeLast[t])
  <1> DEFINE r == TakeLast[t]
             q == remove_depth_helper[t.left]
             m == t.key
  <1>1. t \in Node /\ Shape(t) /\ t \in Tree
    BY GoodIsShape, Children
  <1>2. r.last = t /\ r.rest = t.left
    <2>1. r = [last |-> t, rest |-> t.left]
      BY <1>1, TakeLastStep
    <2> HIDE DEF r
    <2> QED
      BY <2>1
  <1>3. Good(q) /\ Same(q, t.left)
    BY <1>1, RemoveDepthGood DEF Shape
  <1>4. /\ m \in Keys /\ m \in Int
        /\ KeysOf(t.left) \subseteq Int /\ t.left \in Tree
    BY <1>1, KeysAssumption, SubtreesType, Children
  <1>5. KeysOf(t) = {m} \cup KeysOf(t.left)
    BY <1>1, KeysOfNode, KeysOfNull
  <1>6. ASSUME NEW n \in 0..N, t \in Trees[n] PROVE t.left \in Trees[n]
    <2>1. n \in 1..N /\ n - 1 \in 0..N /\ t \in NodesOver(Trees[n - 1])
      BY <1>1, <1>6, ChildLevels, Children
    <2>2. Trees[n - 1] \subseteq Trees[n]
      BY <2>1, TreesMonotone, NType
    <2> QED
      BY <2>1, <2>2 DEF NodesOver
  <1>7. ASSUME NEW x \in Keys
        PROVE  /\ Contents(t)[x] = IF x = m THEN t.data ELSE Contents(t.left)[x]
               /\ Contents(t.left)[m] = NULL
    <2>1. Contents(t)[x] = IF x = m THEN t.data
                           ELSE IF x < m THEN Contents(t.left)[x]
                                ELSE Contents(t.right)[x]
      BY <1>1, ContentsOfNode DEF Shape
    <2>2. Contents(t.right)[x] = NULL
      BY ContentsOfNull
    <2>3. ~(x < m) => x \notin KeysOf(t.left)
      BY <1>1 DEF Shape, Below
    <2>4. ~(x < m) => Contents(t.left)[x] = NULL
      BY <1>4, <2>3, ContentsAbsent
    <2>5. m \notin KeysOf(t.left)
      BY <1>1, <1>4 DEF Shape, Below
    <2>6. Contents(t.left)[m] = NULL
      BY <1>4, <2>5, ContentsAbsent
    <2> QED
      BY <2>1, <2>2, <2>4, <2>6
  <1>8. Contents(t.left) = Put(Contents(t), m, NULL)
    <2>1. /\ Contents(t) \in [Keys -> Datas \cup {NULL}]
          /\ Contents(t.left) \in [Keys -> Datas \cup {NULL}]
      BY <1>1, <1>4, ContentsType
    <2>2. \A x \in Keys : Contents(t.left)[x] = Put(Contents(t), m, NULL)[x]
      BY <1>4, <1>7, <2>1 DEF Put
    <2>3. Put(Contents(t), m, NULL) = [x \in Keys |-> Put(Contents(t), m, NULL)[x]]
      BY <2>1 DEF Put
    <2> QED
      BY <2>1, <2>2, <2>3
  <1>9. Contents(t)[m] = t.data
    BY <1>4, <1>7
  <1>10. \A x \in KeysOf(t) : x <= m
    BY <1>1, <1>4, <1>5 DEF Shape, Below
  <1>11. KeysOf(q) \subseteq KeysOf(t) \ {m}
    BY <1>1, <1>3, <1>4, <1>5 DEF Same, Shape, Below
  <1>12. m \in KeysOf(t)
    BY <1>5
  <1> HIDE DEF r
  <1> QED
    BY <1>1, <1>2, <1>3, <1>6, <1>8, <1>9, <1>10, <1>11, <1>12 DEF Taken, Same, r

\* The last node is further down on the right.
LEMMA TakeLastBelow ==
    ASSUME NEW t, Good(t), t # NULL, t.right # NULL,
           NEW sub, sub = TakeLast[t.right], Taken(t.right, sub)
    PROVE  Taken(t, TakeLast[t])
  <1> DEFINE r == TakeLast[t]
             v == [t EXCEPT !.right = sub.rest]
             q == remove_depth_helper[sub.rest]
             m == sub.last.key
             u == Graft(t, m, q)
  <1>1. t \in Node /\ Shape(t) /\ t \in Tree
    BY GoodIsShape, Children
  <1>2. r.last = sub.last /\ r.rest = v
    <2>1. r = [last |-> sub.last, rest |-> v]
      BY <1>1, TakeLastStep
    <2> HIDE DEF r, v
    <2> QED
      BY <2>1
  <1>3. /\ m \in KeysOf(t.right) /\ Good(q) /\ KeysOf(q) \subseteq KeysOf(t.right) \ {m}
        /\ Contents(q) = Put(Contents(t.right), m, NULL)
    BY DEF Taken
  <1>4. v = [key |-> t.key, data |-> t.data, depth |-> t.depth,
             left |-> t.left, right |-> sub.rest]
    BY <1>1 DEF Shape, IsNode
  <1>5. /\ IsNode(v) /\ v.key = t.key /\ v.data = t.data /\ v.depth = t.depth
        /\ v.left = t.left /\ v.right = sub.rest
    BY <1>4 DEF IsNode
  <1> HIDE DEF v
  <1>6. ASSUME NEW n \in 0..N, t \in Trees[n]
        PROVE  v \in Trees[n] /\ v # NULL
    <2>1. n \in 1..N /\ n - 1 \in 0..N /\ t \in NodesOver(Trees[n - 1])
      BY <1>1, <1>6, ChildLevels, Children
    <2>2. t.left \in Trees[n - 1] /\ t.right \in Trees[n - 1]
      BY <2>1 DEF NodesOver
    <2>3. sub.rest \in Trees[n - 1]
      BY <2>1, <2>2 DEF Taken
    <2>4. v \in NodesOver(Trees[n - 1])
      BY <1>1, <1>4, <2>2, <2>3, Children DEF NodesOver
    <2> QED
      BY <2>1, <2>4, TreesStep, NullIsNoNode
  <1>7. v \in Node
    <2>1. t \in Trees[N] /\ N \in 0..N
      BY <1>1, NType DEF Tree, N
    <2> QED
      BY <1>6, <2>1, LevelsAreTrees DEF Node
  <1>8. /\ m \in Keys /\ m \in Int /\ t.key \in Int /\ t.key < m
        /\ KeysOf(t.left) \subseteq Int /\ t.left \in Tree /\ t.right \in Tree
    <2>1. /\ t.left \in Tree /\ t.right \in Tree /\ t.key \in Int
          /\ KeysOf(t.left) \subseteq Int /\ KeysOf(t.right) \subseteq Keys
      BY <1>1, KeysAssumption, SubtreesType, Children
    <2> HIDE DEF m
    <2> QED
      BY <1>1, <1>3, <2>1, KeysAssumption DEF Shape, Above
  <1>9. Descend(t, m) = t.right /\ u = [t EXCEPT !.right = q]
    BY <1>8 DEF Descend, Graft
  <1>10. u = [key |-> t.key, data |-> t.data, depth |-> t.depth,
              left |-> t.left, right |-> q]
    BY <1>1, <1>9 DEF Shape, IsNode
  <1>11. u.key = t.key /\ u.left = t.left /\ u.right = q
    BY <1>10
  <1>12. remove_depth_helper[v] = update_depth(u)
    <2>1. [v EXCEPT !.right = q] = u
      BY <1>4, <1>10
    <2> QED
      BY <1>5, <1>7, <2>1, RemoveDepthStep
  <1> HIDE DEF m, q, u
  <1>13. Shape(u) /\ Contents(u) = Put(Contents(t), m, NULL)
    <2> DEFINE X == {}
    <2>1. X \in SUBSET {m} /\ m # t.key
      BY <1>8
    <2>2. /\ KeysOf(q) \subseteq KeysOf(Descend(t, m)) \cup X
          /\ Contents(q) = Put(Contents(Descend(t, m)), m, NULL)
      BY <1>3, <1>9
    <2> HIDE DEF X
    <2>3. /\ Shape(Graft(t, m, q)) /\ Graft(t, m, q) # NULL
          /\ KeysOf(Graft(t, m, q)) \subseteq KeysOf(t) \cup X
          /\ Contents(Graft(t, m, q)) = Put(Contents(t), m, NULL)
      BY <1>1, <1>3, <1>8, <2>1, <2>2, GraftGood
    <2> QED
      BY <2>3 DEF u
  <1>14. KeysOf(t) = {t.key} \cup KeysOf(t.left) \cup KeysOf(t.right)
    BY <1>1, KeysOfNode
  <1>15. \A x \in {t.key} \cup KeysOf(t.left) : x < m
    BY <1>1, <1>8 DEF Shape, Below
  <1>16. KeysOf(u) \subseteq KeysOf(t) \ {m}
    <2>1. KeysOf(u) = {t.key} \cup KeysOf(t.left) \cup KeysOf(q)
      BY <1>11, <1>13, ShapeIsTree, KeysOfNode
    <2>2. m \notin {t.key} \cup KeysOf(t.left)
      BY <1>8, <1>15
    <2> QED
      BY <1>3, <1>14, <2>1, <2>2
  <1>17. Good(update_depth(u)) /\ Same(update_depth(u), u)
    BY <1>13, UpdateDepth
  <1>18. \A x \in KeysOf(t) : x <= m
    <2>1. \A x \in KeysOf(t.right) : x <= m
      BY DEF Taken, m
    <2> QED
      BY <1>8, <1>14, <1>15, <2>1
  <1>19. Contents(t)[m] = sub.last.data /\ sub.last \in Node
    <2>1. sub.last.data = Contents(t.right)[m] /\ sub.last \in Node
      BY DEF Taken, m
    <2>2. Contents(t)[m] = Contents(t.right)[m]
      BY <1>1, <1>8, ContentsOfNode DEF Shape
    <2> QED
      BY <2>1, <2>2
  <1>20. r.last.key = m
    BY <1>2 DEF m
  <1>21. remove_depth_helper[r.rest] = update_depth(u)
    BY <1>2, <1>12
  <1>22. m \in KeysOf(t)
    BY <1>3, <1>14
  <1>23. \A n \in 0..N : t \in Trees[n] => r.rest \in Trees[n]
    BY <1>2, <1>6
  <1>24. r.last \in Node /\ r.last.data = Contents(t)[m]
    BY <1>2, <1>19
  <1> HIDE DEF r
  <1>25. Taken(t, r)
    BY <1>13, <1>16, <1>17, <1>18, <1>20, <1>21, <1>22, <1>23, <1>24 DEF Taken, Same
  <1> QED
    BY <1>25 DEF r

\* So TakeLast takes the greatest key, however long the right spine is.
LEMMA TakeLastTakes ==
    ASSUME NEW t, Good(t), t # NULL
    PROVE  Taken(t, TakeLast[t])
  <1> DEFINE P == {s \in Tree : Good(s) /\ s # NULL => Taken(s, TakeLast[s])}
  <1>1. NULL \in P
    BY NullTree
  <1>2. ASSUME NEW s \in Node, s.left \in P, s.right \in P
        PROVE  s \in P
    <2> SUFFICES ASSUME Good(s) PROVE Taken(s, TakeLast[s])
      BY Children
    <2>1. s # NULL /\ Shape(s)
      BY Children, GoodIsShape
    <2>2. CASE s.right = NULL
      BY <2>1, <2>2, TakeLastHere
    <2>3. CASE s.right # NULL
      <3>1. Good(s.right)
        BY <2>1 DEF Shape
      <3>2. Taken(s.right, TakeLast[s.right])
        BY <1>2, <2>3, <3>1
      <3> QED
        BY <2>1, <2>3, <3>2, TakeLastBelow
    <2> QED
      BY <2>2, <2>3
  <1>3. Tree \subseteq P
    <2> HIDE DEF P
    <2> QED
      BY <1>1, <1>2, TreeInduction
  <1> QED
    BY <1>3 DEF Good

\* What stands in for a removed node.
Replaced(t, u) ==
    /\ Good(u) \/ Shape(u)
    /\ KeysOf(u) \subseteq KeysOf(t)
    /\ Contents(u) = Put(Contents(t), t.key, NULL)

\* A node with one child is replaced by it.
LEMMA ReplacedByChild ==
    ASSUME NEW t, Good(t), t # NULL,
           NEW u, \/ t.left = NULL /\ u = t.right
                  \/ t.right = NULL /\ u = t.left
    PROVE  Replaced(t, u)
  <1>1. t \in Node /\ Shape(t) /\ t \in Tree
    BY GoodIsShape, Children
  <1>2. Good(u) /\ u \in Tree
    BY <1>1 DEF Shape, Good
  <1>3. KeysOf(u) \subseteq KeysOf(t)
    BY <1>1, KeysOfNode
  <1>4. t.key \in Keys /\ t.key \in Int /\ t.left \in Tree /\ t.right \in Tree
    BY <1>1, KeysAssumption, Children
  <1>5. ASSUME NEW x \in Keys
        PROVE  Contents(u)[x] = Put(Contents(t), t.key, NULL)[x]
    <2>1. Contents(t)[x] = IF x = t.key THEN t.data
                           ELSE IF x < t.key THEN Contents(t.left)[x]
                                ELSE Contents(t.right)[x]
      BY <1>1, ContentsOfNode DEF Shape
    <2>2. Contents(t) \in [Keys -> Datas \cup {NULL}]
      BY <1>1, ContentsType
    <2>3. Put(Contents(t), t.key, NULL)[x] = IF x = t.key THEN NULL ELSE Contents(t)[x]
      BY <2>2 DEF Put
    <2>4. ~(x > t.key) => Contents(t.right)[x] = NULL
      <3>1. ~(x > t.key) => x \notin KeysOf(t.right)
        BY <1>1 DEF Shape, Above
      <3> QED
        BY <1>4, <3>1, ContentsAbsent
    <2>5. ~(x < t.key) => Contents(t.left)[x] = NULL
      <3>1. ~(x < t.key) => x \notin KeysOf(t.left)
        BY <1>1 DEF Shape, Below
      <3> QED
        BY <1>4, <3>1, ContentsAbsent
    <2>6. Contents(NULL)[x] = NULL
      BY ContentsOfNull
    <2>7. x \in Int
      BY KeysAssumption
    <2> QED
      BY <1>4, <2>1, <2>3, <2>4, <2>5, <2>6, <2>7
  <1>6. Contents(u) = Put(Contents(t), t.key, NULL)
    <2>1. /\ Contents(t) \in [Keys -> Datas \cup {NULL}]
          /\ Contents(u) \in [Keys -> Datas \cup {NULL}]
      BY <1>1, <1>2, ContentsType
    <2>2. Put(Contents(t), t.key, NULL)
             = [x \in Keys |-> Put(Contents(t), t.key, NULL)[x]]
      BY <2>1 DEF Put
    <2> QED
      BY <1>5, <2>1, <2>2
  <1> QED
    BY <1>2, <1>3, <1>6 DEF Replaced

\* t with what TakeLast has taken out of its left subtree in place of its own.
TakeOver(t, y) == [t EXCEPT !.key = y.last.key, !.data = y.last.data,
                            !.left = remove_depth_helper[y.rest]]

\* A node with two children takes the greatest key on its left.
LEMMA ReplacedByLast ==
    ASSUME NEW t, Good(t), t # NULL, t.left # NULL, t.right # NULL,
           NEW y, Taken(t.left, y)
    PROVE  Replaced(t, TakeOver(t, y))
  <1> DEFINE q == remove_depth_helper[y.rest]
             m == y.last.key
             e == y.last.data
             u == TakeOver(t, y)
  <1>1. t \in Node /\ Shape(t) /\ t \in Tree
    BY GoodIsShape, Children
  <1>2. /\ m \in KeysOf(t.left) /\ \A x \in KeysOf(t.left) : x <= m
        /\ Good(q) /\ KeysOf(q) \subseteq KeysOf(t.left) \ {m}
        /\ Contents(q) = Put(Contents(t.left), m, NULL)
        /\ e = Contents(t.left)[m] /\ e \in Datas
    BY Children DEF Taken
  <1>3. u = [key |-> m, data |-> e, depth |-> t.depth, left |-> q, right |-> t.right]
    <2>1. u = [t EXCEPT !.key = m, !.data = e, !.left = q]
      BY DEF TakeOver
    <2>2. t = [key |-> t.key, data |-> t.data, depth |-> t.depth,
               left |-> t.left, right |-> t.right]
      BY <1>1 DEF Shape, IsNode
    <2> HIDE DEF q, m, e, u
    <2> QED
      BY <2>1, <2>2
  <1>4. /\ IsNode(u) /\ u.key = m /\ u.data = e /\ u.depth = t.depth
        /\ u.left = q /\ u.right = t.right
    BY <1>3 DEF IsNode
  <1> HIDE DEF q, m, e, u
  <1>5. /\ KeysOf(t.left) \subseteq Keys /\ KeysOf(t.right) \subseteq Keys
        /\ t.left \in Tree /\ t.right \in Tree /\ t.key \in Keys
    BY <1>1, SubtreesType, Children
  <1>6. m \in Keys /\ m \in Int /\ t.key \in Int /\ m < t.key /\ Keys \subseteq Int
    BY <1>1, <1>2, <1>5, KeysAssumption DEF Shape, Below
  <1>7. Below(q, m)
    BY <1>2, <1>5, <1>6 DEF Below
  <1>8. Above(t.right, m)
    <2>1. \A x \in KeysOf(t.right) : t.key < x /\ x \in Int
      BY <1>1, <1>5, <1>6 DEF Shape, Above
    <2> QED
      BY <1>6, <2>1 DEF Above
  <1>9. Shape(u)
    BY <1>1, <1>2, <1>4, <1>6, <1>7, <1>8 DEF Shape
  <1>10. u \in Node /\ u \in Tree
    BY <1>9, ShapeIsTree, Children
  <1>11. KeysOf(u) \subseteq KeysOf(t)
    BY <1>1, <1>2, <1>4, <1>10, KeysOfNode
  <1>12. ASSUME NEW x \in Keys
         PROVE  Contents(u)[x] = Put(Contents(t), t.key, NULL)[x]
    <2>1. Contents(t)[x] = IF x = t.key THEN t.data
                           ELSE IF x < t.key THEN Contents(t.left)[x]
                                ELSE Contents(t.right)[x]
      BY <1>1, ContentsOfNode DEF Shape
    <2>2. Contents(u)[x] = IF x = m THEN e
                           ELSE IF x < m THEN Contents(q)[x]
                                ELSE Contents(t.right)[x]
      BY <1>4, <1>9, <1>10, ContentsOfNode DEF Shape
    <2>3. Put(Contents(t), t.key, NULL)[x] = IF x = t.key THEN NULL ELSE Contents(t)[x]
      BY <1>1, ContentsType DEF Put
    <2>4. Contents(q)[x] = IF x = m THEN NULL ELSE Contents(t.left)[x]
      BY <1>2, <1>5, ContentsType DEF Put
    <2>5. ~(x > t.key) => Contents(t.right)[x] = NULL
      <3>1. ~(x > t.key) => x \notin KeysOf(t.right)
        BY <1>1 DEF Shape, Above
      <3> QED
        BY <1>5, <3>1, ContentsAbsent
    <2>6. x > m => Contents(t.left)[x] = NULL
      <3>1. x > m => x \notin KeysOf(t.left)
        BY <1>2, <1>5, <1>6
      <3> QED
        BY <1>5, <3>1, ContentsAbsent
    <2>7. x \in Int
      BY <1>6
    <2> QED
      BY <1>2, <1>6, <2>1, <2>2, <2>3, <2>4, <2>5, <2>6, <2>7
  <1>13. Contents(u) = Put(Contents(t), t.key, NULL)
    <2>1. /\ Contents(t) \in [Keys -> Datas \cup {NULL}]
          /\ Contents(u) \in [Keys -> Datas \cup {NULL}]
      BY <1>1, <1>10, ContentsType
    <2>2. Put(Contents(t), t.key, NULL)
             = [x \in Keys |-> Put(Contents(t), t.key, NULL)[x]]
      BY <2>1 DEF Put
    <2> QED
      BY <1>12, <2>1, <2>2
  <1>14. Replaced(t, u)
    BY <1>9, <1>11, <1>13 DEF Replaced
  <1> QED
    BY <1>14 DEF u, q, m, e

\* In each of the cases of remove_helper, the replacement has lost the key.
LEMMA ReplacementReplaces ==
    ASSUME NEW t, Good(t), t # NULL
    PROVE  Replaced(t, Replacement(t))
  <1>1. CASE t.left = NULL
    BY <1>1, ReplacedByChild DEF Replacement
  <1>2. CASE t.left # NULL /\ t.right = NULL
    BY <1>2, ReplacedByChild DEF Replacement
  <1>3. CASE t.left # NULL /\ t.right # NULL
    <2> DEFINE y == TakeLast[t.left]
    <2>1. Good(t.left)
      BY GoodIsShape DEF Shape
    <2>2. Taken(t.left, y)
      BY <1>3, <2>1, TakeLastTakes
    <2>3. Replacement(t) = TakeOver(t, y)
      BY <1>3 DEF Replacement, TakeOver
    <2> HIDE DEF y
    <2> QED
      BY <1>3, <2>2, <2>3, ReplacedByLast
  <1> QED
    BY <1>1, <1>2, <1>3

\* The end of remove_helper leaves what it is given good.
LEMMA SettleGood ==
    ASSUME NEW t, Good(t) \/ Shape(t)
    PROVE  Good(Settle(t)) /\ Same(Settle(t), t)
  <1>1. CASE t = NULL
    BY <1>1, GoodNull DEF Settle, Same
  <1>2. CASE t # NULL
    <2>1. Shape(t)
      BY <1>2, GoodIsShape
    <2> QED
      BY <1>2, <2>1, UpdateThenRebalance DEF Settle
  <1> QED
    BY <1>1, <1>2

\* What remove_helper makes of a tree: a good one without the key's data.
Removed(t, k, r) ==
    /\ Good(r.node) /\ KeysOf(r.node) \subseteq KeysOf(t)
    /\ Contents(r.node) = Put(Contents(t), k, NULL)
    /\ r.ret = Contents(t)[k]

\* remove_helper takes the data of one key away, whatever it rotates on the way back.
LEMMA RemoveRemoves ==
    ASSUME NEW t, Good(t), NEW k \in Keys
    PROVE  Removed(t, k, remove_helper(k)[t])
  <1> DEFINE P == {s \in Tree : Good(s) => Removed(s, k, remove_helper(k)[s])}
  <1>1. NULL \in P
    <2> DEFINE r == remove_helper(k)[NULL]
    <2>1. r = [node |-> NULL, ret |-> NULL]
      BY RemoveStep
    <2>2. r.node = NULL /\ r.ret = NULL
      BY <2>1
    <2>3. Contents(NULL)[k] = NULL /\ Put(Contents(NULL), k, NULL) = Contents(NULL)
      BY ContentsOfNull DEF Put
    <2> HIDE DEF r
    <2>4. Removed(NULL, k, r)
      BY <2>2, <2>3, GoodNull DEF Removed
    <2> QED
      BY <2>4, NullTree DEF r
  <1>2. ASSUME NEW s \in Node, s.left \in P, s.right \in P
        PROVE  s \in P
    <2> SUFFICES ASSUME Good(s) PROVE Removed(s, k, remove_helper(k)[s])
      BY Children
    <2>1. Shape(s) /\ s # NULL /\ s \in Tree
      BY Children, GoodIsShape
    <2> DEFINE r == remove_helper(k)[s]
    <2>2. CASE k = s.key
      <3> DEFINE u == Replacement(s)
                 v == Settle(u)
      <3>1. r = [node |-> v, ret |-> s.data]
        BY <2>2, RemoveStep
      <3>2. Replaced(s, u)
        BY <2>1, ReplacementReplaces
      <3>3. Good(v) /\ Same(v, u)
        <4> HIDE DEF u
        <4> QED
          BY <3>2, SettleGood DEF Replaced
      <3>4. Contents(s)[k] = s.data
        BY <2>1, <2>2, ContentsOfNode DEF Shape
      <3> HIDE DEF v, u, r
      <3>5. r.node = v /\ r.ret = s.data
        BY <3>1
      <3>6. Removed(s, k, r)
        BY <2>2, <3>2, <3>3, <3>4, <3>5 DEF Removed, Replaced, Same
      <3> QED
        BY <3>6 DEF r
    <2>3. CASE k # s.key
      <3> DEFINE c == Descend(s, k)
                 sub == remove_helper(k)[c]
                 n == sub.node
                 u == Graft(s, k, n)
                 v == Settle(u)
                 X == {}
      <3>1. r = [node |-> v, ret |-> sub.ret]
        BY <2>3, RemoveStep
      <3>2. c \in P /\ Good(c) /\ Contents(s)[k] = Contents(c)[k]
        BY <1>2, <2>1, <2>3, DescendGood DEF Descend
      <3>3. Removed(c, k, sub)
        BY <3>2
      <3>4. Shape(u) /\ KeysOf(u) \subseteq KeysOf(s)
            /\ Contents(u) = Put(Contents(s), k, NULL)
        <4>1. /\ Good(n) /\ KeysOf(n) \subseteq KeysOf(Descend(s, k)) \cup X
              /\ Contents(n) = Put(Contents(Descend(s, k)), k, NULL)
          BY <3>3 DEF Removed
        <4>2. X \in SUBSET {k} /\ \A K : K \cup X = K
          OBVIOUS
        <4> HIDE DEF n, X
        <4>3. LET w == Graft(s, k, n)
              IN  /\ Shape(w) /\ w # NULL
                  /\ KeysOf(w) \subseteq KeysOf(s) \cup X
                  /\ Contents(w) = Put(Contents(s), k, NULL)
          BY <2>1, <2>3, <4>1, <4>2, GraftGood
        <4> QED
          BY <4>2, <4>3 DEF n
      <3>5. Good(v) /\ Same(v, u)
        <4> HIDE DEF u
        <4> QED
          BY <3>4, SettleGood
      <3> HIDE DEF v, u, n, sub, c, r
      <3>6. r.node = v /\ r.ret = sub.ret
        BY <3>1
      <3>7. Removed(s, k, r)
        BY <3>2, <3>3, <3>4, <3>5, <3>6 DEF Removed, Same
      <3> QED
        BY <3>7 DEF r
    <2> QED
      BY <2>2, <2>3
  <1>3. Tree \subseteq P
    <2> HIDE DEF P
    <2> QED
      BY <1>1, <1>2, TreeInduction
  <1> QED
    BY <1>3 DEF Good

---------------------------------------------------------------------------
(* The theorems. *)

\* The inductive invariant: the tree is good, so its depths are true, which is
\* what lets rebalance trust that the child it rotates with is there.
IInv == Good(tree) /\ result \in Datas \cup {NULL}

\* Each call does to the contents what Map's does to its function.
LEMMA CallGood ==
    ASSUME IInv, NEW k \in Keys, Remove(k) \/ Search(k) \/ \E d \in Datas : Insert(k, d)
    PROVE  IInv' /\ Abstract!Next
  <1>1. /\ Good(tree) /\ tree \in Tree
        /\ Contents(tree) \in [Keys -> Datas \cup {NULL}]
    BY ContentsType DEF IInv, Good
  <1>2. Contents(tree)[k] \in Datas \cup {NULL}
    BY <1>1
  <1>3. CASE Remove(k)
    <2>1. PICK r : /\ Removed(tree, k, r)
                   /\ tree' = r.node /\ result' = r.ret
      BY <1>1, <1>3, RemoveRemoves DEF Remove
    <2>2. Good(tree') /\ result' = Contents(tree)[k]
          /\ Contents(tree') = [Contents(tree) EXCEPT ![k] = NULL]
      BY <2>1 DEF Removed, Put
    <2>3. Abstract!Remove(k)
      BY <2>2 DEF Abstract!Remove
    <2> QED
      BY <1>2, <2>2, <2>3 DEF IInv, Abstract!Next
  <1>4. CASE Search(k)
    <2>1. result' = Contents(tree)[k] /\ tree' = tree
      BY <1>1, <1>4, SearchFinds DEF Search
    <2>2. Abstract!Search(k)
      BY <2>1 DEF Abstract!Search
    <2> QED
      BY <1>1, <1>2, <2>1, <2>2 DEF IInv, Abstract!Next
  <1>5. ASSUME NEW d \in Datas, Insert(k, d)
        PROVE  IInv' /\ Abstract!Next
    <2>1. PICK r : /\ Inserted(tree, k, d, r)
                   /\ tree' = r.node /\ result' = r.ret
      BY <1>1, <1>5, InsertInserts DEF Insert
    <2>2. Good(tree') /\ result' = Contents(tree)[k]
          /\ Contents(tree') = [Contents(tree) EXCEPT ![k] = d]
      BY <2>1 DEF Inserted, Put
    <2>3. Abstract!Insert(k, d)
      BY <2>2 DEF Abstract!Insert
    <2> QED
      BY <1>2, <2>2, <2>3 DEF IInv, Abstract!Next
  <1> QED
    BY <1>3, <1>4, <1>5

\* avl_initialize leaves the empty tree.
LEMMA IInvInit == Init => IInv
  BY GoodNull DEF Init, IInv

\* Every call keeps the tree good.
LEMMA IInvNext == IInv /\ [Next]_vars => IInv'
  <1> SUFFICES ASSUME IInv, [Next]_vars PROVE IInv'
    OBVIOUS
  <1>1. CASE UNCHANGED vars
    BY <1>1 DEF vars, IInv
  <1>2. CASE Next
    BY <1>2, CallGood DEF Next
  <1> QED
    BY <1>1, <1>2

\* IInv holds in every state that calls of avl_insert, avl_remove and avl_search reach.
THEOREM TreeInvariant == Spec => []IInv
  BY IInvInit, IInvNext, PTL DEF Spec

\* Every tree that insertions and removals make is ordered.
THEOREM TreeTypeCorrect == Spec => []TypeOK
  <1>1. IInv => TypeOK
    BY DEF IInv, TypeOK, Good
  <1> QED
    BY <1>1, TreeInvariant, PTL

\* The depths that rebalance compares are the heights, or one more.
THEOREM TreeDepthsTrue == Spec => []DepthsTrue
  <1>1. IInv => DepthsTrue
    BY DEF IInv, DepthsTrue, Good, Close
  <1> QED
    BY <1>1, TreeInvariant, PTL

\* The tree of avl.c implements the function that its callers take it for.
THEOREM TreeImplementsMap == Spec => ImplementsMap
  <1>1. Init => Abstract!Init
    BY ContentsOfNull DEF Init, Abstract!Init
  <1>2. IInv /\ [Next]_vars => [Abstract!Next]_(Abstract!vars)
    <2> SUFFICES ASSUME IInv, [Next]_vars PROVE [Abstract!Next]_(Abstract!vars)
      OBVIOUS
    <2>1. CASE UNCHANGED vars
      BY <2>1 DEF vars, Abstract!vars
    <2>2. CASE Next
      BY <2>2, CallGood DEF Next
    <2> QED
      BY <2>1, <2>2
  <1> QED
    BY <1>1, <1>2, TreeInvariant, PTL DEF Spec, ImplementsMap, Abstract!Spec
=============================================================================
