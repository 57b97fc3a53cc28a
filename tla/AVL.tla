-------------------------------- MODULE AVL --------------------------------
(***************************************************************************)
(* The tree of clib/avl.c, which keeps the scheduler's tables.  A node     *)
(* holds its children, so a tree is the record of its root, or NULL.  The  *)
(* recursive helpers are recursive functions on trees with the C           *)
(* functions' names; the ones that return data beside the node they have   *)
(* changed give a record of both.                                          *)
(*                                                                         *)
(* Left out: key destructors and the memory of nodes, and destroy and      *)
(* search_window, which nothing calls.                                     *)
(***************************************************************************)
EXTENDS Integers, FiniteSets

CONSTANTS Keys,   \* ordered as the comparator orders them
          Datas,  \* NULL may be one of them
          NULL

VARIABLES tree,   \* tree->root
          result  \* what the last call returned

vars == <<tree, result>>

\* The trees of at most n levels.  An ordered tree has no more levels than keys.
Trees[n \in 0..Cardinality(Keys)] ==
    {NULL} \cup IF n = 0 THEN {}
                ELSE [key : Keys, data : Datas, depth : Nat,
                      left : Trees[n - 1], right : Trees[n - 1]]
Tree == Trees[Cardinality(Keys)]
Node == Tree \ {NULL}

ASSUME KeysAssumption == Keys \subseteq Int /\ IsFiniteSet(Keys)
ASSUME NullAssumption ==
    NULL \notin [key : Keys, data : Datas, depth : Nat, left : Tree, right : Tree]

\* depth as its readers see it: a missing child counts 0.
Depth(t) == IF t = NULL THEN 0 ELSE t.depth

Larger(m, n) == IF m < n THEN n ELSE m

\* The depth of a node without children becomes 2, though insert_helper gives 1
\* to a new one.
update_depth(t) ==
    [t EXCEPT !.depth = 1 + Larger(1, Larger(Depth(t.left), Depth(t.right)))]

balance_factor(t) == Depth(t.left) - Depth(t.right)

\* Mutant of RotateRight: the inner grandchild stays where it was, and is lost.
RotateDropping(t) ==
    update_depth([t.left EXCEPT !.right = update_depth([t EXCEPT !.left = NULL])])

\* rotate(node, AVL_LEFT) and rotate(node, AVL_RIGHT).
RotateLeft(t) ==
    update_depth([t.right EXCEPT !.left =
                     update_depth([t EXCEPT !.right = t.right.left])])
RotateRight(t) ==
    update_depth([t.left EXCEPT !.right =
                     update_depth([t EXCEPT !.left = t.left.right])])

\* Only a difference of exactly 2 is acted upon.
rebalance(t) ==
    CASE balance_factor(t) = 2 ->
            RotateRight(IF balance_factor(t.left) < 0
                        THEN [t EXCEPT !.left = RotateLeft(t.left)] ELSE t)
      [] balance_factor(t) = -2 ->
            RotateLeft(IF balance_factor(t.right) > 0
                       THEN [t EXCEPT !.right = RotateRight(t.right)] ELSE t)
      [] OTHER -> t

\* The side of t that key k belongs to, and t with s on that side.
Descend(t, k) == IF k < t.key THEN t.left ELSE t.right
Graft(t, k, s) == IF k < t.key THEN [t EXCEPT !.left = s] ELSE [t EXCEPT !.right = s]

search(k) ==
    LET find[t \in Tree] ==
            IF t = NULL THEN NULL
            ELSE IF k = t.key THEN t.data ELSE find[Descend(t, k)]
    IN  find

Leaf(k, d) == [key |-> k, data |-> d, depth |-> 1, left |-> NULL, right |-> NULL]

insert_helper(k, d) ==
    LET insert[t \in Tree] ==
            IF t = NULL THEN [node |-> Leaf(k, d), ret |-> NULL]
            ELSE IF k = t.key THEN [node |-> [t EXCEPT !.data = d], ret |-> t.data]
            ELSE LET sub == insert[Descend(t, k)]
                 IN  [node |-> update_depth(rebalance(Graft(t, k, sub.node))),
                      ret  |-> sub.ret]
    IN  insert

\* The node with the greatest key, and the tree in which its left child has
\* taken its place.
TakeLast[t \in Node] ==
    IF t.right = NULL THEN [last |-> t, rest |-> t.left]
    ELSE LET sub == TakeLast[t.right]
         IN  [last |-> sub.last, rest |-> [t EXCEPT !.right = sub.rest]]

remove_depth_helper[t \in Tree] ==
    IF t = NULL THEN NULL
    ELSE update_depth([t EXCEPT !.right = remove_depth_helper[t.right]])

\* Mutants of Replacement: the depths of the left subtree are not brought up to
\* date; the left child is copied instead of the greatest node below it.
ReplaceStale(t) ==
    CASE t.left = NULL  -> t.right
      [] t.right = NULL -> t.left
      [] OTHER -> LET y == TakeLast[t.left]
                  IN  [t EXCEPT !.key = y.last.key, !.data = y.last.data,
                                !.left = y.rest]
ReplaceByRoot(t) ==
    CASE t.left = NULL  -> t.right
      [] t.right = NULL -> t.left
      [] OTHER -> [t EXCEPT !.key = t.left.key, !.data = t.left.data,
                            !.left = TakeLast[t.left].rest]

\* What takes the place of a node whose key is removed.
Replacement(t) ==
    CASE t.left = NULL  -> t.right
      [] t.right = NULL -> t.left
      [] OTHER -> LET y == TakeLast[t.left]
                  IN  [t EXCEPT !.key = y.last.key, !.data = y.last.data,
                                !.left = remove_depth_helper[y.rest]]

\* The order of these two is the opposite of insert_helper's.
Settle(t) == IF t = NULL THEN NULL ELSE rebalance(update_depth(t))

remove_helper(k) ==
    LET remove[t \in Tree] ==
            IF t = NULL THEN [node |-> NULL, ret |-> NULL]
            ELSE IF k = t.key THEN [node |-> Settle(Replacement(t)), ret |-> t.data]
            ELSE LET sub == remove[Descend(t, k)]
                 IN  [node |-> Settle(Graft(t, k, sub.node)), ret |-> sub.ret]
    IN  remove
----------------------------------------------------------------------------
Init == tree = NULL /\ result = NULL

Insert(k, d) ==
    LET r == insert_helper(k, d)[tree] IN tree' = r.node /\ result' = r.ret

Remove(k) ==
    LET r == remove_helper(k)[tree] IN tree' = r.node /\ result' = r.ret

Search(k) == result' = search(k)[tree] /\ UNCHANGED tree

Next == \E k \in Keys : Remove(k) \/ Search(k) \/ \E d \in Datas : Insert(k, d)

Spec == Init /\ [][Next]_vars

\* Insertions alone.
InsertSpec == Init /\ [][\E k \in Keys, d \in Datas : Insert(k, d)]_vars
----------------------------------------------------------------------------
(* Properties. *)

\* A node with all that is below it.
Subtrees[t \in Tree] ==
    IF t = NULL THEN {} ELSE {t} \cup Subtrees[t.left] \cup Subtrees[t.right]

Height[t \in Tree] ==
    IF t = NULL THEN 0 ELSE 1 + Larger(Height[t.left], Height[t.right])

KeysOf(t) == {s.key : s \in Subtrees[t]}

Ordered(t) ==
    \A s \in Subtrees[t] : /\ \A k \in KeysOf(s.left) : k < s.key
                          /\ \A k \in KeysOf(s.right) : s.key < k

\* Through every rotation of rebalance and replacement in remove, the keys on
\* the left of a node are smaller than its own and those on its right greater.
TypeOK ==
    /\ tree \in Tree
    /\ result \in Datas \cup {NULL}
    /\ Ordered(tree)

\* The depths that decide about rotations are true to within the one that
\* update_depth adds to leaves, through every mixture of insertions (which
\* rotate, then update) and removals (which update, then rotate, and update
\* only the right spine below a node with two children).
DepthsTrue == \A t \in Subtrees[tree] : t.depth \in {Height[t], Height[t] + 1}

Contents(t) ==
    LET with(k) == {s \in Subtrees[t] : s.key = k}
    IN  [k \in Keys |-> IF with(k) = {} THEN NULL ELSE (CHOOSE s \in with(k) : TRUE).data]

Abstract == INSTANCE Map WITH map <- Contents(tree)

\* However insertions and removals rotate it, the tree is the function that the
\* scheduler's tables take it for, and each call returns that function's value.
ImplementsMap == Abstract!Spec

\* "check, and rebalance the current node, if necessary" (insert_helper): no
\* subtree is two levels higher than its sibling.
Balanced == \A t \in Subtrees[tree] : Height[t.left] - Height[t.right] \in -1..1
============================================================================
