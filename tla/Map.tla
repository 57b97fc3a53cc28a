-------------------------------- MODULE Map --------------------------------
(***************************************************************************)
(* What the scheduler's tables (task_map, named_tasks, root_map, the       *)
(* counts and the futex tables) expect of clib/avl: a function from keys   *)
(* to data, where NULL is what a key without data has.                     *)
(***************************************************************************)
CONSTANTS Keys, Datas, NULL

VARIABLES map,    \* the data of each key
          result  \* what the last call returned

vars == <<map, result>>

Init == map = [k \in Keys |-> NULL] /\ result = NULL

\* avl_insert returns the data it replaces.
Insert(k, d) == result' = map[k] /\ map' = [map EXCEPT ![k] = d]

\* avl_remove returns the data of the key it removes.
Remove(k) == result' = map[k] /\ map' = [map EXCEPT ![k] = NULL]

Search(k) == result' = map[k] /\ UNCHANGED map

Next == \E k \in Keys : Remove(k) \/ Search(k) \/ \E d \in Datas : Insert(k, d)

Spec == Init /\ [][Next]_vars
============================================================================
