------------------------------ MODULE KeyValue ------------------------------
(***************************************************************************)
(* What update-binfmts expects of its tables (src/kvhash.c): a map from    *)
(* names to values.  An insertion never replaces a value, it returns the   *)
(* one that is there; it may fail for want of memory, and then the map is  *)
(* as it was.  Format and UpdateBinfmts take their tables for such maps;   *)
(* HashTable implements them.                                              *)
(***************************************************************************)
CONSTANTS Keys, Values, NULL

VARIABLES map, result

Init == map = [k \in Keys |-> NULL] /\ result = NULL

Insert(k, v) == result' = v /\ map[k] = NULL /\ map' = [map EXCEPT ![k] = v]

\* The value that is there, or NULL for want of memory.
Keep(k) == result' = map[k] /\ UNCHANGED map

Delete(k) == result' = map[k] /\ map' = [map EXCEPT ![k] = NULL]

Next == \E k \in Keys :
            Keep(k) \/ Delete(k) \/ \E v \in Values : Insert(k, v)

Spec == Init /\ [][Next]_<<map, result>>
=============================================================================
