---------------------------- MODULE MCBPlusTree ----------------------------
(* BPlusTree with small pages. *)
EXTENDS BPlusTree

\* Unit records in pages of two, where ascending insertions have made the root
\* overflow once; and records of uneven size, where a half can lack room.
MCShapes == {[cap |-> 2, size |-> <<1, 1, 1, 1, 1>>, seed |-> <<1, 2, 3, 4, 5>>, inserts |-> 8],
             [cap |-> 3, size |-> <<1, 2, 2, 1>>, seed |-> <<>>, inserts |-> 4]}

============================================================================
