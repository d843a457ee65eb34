---------------------------- MODULE MCCompaction ----------------------------
(***************************************************************************)
(* Instances of Compaction for TLC.                                        *)
(***************************************************************************)
EXTENDS Compaction

\* A table with both keys, so that it has two blocks, one with a tombstone, and one
\* that a batch spilled into.
MCContents == {[k \in 1..2 |-> "put"], [k \in {1} |-> "del"],
               [k \in 1..2 |-> IF k = 1 THEN "batch" ELSE "put"]}

\* Tables with both keys.
PlainContents == {[k \in 1..2 |-> "put"]}
=============================================================================
