------------------------------ MODULE MCCaches ------------------------------
(* Caches with shards of two or three entries. *)
EXTENDS Caches

\* Homes are chosen so that probe walks overlap.
MCSetups == {
    [kind |-> "kv",     per_e |-> 2, per_b |-> 3, home |-> <<0, 0, 1>>, seq |-> <<1, 2, 3>>],
    [kind |-> "heavy",  per_e |-> 2, per_b |-> 3, home |-> <<0, 0, 1>>, seq |-> <<1, 2, 3>>],
    [kind |-> "blocks", per_e |-> 3, per_b |-> 9, home |-> <<0, 1, 0, 1>>, seq |-> <<1, 1, 2, 2>>]}

============================================================================
