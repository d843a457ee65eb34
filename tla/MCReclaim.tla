----------------------------- MODULE MCReclaim -----------------------------
(* Reclaim with two threads. *)
EXTENDS Reclaim

\* One slot for two threads; two slots, where the hashes meet or are neighbours.
MCLayouts == {[n |-> 1, start |-> <<0, 0>>], [n |-> 2, start |-> <<0, 0>>],
              [n |-> 2, start |-> <<0, 1>>]}

============================================================================
