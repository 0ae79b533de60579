------------------------------ MODULE MCEngine ------------------------------
(* The engine on small instances.                                          *)
EXTENDS LocalKVEngine, TLC

CONSTANTS k1, k2, v1, v2, c1, c2, c3

\* Single keys set and deleted, and a batch over both.
MixedWrites == {[k \in {k1} |-> v1], [k \in {k1} |-> Absent],
                [k \in {k1, k2} |-> v2]}

\* Batches that write both keys alike.
PairWrites == {[k \in Keys |-> v] : v \in Values}

Symmetry == Permutations(Clients)

=============================================================================
