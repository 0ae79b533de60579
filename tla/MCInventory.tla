---------------------------- MODULE MCInventory ----------------------------
(* The inventory on small instances.                                       *)
EXTENDS InventoryService, TLC

CONSTANTS s1, s2, o1, o2, o3, t1, t2

MCCapacity == [s \in Skus |-> IF s = s1 THEN 2 ELSE 1]

\* What a reconciliation may write: the stock untouched, and one unit sold.
MCRepairs == {[available |-> 2, reserved |-> 0, sold |-> 0],
              [available |-> 1, reserved |-> 0, sold |-> 1]}

Symmetry == Permutations(Ops) \cup Permutations(Threads)

=============================================================================
