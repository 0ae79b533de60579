------------------------------ MODULE KVTable -------------------------------
(***************************************************************************)
(* The table of the embedded key-value engine, the records that change it  *)
(* and their replay (storage/local_engine).                                *)
(***************************************************************************)
EXTENDS Integers, Sequences

CONSTANTS Keys, Values, Absent

\* What one record changes: any number of keys, set or (Absent) deleted, at once.
Mutations == UNION {[S -> Values \cup {Absent}] : S \in (SUBSET Keys) \ {{}}}

Tables == [Keys -> Values \cup {Absent}]

Empty == [k \in Keys |-> Absent]

Apply(t, r) == [k \in Keys |-> IF k \in DOMAIN r THEN r[k] ELSE t[k]]

\* The records one after the other.
Replay(t, rs) ==
  LET after[n \in 0..Len(rs)] == IF n = 0 THEN t ELSE Apply(after[n - 1], rs[n])
  IN  after[Len(rs)]

=============================================================================
