---------------------------- MODULE EngineProofs ----------------------------
(***************************************************************************)
(* Proofs about LocalKVEngine, for every set of keys, values and callers   *)
(* and every bound: batches are visible as a whole, the WAL can always be  *)
(* replayed, and the engine implements DurableStore.                       *)
(*                                                                         *)
(* The first part is about Replay, whatever is replayed.  EngineInv is the *)
(* shape of the engine: who waits, in the queue or in the writer's group.  *)
(* EvenInv, WalInv and TableInv add what the three theorems need: which    *)
(* batches are in the files, that only the last record may be torn, and    *)
(* how table, snapshot and WAL belong together.                            *)
(***************************************************************************)
EXTENDS LocalKVEngine, TLAPS

INSTANCE WellFoundedInduction

-----------------------------------------------------------------------------
(* Replay.  Induction over the records takes the form of Climb, about a    *)
(* set of numbers.                                                         *)

\* A set of numbers has a least one.
LEMMA Least ==
  ASSUME NEW T \in SUBSET Nat, T # {}
  PROVE  \E m \in T : \A y \in T : m <= y
<1>1. PICK m \in T : \A y \in T : <<y, m>> \notin OpToRel(<, Nat)
  BY NatLessThanWellFounded, WFMin, Zenon
<1>2. \A y \in T : ~(y < m)
  BY <1>1, Zenon DEF OpToRel
<1> QED
  BY <1>2

\* A set that holds 0 and with i also i + 1, up to N, holds all numbers up to N.
LEMMA Climb ==
  ASSUME NEW N \in Nat, NEW S, 0 \in S, \A i \in 0..N : (i \in S /\ i < N) => i + 1 \in S
  PROVE  \A i \in 0..N : i \in S
<1> SUFFICES ASSUME {i \in 0..N : i \notin S} # {} PROVE FALSE
  BY Zenon
<1>1. PICK T : T = {i \in 0..N : i \notin S}
  BY Zenon
<1>2. T \subseteq Nat /\ T # {}
  BY <1>1
<1>3. PICK m \in T : \A y \in T : m <= y
  BY <1>2, Least, Zenon
<1>4. m \in 0..N /\ m # 0 /\ m \notin S
  BY <1>1, <1>3, Zenon
<1>5. m - 1 \in 0..N /\ m - 1 < N /\ m - 1 < m /\ (m - 1) + 1 = m
  BY <1>4
<1>6. m - 1 \in S
  BY <1>1, <1>3, <1>5
<1> QED
  BY <1>4, <1>5, <1>6, Zenon

\* f holds the tables of the replay of the first n records of rs over t.
Run(f, n, t, rs) ==
  /\ f = [i \in 0..n |-> f[i]] /\ f[0] = t
  /\ \A i \in 1..n : f[i] = Apply(f[i - 1], rs[i])

\* A record over a table gives a table.
LEMMA ApplyTable ==
  ASSUME NEW t \in Tables, NEW r \in Mutations
  PROVE  Apply(t, r) \in Tables
<1>1. PICK S \in (SUBSET Keys) \ {{}} : r \in [S -> Values \cup {Absent}]
  BY Zenon DEF Mutations
<1> QED
  BY <1>1, Zenon DEF Apply, Tables

\* Every sequence of records can be replayed ...
LEMMA RunExists ==
  ASSUME NEW t, NEW rs, Len(rs) \in Nat
  PROVE  \E f : Run(f, Len(rs), t, rs)
<1> DEFINE S == {n \in 0..Len(rs) : \E f : Run(f, n, t, rs)}
<1>1. 0 \in S
  <2>1. Run([i \in 0..0 |-> t], 0, t, rs)
    BY DEF Run
  <2> QED
    BY <2>1
<1>2. ASSUME NEW n \in 0..Len(rs), n \in S, n < Len(rs) PROVE n + 1 \in S
  <2>1. PICK f : Run(f, n, t, rs)
    BY <1>2, Zenon
  <2>2. PICK g : g = [i \in 0..(n + 1) |-> IF i = n + 1 THEN Apply(f[n], rs[n + 1]) ELSE f[i]]
    BY Zenon
  <2>3. g[0] = t /\ g = [i \in 0..(n + 1) |-> g[i]]
    BY <1>2, <2>1, <2>2 DEF Run
  <2>4. ASSUME NEW i \in 1..(n + 1) PROVE g[i] = Apply(g[i - 1], rs[i])
    <3>1. CASE i = n + 1
      BY <1>2, <2>2, <3>1
    <3>2. CASE i # n + 1
      <4>1. i \in 1..n /\ i \in 0..(n + 1) /\ i - 1 \in 0..(n + 1) /\ i - 1 # n + 1
        BY <1>2, <3>2
      <4>2. g[i] = f[i] /\ g[i - 1] = f[i - 1]
        BY <2>2, <3>2, <4>1, Zenon
      <4> QED
        BY <2>1, <4>1, <4>2, Zenon DEF Run
    <3> QED
      BY <3>1, <3>2, Zenon
  <2>5. Run(g, n + 1, t, rs)
    BY <2>3, <2>4, Zenon DEF Run
  <2> QED
    BY <1>2, <2>5
<1> HIDE DEF S
<1>3. Len(rs) \in 0..Len(rs)
  OBVIOUS
<1>4. Len(rs) \in S
  BY <1>1, <1>2, <1>3, Climb, Zenon
<1> QED
  BY <1>4, Zenon DEF S

\* ... in one way.
LEMMA RunUnique ==
  ASSUME NEW t, NEW rs, NEW n \in Nat, NEW f, NEW g, Run(f, n, t, rs), Run(g, n, t, rs)
  PROVE  f[n] = g[n]
<1> DEFINE S == {i \in 0..n : f[i] = g[i]}
<1>1. 0 \in S /\ n \in 0..n
  BY DEF Run
<1>2. ASSUME NEW i \in 0..n, i \in S, i < n PROVE i + 1 \in S
  <2>1. i + 1 \in 1..n /\ (i + 1) - 1 = i /\ i + 1 \in 0..n /\ f[i] = g[i]
    BY <1>2
  <2>2. f[i + 1] = Apply(f[i], rs[i + 1]) /\ g[i + 1] = Apply(g[i], rs[i + 1])
    BY <2>1, Zenon DEF Run
  <2> QED
    BY <2>1, <2>2, Zenon
<1> HIDE DEF S
<1>3. n \in S
  BY <1>1, <1>2, Climb, Zenon
<1> QED
  BY <1>3, Zenon DEF S

\* Replay is the end of the run.
LEMMA ReplayIsRun ==
  ASSUME NEW t, NEW rs, Len(rs) \in Nat
  PROVE  \E f : Run(f, Len(rs), t, rs) /\ Replay(t, rs) = f[Len(rs)]
<1> DEFINE F(f) == [n \in 0..Len(rs) |-> IF n = 0 THEN t ELSE Apply(f[n - 1], rs[n])]
           after == CHOOSE f : f = F(f)
<1>1. PICK g : Run(g, Len(rs), t, rs)
  BY RunExists, Zenon
<1>2. g = F(g)
  BY <1>1 DEF Run
<1>3. after = F(after)
  BY <1>2, Zenon
<1>4. Replay(t, rs) = after[Len(rs)]
  BY Zenon DEF Replay
<1> HIDE DEF after
<1>5. Run(after, Len(rs), t, rs)
  BY <1>3 DEF Run
<1> QED
  BY <1>4, <1>5, Zenon

\* Replay of nothing.
LEMMA ReplayNothing ==
  ASSUME NEW t
  PROVE  Replay(t, <<>>) = t
<1>1. Len(<<>>) = 0
  BY Zenon
<1> QED
  BY <1>1, ReplayIsRun DEF Run

\* Replay of one record more.
LEMMA ReplayEnds ==
  ASSUME NEW t, NEW S, NEW rs \in Seq(S), NEW r \in S
  PROVE  Replay(t, Append(rs, r)) = Apply(Replay(t, rs), r)
<1>2. PICK n, us : n = Len(rs) /\ us = Append(rs, r)
  BY Zenon
<1>3. /\ n \in Nat /\ Len(us) = n + 1 /\ Len(us) \in Nat
      /\ us[n + 1] = r /\ \A i \in 1..n : us[i] = rs[i]
  BY <1>2
<1>4. PICK f : Run(f, n, t, rs) /\ Replay(t, rs) = f[n]
  BY <1>2, <1>3, ReplayIsRun, Zenon
<1>5. PICK g : Run(g, n + 1, t, us) /\ Replay(t, us) = g[n + 1]
  BY <1>3, ReplayIsRun, Zenon
<1>6. g[n + 1] = Apply(g[n], r)
  <2>1. n + 1 \in 1..(n + 1) /\ (n + 1) - 1 = n
    BY <1>3
  <2> QED
    BY <1>3, <1>5, <2>1, Zenon DEF Run
<1>7. g[n] = f[n]
  <2>1. PICK h : h = [i \in 0..n |-> g[i]]
    BY Zenon
  <2>2. h[0] = t /\ h[n] = g[n] /\ h = [i \in 0..n |-> h[i]]
    BY <1>3, <1>5, <2>1 DEF Run
  <2>3. ASSUME NEW i \in 1..n PROVE h[i] = Apply(h[i - 1], rs[i])
    <3>1. i \in 1..(n + 1) /\ i \in 0..n /\ i - 1 \in 0..n
      BY <1>3
    <3>2. h[i] = g[i] /\ h[i - 1] = g[i - 1] /\ us[i] = rs[i]
      BY <1>3, <2>1, <3>1, Zenon
    <3> QED
      BY <1>5, <3>1, <3>2, Zenon DEF Run
  <2>4. Run(h, n, t, rs)
    BY <2>2, <2>3, Zenon DEF Run
  <2>5. h[n] = f[n]
    <3>1. Run(f, n, t, rs) /\ n \in Nat
      BY <1>3, <1>4, Zenon
    <3> QED
      BY <2>4, <3>1, RunUnique
  <2>6. h[n] = g[n]
    BY <2>2, Zenon
  <2> QED
    BY <2>5, <2>6, Zenon
<1> QED
  BY <1>2, <1>4, <1>5, <1>6, <1>7, Zenon

\* The records of a run write tables.
LEMMA RunTables ==
  ASSUME NEW t \in Tables, NEW n \in Nat, NEW rs, \A i \in 1..n : rs[i] \in Mutations,
         NEW f, Run(f, n, t, rs)
  PROVE  f[n] \in Tables
<1> DEFINE S == {i \in 0..n : f[i] \in Tables}
<1>1. 0 \in S /\ n \in 0..n
  BY DEF Run
<1>2. ASSUME NEW i \in 0..n, i \in S, i < n PROVE i + 1 \in S
  <2>1. i + 1 \in 1..n /\ (i + 1) - 1 = i /\ i + 1 \in 0..n /\ f[i] \in Tables
    BY <1>2
  <2>2. f[i + 1] = Apply(f[i], rs[i + 1])
    BY <2>1, Zenon DEF Run
  <2> QED
    BY <2>1, <2>2, ApplyTable, Zenon
<1> HIDE DEF S
<1>3. n \in S
  BY <1>1, <1>2, Climb, Zenon
<1> QED
  BY <1>3, Zenon DEF S

\* A replay changes only the keys of its records, and gives these the same values
\* whatever the table was.
LEMMA RunKeys ==
  ASSUME NEW n \in Nat, NEW rs, NEW t, NEW u, NEW f, NEW g, Run(f, n, t, rs), Run(g, n, u, rs), NEW k \in Keys
  PROVE  /\ (\A i \in 1..n : k \notin DOMAIN rs[i]) => f[n][k] = t[k]
         /\ (\E i \in 1..n : k \in DOMAIN rs[i]) => f[n][k] = g[n][k]
<1> DEFINE Same(m) == /\ (\A i \in 1..m : k \notin DOMAIN rs[i]) => f[m][k] = t[k]
                      /\ (\E i \in 1..m : k \in DOMAIN rs[i]) => f[m][k] = g[m][k]
           S == {m \in 0..n : Same(m)}
<1>1. 0 \in S /\ n \in 0..n
  BY DEF Run
<1>2. ASSUME NEW m \in 0..n, m \in S, m < n PROVE m + 1 \in S
  <2>1. m + 1 \in 1..n /\ (m + 1) - 1 = m /\ m + 1 \in 0..n /\ 1..(m + 1) = 1..m \cup {m + 1}
    BY <1>2
  <2>2. f[m + 1] = Apply(f[m], rs[m + 1]) /\ g[m + 1] = Apply(g[m], rs[m + 1])
    BY <2>1, Zenon DEF Run
  <2>3. CASE k \in DOMAIN rs[m + 1]
    <3>1. f[m + 1][k] = g[m + 1][k]
      BY <2>2, <2>3, Zenon DEF Apply
    <3> QED
      BY <2>1, <2>3, <3>1, Zenon
  <2>4. CASE k \notin DOMAIN rs[m + 1]
    <3>1. f[m + 1][k] = f[m][k] /\ g[m + 1][k] = g[m][k]
      BY <2>2, <2>4, Zenon DEF Apply
    <3> QED
      BY <1>2, <2>1, <2>4, <3>1, Zenon
  <2> QED
    BY <2>3, <2>4, Zenon
<1> HIDE DEF S
<1>3. n \in S
  BY <1>1, <1>2, Climb, Zenon
<1> QED
  BY <1>3, Zenon DEF S

\* Tables whose keys all have one value.
Uniform(t) == \A j, k \in Keys : t[j] = t[k]

\* A record that writes all keys alike makes them alike.
LEMMA ApplyUniform ==
  ASSUME NEW t, NEW r, DOMAIN r = Keys, Uniform(r)
  PROVE  Uniform(Apply(t, r))
<1> SUFFICES ASSUME NEW j \in Keys, NEW k \in Keys PROVE Apply(t, r)[j] = Apply(t, r)[k]
  BY Zenon DEF Uniform
<1>1. r[j] = r[k]
  BY Zenon DEF Uniform
<1> QED
  BY <1>1, Zenon DEF Apply

\* Batches that write all keys alike keep them alike.
LEMMA RunUniform ==
  ASSUME NEW n \in Nat, NEW rs, \A i \in 1..n : DOMAIN rs[i] = Keys /\ Uniform(rs[i]),
         NEW t, Uniform(t), NEW f, Run(f, n, t, rs)
  PROVE  Uniform(f[n])
<1> DEFINE S == {i \in 0..n : Uniform(f[i])}
<1>1. 0 \in S /\ n \in 0..n
  BY DEF Run
<1>2. ASSUME NEW i \in 0..n, i \in S, i < n PROVE i + 1 \in S
  <2>1. i + 1 \in 1..n /\ (i + 1) - 1 = i /\ i + 1 \in 0..n
    BY <1>2
  <2>2. f[i + 1] = Apply(f[i], rs[i + 1])
    BY <2>1, Zenon DEF Run
  <2>3. DOMAIN rs[i + 1] = Keys /\ Uniform(rs[i + 1])
    BY <2>1, Zenon
  <2>4. Uniform(f[i + 1])
    BY <2>2, <2>3, ApplyUniform, Zenon
  <2> QED
    BY <2>1, <2>4, Zenon
<1> HIDE DEF S
<1>3. n \in S
  BY <1>1, <1>2, Climb, Zenon
<1> QED
  BY <1>3, Zenon DEF S

\* What a replay does to a table.
LEMMA ReplayFacts ==
  ASSUME NEW rs \in Seq(Mutations), NEW t \in Tables, NEW u \in Tables
  PROVE  /\ Replay(t, rs) \in Tables
         /\ \A k \in Keys : (\A i \in 1..Len(rs) : k \notin DOMAIN rs[i]) => Replay(t, rs)[k] = t[k]
         /\ \A k \in Keys : (\E i \in 1..Len(rs) : k \in DOMAIN rs[i]) => Replay(t, rs)[k] = Replay(u, rs)[k]
         /\ (Uniform(t) /\ \A i \in 1..Len(rs) : DOMAIN rs[i] = Keys /\ Uniform(rs[i])) => Uniform(Replay(t, rs))
<1>1. PICK n \in Nat : n = Len(rs)
  OBVIOUS
<1>2. \A i \in 1..n : rs[i] \in Mutations
  BY <1>1
<1>3. PICK f : Run(f, n, t, rs) /\ Replay(t, rs) = f[n]
  BY <1>1, ReplayIsRun, Zenon
<1>4. PICK g : Run(g, n, u, rs) /\ Replay(u, rs) = g[n]
  BY <1>1, ReplayIsRun, Zenon
<1>5. f[n] \in Tables
  BY <1>2, <1>3, RunTables, Zenon
<1>6. ASSUME NEW k \in Keys
      PROVE  /\ (\A i \in 1..n : k \notin DOMAIN rs[i]) => f[n][k] = t[k]
             /\ (\E i \in 1..n : k \in DOMAIN rs[i]) => f[n][k] = g[n][k]
  <2>1. Run(f, n, t, rs) /\ Run(g, n, u, rs)
    BY <1>3, <1>4, Zenon
  <2> QED
    BY <2>1, RunKeys
<1>7. (Uniform(t) /\ \A i \in 1..n : DOMAIN rs[i] = Keys /\ Uniform(rs[i])) => Uniform(f[n])
  BY <1>3, RunUniform, Zenon
<1> QED
  BY <1>1, <1>3, <1>4, <1>5, <1>6, <1>7, Zenon

\* Tables that differ only in keys of the records become one.
LEMMA ReplayMeets ==
  ASSUME NEW rs \in Seq(Mutations), NEW t \in Tables, NEW u \in Tables,
         \A k \in Keys : (\A i \in 1..Len(rs) : k \notin DOMAIN rs[i]) => t[k] = u[k]
  PROVE  Replay(t, rs) = Replay(u, rs)
<1>1. \A k \in Keys : Replay(t, rs)[k] = Replay(u, rs)[k]
  BY ReplayFacts, Zenon
<1>2. Replay(t, rs) \in Tables /\ Replay(u, rs) \in Tables
  BY ReplayFacts, Zenon
<1> QED
  BY <1>1, <1>2 DEF Tables

-----------------------------------------------------------------------------
(* The shape of a state: whatever the writes are and whether appends tear. *)

EngineTypes ==
  /\ status \in {"closed", "open", "refused"} /\ table \in Tables /\ snap \in Tables
  /\ wal \in Seq(Mutations \cup {Torn}) /\ queue \in Seq(Clients)
  /\ want \in [Clients -> Writes \cup {Absent}]
  /\ writer \in [at : {"wait", "append", "sync", "apply", "answer", "fail"},
                 group : Seq(Clients), done : Nat]
  /\ error \in BOOLEAN /\ saving \in {"no", "save", "truncate"}

\* What the writer has appended at each of its steps.
WriterInv ==
  /\ writer.at = "wait" => writer = Resting
  /\ writer.at # "wait" => Len(writer.group) > 0
  /\ writer.done <= Len(writer.group)
  /\ writer.at = "append" => writer.done < Len(writer.group)
  /\ writer.at \in {"sync", "apply", "answer"} => writer.done = Len(writer.group)

\* Each caller that waits has one write, in the queue or in the group.
QueueInv ==
  LET g == writer.group IN
  /\ \A i \in 1..Len(queue) : want[queue[i]] # Absent
  /\ \A i \in 1..Len(g) : want[g[i]] # Absent
  /\ \A i, j \in 1..Len(queue) : queue[i] = queue[j] => i = j
  /\ \A i, j \in 1..Len(g) : g[i] = g[j] => i = j
  /\ \A i \in 1..Len(queue), j \in 1..Len(g) : queue[i] # g[j]

\* Nothing is under way in an engine that is not open, no write during a snapshot.
IdleInv ==
  /\ status # "open" => saving = "no"
  /\ (status # "open" \/ saving # "no") => \A c \in Clients : want[c] = Absent

EngineInv == EngineTypes /\ WriterInv /\ QueueInv /\ IdleInv

\* When no caller waits, the queue is empty and the writer rests.
LEMMA Quiet ==
  ASSUME EngineInv, \A c \in Clients : want[c] = Absent
  PROVE  queue = <<>> /\ writer = Resting
<1>1. queue \in Seq(Clients) /\ writer.group \in Seq(Clients)
  BY Zenon DEF EngineInv, EngineTypes
<1>2. Len(queue) = 0
  <2>1. Len(queue) > 0 => queue[1] \in Clients /\ want[queue[1]] # Absent
    BY <1>1 DEF EngineInv, QueueInv
  <2> QED
    BY <1>1, <2>1
<1>3. Len(writer.group) = 0
  <2>1. Len(writer.group) > 0 => writer.group[1] \in Clients /\ want[writer.group[1]] # Absent
    BY <1>1 DEF EngineInv, QueueInv
  <2> QED
    BY <1>1, <2>1
<1> QED
  BY <1>1, <1>2, <1>3 DEF EngineInv, WriterInv

\* The writer works only in an open engine, and not during a snapshot.
LEMMA Busy ==
  ASSUME EngineInv, writer.at # "wait"
  PROVE  status = "open" /\ saving = "no"
<1>1. writer # Resting
  BY DEF Resting
<1>2. ~(\A c \in Clients : want[c] = Absent)
  BY <1>1, Quiet, Zenon
<1> QED
  BY <1>2, Zenon DEF EngineInv, IdleInv

\* The beginning of a sequence, and its end.
LEMMA Prefix ==
  ASSUME NEW S, NEW s \in Seq(S), NEW n \in 0..Len(s), NEW t, t = SubSeq(s, 1, n)
  PROVE  t \in Seq(S) /\ Len(t) = n /\ \A i \in 1..n : t[i] = s[i]
<1>1. Len(t) = n /\ \A i \in 1..n : t[i] = s[i]
  OBVIOUS
<1>2. t \in Seq(S)
  BY <1>1
<1> QED
  BY <1>1, <1>2, Zenon

\* A beginning that grows by one.
LEMMA LongerPrefix ==
  ASSUME NEW S, NEW s \in Seq(S), NEW n \in Nat, n < Len(s)
  PROVE  SubSeq(s, 1, n + 1) = Append(SubSeq(s, 1, n), s[n + 1])
OBVIOUS

\* Append stays in the type.
LEMMA AppendTyped ==
  ASSUME NEW S, NEW s \in Seq(S), NEW x \in S
  PROVE  Append(s, x) \in Seq(S)
OBVIOUS

\* What is left of a sequence.
LEMMA Suffix ==
  ASSUME NEW S, NEW s \in Seq(S), NEW n \in 1..Len(s), NEW t, t = SubSeq(s, n + 1, Len(s))
  PROVE  t \in Seq(S) /\ Len(t) = Len(s) - n /\ \A i \in 1..(Len(s) - n) : t[i] = s[n + i]
<1>1. Len(t) = Len(s) - n /\ \A i \in 1..(Len(s) - n) : t[i] = s[n + i]
  OBVIOUS
<1>2. t \in Seq(S)
  BY <1>1
<1> QED
  BY <1>1, <1>2, Zenon

\* The records of a group, whole or its beginning.
LEMMA GroupRecords ==
  ASSUME EngineInv, NEW n \in 0..Len(writer.group), NEW rs, rs = SubSeq(Records(writer.group), 1, n)
  PROVE  /\ rs \in Seq(Writes) /\ rs \in Seq(Mutations) /\ Len(rs) = n
         /\ \A i \in 1..n : rs[i] = want[writer.group[i]]
<1>1. PICK g : g = writer.group
  BY Zenon
<1>2. g \in Seq(Clients) /\ want \in [Clients -> Writes \cup {Absent}] /\ n \in 0..Len(g)
      /\ \A i \in 1..Len(g) : want[g[i]] # Absent
  BY <1>1, Zenon DEF EngineInv, EngineTypes, QueueInv
<1>3. PICK all : all = [i \in 1..Len(g) |-> want[g[i]]]
  BY Zenon
<1>4. all = Records(g)
  BY <1>2, <1>3 DEF Records
<1>5. all \in Seq(Writes) /\ Len(all) = Len(g)
  BY <1>2, <1>3
<1>6. rs = SubSeq(all, 1, n)
  BY <1>1, <1>4, Zenon
<1>7. rs \in Seq(Writes) /\ Len(rs) = n /\ \A i \in 1..n : rs[i] = all[i]
  <2>1. n \in 0..Len(all)
    BY <1>2, <1>5, Zenon
  <2>2. Len(rs) = n /\ \A i \in 1..n : rs[i] = all[i]
    BY <1>5, <1>6, <2>1
  <2>3. rs \in Seq(Writes)
    BY <1>5, <1>6, <2>1
  <2> QED
    BY <2>2, <2>3, Zenon
<1>8. rs \in Seq(Mutations)
  BY <1>7, EngineAssumption
<1> QED
  BY <1>1, <1>2, <1>3, <1>7, <1>8

-----------------------------------------------------------------------------
(* What replay reads of the WAL.                                           *)

First(w) == CHOOSE i \in DOMAIN w : w[i] = Torn /\ \A j \in 1..(i - 1) : w[j] # Torn

Before(w) == IF Torn \in Range(w) THEN SubSeq(w, 1, First(w) - 1) ELSE w

\* A WAL without a torn record is read to its end, any other up to the first one.
LEMMA BeforeFacts ==
  ASSUME NEW w \in Seq(Mutations \cup {Torn})
  PROVE  /\ Before(w) \in Seq(Mutations) /\ Len(Before(w)) <= Len(w)
         /\ \A i \in 1..Len(Before(w)) : Before(w)[i] = w[i]
         /\ Torn \notin Range(w) => Before(w) = w
         /\ Torn \in Range(w) => /\ First(w) \in 1..Len(w) /\ w[First(w)] = Torn
                                 /\ Len(Before(w)) = First(w) - 1
<1>1. DOMAIN w = 1..Len(w) /\ Len(w) \in Nat /\ \A i \in 1..Len(w) : w[i] \in Mutations \cup {Torn}
  OBVIOUS
<1>2. Torn \in Range(w) <=> \E i \in 1..Len(w) : w[i] = Torn
  BY <1>1, Zenon DEF Range
<1>3. CASE Torn \notin Range(w)
  <2>1. \A i \in 1..Len(w) : w[i] \in Mutations
    BY <1>1, <1>2, <1>3, Zenon
  <2>2. w \in Seq(Mutations)
    BY <1>1, <2>1
  <2> QED
    BY <1>1, <1>3, <2>2 DEF Before
<1>4. CASE Torn \in Range(w)
  <2>1. PICK T : T = {i \in 1..Len(w) : w[i] = Torn}
    BY Zenon
  <2>2. T \in SUBSET Nat /\ T # {}
    BY <1>1, <1>2, <1>4, <2>1
  <2>3. PICK m \in T : \A y \in T : m <= y
    BY <2>2, Least, Zenon
  <2>4. m \in DOMAIN w /\ w[m] = Torn /\ \A j \in 1..(m - 1) : w[j] # Torn
    BY <1>1, <2>1, <2>3
  <2>5. PICK f : f = First(w)
    BY Zenon
  <2>6. f \in DOMAIN w /\ w[f] = Torn /\ \A j \in 1..(f - 1) : w[j] # Torn
    BY <2>4, <2>5, Zenon DEF First
  <2>7. f \in 1..Len(w) /\ f - 1 \in 0..Len(w) /\ \A j \in 1..(f - 1) : w[j] \in Mutations
    BY <1>1, <2>6
  <2>8. PICK b : b = SubSeq(w, 1, f - 1)
    BY Zenon
  <2>9. Len(b) = f - 1 /\ \A i \in 1..(f - 1) : b[i] = w[i]
    BY <2>7, <2>8
  <2>10. b \in Seq(Mutations)
    BY <2>7, <2>8, <2>9
  <2>11. b = Before(w)
    BY <1>4, <2>5, <2>8, Zenon DEF Before
  <2> QED
    BY <1>1, <1>4, <2>5, <2>6, <2>7, <2>9, <2>10, <2>11
<1> QED
  BY <1>3, <1>4, Zenon

\* Whole, FirstTorn and Replayed in terms of the files.
LEMMA WholeIsBefore == Whole = Before(wal) /\ FirstTorn = First(wal) /\ Replayed = Replay(snap, Before(wal))
BY Zenon DEF Whole, FirstTorn, First, Before, Replayed

\* The same after a step.
LEMMA WholeIsBeforePrimed == Whole' = Before(wal') /\ FirstTorn' = First(wal') /\ Replayed' = Replay(snap', Before(wal'))
BY Zenon DEF Whole, FirstTorn, First, Before, Replayed

\* What a restart finds is a table.
LEMMA ReplayedTable ==
  ASSUME EngineTypes
  PROVE  Replayed \in Tables /\ Whole \in Seq(Mutations)
<1>1. wal \in Seq(Mutations \cup {Torn}) /\ snap \in Tables
  BY Zenon DEF EngineTypes
<1> QED
  BY <1>1, WholeIsBefore, BeforeFacts, ReplayFacts, Zenon

-----------------------------------------------------------------------------
(* Every step keeps the shape.                                             *)

\* submit puts the caller behind the queue, where it was not before.
LEMMA SubmitKeeps ==
  ASSUME EngineInv, NEW c \in Clients, NEW m \in Writes, submit(c, m)
  PROVE  EngineInv'
<1> USE DEF EngineInv
<1>1. /\ status = "open" /\ saving = "no" /\ want[c] = Absent
      /\ want' = [want EXCEPT ![c] = m] /\ queue' = Append(queue, c)
      /\ UNCHANGED <<status, table, snap, wal, writer, error, saving>>
  BY Zenon DEF submit, Encoded
<1>2. m # Absent
  BY EngineAssumption, Zenon
<1>3. EngineTypes'
  BY <1>1 DEF EngineTypes
<1>4. WriterInv'
  BY <1>1, Zenon DEF WriterInv
<1>5. QueueInv'
  <2>1. /\ queue \in Seq(Clients) /\ writer.group \in Seq(Clients)
        /\ \A d \in Clients : want'[d] = IF d = c THEN m ELSE want[d]
    BY <1>1, Zenon DEF EngineTypes
  <2>2. /\ Len(queue') = Len(queue) + 1 /\ queue'[Len(queue) + 1] = c
        /\ \A i \in 1..Len(queue) : queue'[i] = queue[i] /\ queue[i] \in Clients
    BY <1>1, <2>1
  <2>3. writer'.group = writer.group /\ \A i \in 1..Len(writer.group) : writer.group[i] \in Clients
    BY <1>1, <2>1
  <2> QED
    BY <1>1, <1>2, <2>1, <2>2, <2>3 DEF QueueInv
<1>6. IdleInv'
  BY <1>1, Zenon DEF IdleInv
<1> QED
  BY <1>3, <1>4, <1>5, <1>6, Zenon

\* takeGroup moves callers from the queue to the group.
LEMMA TakeGroupKeeps ==
  ASSUME EngineInv, takeGroup
  PROVE  EngineInv'
<1> USE DEF EngineInv
<1>1. PICK n \in 1..Len(queue) :
        /\ writer' = [at |-> "append", group |-> SubSeq(queue, 1, n), done |-> 0]
        /\ queue' = SubSeq(queue, n + 1, Len(queue))
  BY Zenon DEF takeGroup
<1>2. UNCHANGED <<status, table, snap, wal, want, error, saving>>
  BY Zenon DEF takeGroup
<1>3. queue \in Seq(Clients) /\ Len(queue) \in Nat
  BY DEF EngineTypes
<1>4. PICK g : g = SubSeq(queue, 1, n)
  BY Zenon
<1>5. g \in Seq(Clients) /\ Len(g) = n /\ \A i \in 1..n : g[i] = queue[i]
  <2>1. n \in 0..Len(queue)
    BY <1>3
  <2> QED
    BY <1>3, <1>4, <2>1, Prefix
<1>6. /\ queue' \in Seq(Clients) /\ Len(queue') = Len(queue) - n
      /\ \A i \in 1..(Len(queue) - n) : queue'[i] = queue[n + i]
  BY <1>1, <1>3, Suffix
<1>7. writer' = [at |-> "append", group |-> g, done |-> 0]
  BY <1>1, <1>4, Zenon
<1>8. writer'.group = g /\ writer'.at = "append" /\ writer'.done = 0
  BY <1>7, Zenon
<1>9. EngineTypes'
  BY <1>2, <1>5, <1>6, <1>7, Zenon DEF EngineTypes
<1>10. WriterInv'
  BY <1>5, <1>8 DEF WriterInv
<1>11. QueueInv'
  <2>1. \A i, j \in 1..Len(queue) : queue[i] = queue[j] => i = j
    BY Zenon DEF QueueInv
  <2>2. \A i \in 1..Len(queue) : want'[queue[i]] # Absent
    BY <1>2, Zenon DEF QueueInv
  <2>3. \A i \in 1..Len(g) : i \in 1..Len(queue) /\ g[i] = queue[i]
    BY <1>3, <1>5
  <2>4. \A i \in 1..Len(queue') : n + i \in 1..Len(queue) /\ queue'[i] = queue[n + i]
    BY <1>3, <1>6
  <2>5. \A i, j \in 1..Len(queue') : queue'[i] = queue'[j] => i = j
    <3> SUFFICES ASSUME NEW i \in 1..Len(queue'), NEW j \in 1..Len(queue'), queue'[i] = queue'[j] PROVE i = j
      BY Zenon
    <3>1. n + i = n + j
      BY <2>1, <2>4, Zenon
    <3> QED
      BY <1>3, <1>6, <3>1
  <2>6. \A i \in 1..Len(queue'), j \in 1..Len(g) : queue'[i] # g[j]
    <3> SUFFICES ASSUME NEW i \in 1..Len(queue'), NEW j \in 1..Len(g), queue'[i] = g[j] PROVE FALSE
      BY Zenon
    <3>1. n + i = j
      <4>1. queue[n + i] = queue[j] /\ n + i \in 1..Len(queue) /\ j \in 1..Len(queue)
        BY <2>3, <2>4, Zenon
      <4> QED
        BY <2>1, <4>1, Zenon
    <3> QED
      BY <1>3, <1>5, <1>6, <3>1
  <2> QED
    <3>1. \A i, j \in 1..Len(g) : g[i] = g[j] => i = j
      BY <2>1, <2>3, Zenon
    <3>2. \A i \in 1..Len(g) : want'[g[i]] # Absent
      BY <2>2, <2>3, Zenon
    <3>3. \A i \in 1..Len(queue') : want'[queue'[i]] # Absent
      BY <2>2, <2>4, Zenon
    <3> QED
      BY <1>8, <2>5, <2>6, <3>1, <3>2, <3>3, Zenon DEF QueueInv
<1>12. IdleInv'
  BY <1>2, Zenon DEF IdleInv
<1> QED
  BY <1>9, <1>10, <1>11, <1>12, Zenon

\* The writer goes to another step with its group.
LEMMA WriterGoes ==
  ASSUME EngineInv, NEW at \in {"append", "sync", "apply", "answer", "fail"}, NEW done \in 0..Len(writer.group),
         writer.at # "wait", writer' = [at |-> at, group |-> writer.group, done |-> done],
         at = "append" => done < Len(writer.group),
         at \in {"sync", "apply", "answer"} => done = Len(writer.group),
         UNCHANGED <<status, snap, queue, want, error, saving>>,
         table' \in Tables, wal' \in Seq(Mutations \cup {Torn})
  PROVE  EngineInv'
<1> USE DEF EngineInv
<1>1. writer'.at = at /\ writer'.group = writer.group /\ writer'.done = done
  BY Zenon
<1>2. EngineTypes'
  BY DEF EngineTypes
<1>3. WriterInv'
  BY <1>1 DEF WriterInv
<1>4. QueueInv'
  BY <1>1, Zenon DEF QueueInv
<1>5. IdleInv'
  BY Zenon DEF IdleInv
<1> QED
  BY <1>2, <1>3, <1>4, <1>5, Zenon

\* Wal::append of the next record, as seen from the group.
LEMMA AppendCases ==
  ASSUME EngineInv, append
  PROVE  /\ writer.done < Len(writer.group) /\ writer.at = "append"
         /\ UNCHANGED <<status, table, snap, queue, want, error, saving>>
         /\ want[writer.group[writer.done + 1]] \in Writes
         /\ \/ /\ wal' = Append(wal, want[writer.group[writer.done + 1]])
               /\ writer' = [at |-> IF writer.done + 1 = Len(writer.group) THEN "sync" ELSE "append",
                             group |-> writer.group, done |-> writer.done + 1]
            \/ /\ wal' = wal \/ (Tears /\ wal' = Append(wal, Torn))
               /\ writer' = [at |-> "fail", group |-> writer.group, done |-> writer.done]
<1> USE DEF EngineInv
<1>1. PICK rs, g, n : rs = Records(g) /\ g = writer.group /\ n = writer.done
  BY Zenon
<1>2. g \in Seq(Clients) /\ n < Len(g) /\ n \in Nat /\ writer.at = "append"
  BY <1>1, Zenon DEF append, EngineTypes, WriterInv
<1>3. n + 1 \in 1..Len(g) /\ rs = [i \in 1..Len(g) |-> want[g[i]]]
  BY <1>1, <1>2 DEF Records
<1>4. Len(rs) = Len(g) /\ rs[n + 1] = want[g[n + 1]]
  BY <1>2, <1>3
<1>5. want[g[n + 1]] \in Writes
  BY <1>1, <1>2, <1>3 DEF QueueInv, EngineTypes
<1>6. writer = [at |-> writer.at, group |-> g, done |-> n]
  BY <1>1, Zenon DEF EngineTypes
<1>7. UNCHANGED <<status, table, snap, queue, want, error, saving>>
  BY Zenon DEF append
<1>8. CASE /\ wal' = Append(wal, rs[n + 1])
           /\ writer' = [writer EXCEPT !.done = @ + 1, !.at = IF n + 1 = Len(rs) THEN "sync" ELSE "append"]
  BY <1>1, <1>2, <1>4, <1>5, <1>6, <1>7, <1>8, Zenon
<1>9. CASE /\ wal' \in {wal} \cup (IF Tears THEN {Append(wal, Torn)} ELSE {})
           /\ writer' = [writer EXCEPT !.at = "fail"]
  BY <1>1, <1>2, <1>5, <1>6, <1>7, <1>9
<1> QED
  BY <1>1, <1>8, <1>9, Zenon DEF append

\* append stays with the group, and fails or goes on.
LEMMA AppendKeeps ==
  ASSUME EngineInv, append
  PROVE  EngineInv'
<1>1. PICK g, n, r : g = writer.group /\ n = writer.done /\ r = want[g[n + 1]]
  BY Zenon
<1>2. /\ n \in Nat /\ n < Len(g) /\ Len(g) \in Nat /\ r \in Mutations /\ table \in Tables
      /\ wal \in Seq(Mutations \cup {Torn})
  BY <1>1, AppendCases, EngineAssumption DEF EngineInv, EngineTypes
<1>3. CASE /\ wal' = Append(wal, r)
           /\ writer' = [at |-> IF n + 1 = Len(g) THEN "sync" ELSE "append", group |-> g, done |-> n + 1]
  <2>1. wal' \in Seq(Mutations \cup {Torn})
    BY <1>2, <1>3, SMTT(30)
  <2>2. CASE n + 1 = Len(g)
    <3>1. n + 1 \in 0..Len(g)
      BY <1>2, <2>2
    <3>2. writer' = [at |-> "sync", group |-> g, done |-> n + 1]
      BY <1>3, <2>2, Zenon
    <3> QED
      BY <1>1, <1>2, <2>1, <2>2, <3>1, <3>2, AppendCases, WriterGoes
  <2>3. CASE n + 1 # Len(g)
    <3>1. n + 1 \in 0..Len(g) /\ n + 1 < Len(g)
      BY <1>2, <2>3
    <3> QED
      BY <1>1, <1>2, <1>3, <2>1, <2>3, <3>1, AppendCases, WriterGoes
  <2> QED
    BY <2>2, <2>3, Zenon
<1>4. CASE /\ wal' = wal \/ (Tears /\ wal' = Append(wal, Torn))
           /\ writer' = [at |-> "fail", group |-> g, done |-> n]
  <2>1. wal' \in Seq(Mutations \cup {Torn})
    BY <1>2, <1>4
  <2> QED
    BY <1>1, <1>2, <1>4, <2>1, AppendCases, WriterGoes
<1> QED
  BY <1>1, <1>3, <1>4, AppendCases, Zenon

\* sync only moves the writer.
LEMMA SyncKeeps ==
  ASSUME EngineInv, sync
  PROVE  EngineInv'
<1>1. PICK g, n : g = writer.group /\ n = writer.done
  BY Zenon
<1>2. /\ writer.at = "sync" /\ UNCHANGED <<status, table, snap, wal, queue, want, error, saving>>
      /\ writer' \in {[writer EXCEPT !.at = "apply"], [writer EXCEPT !.at = "fail"]}
  BY Zenon DEF sync
<1>3. n = Len(g) /\ n \in 0..Len(g) /\ writer = [at |-> writer.at, group |-> g, done |-> n]
  BY <1>1, <1>2 DEF EngineInv, EngineTypes, WriterInv
<1>4. \/ writer' = [at |-> "apply", group |-> g, done |-> n]
      \/ writer' = [at |-> "fail", group |-> g, done |-> n]
  BY <1>2, <1>3
<1>5. table' \in Tables /\ wal' \in Seq(Mutations \cup {Torn})
  BY <1>2, Zenon DEF EngineInv, EngineTypes
<1> QED
  BY <1>1, <1>2, <1>3, <1>4, <1>5, WriterGoes, Zenon

\* apply writes the first n records of the group, all of them unless one has too
\* many mutations.
LEMMA ApplyCases ==
  ASSUME EngineInv, apply
  PROVE  /\ writer.at = "apply" /\ writer.done = Len(writer.group)
         /\ UNCHANGED <<status, snap, wal, queue, want, error, saving>>
         /\ \E n \in 0..Len(writer.group), at \in {"answer", "fail"} :
              /\ table' = Replay(table, SubSeq(Records(writer.group), 1, n))
              /\ writer' = [at |-> at, group |-> writer.group, done |-> writer.done]
              /\ (\A m \in Writes : Applicable(m)) => (n = Len(writer.group) /\ at = "answer")
<1>1. PICK g, rs, bad : g = writer.group /\ rs = Records(g) /\ bad = {i \in DOMAIN rs : ~Applicable(rs[i])}
  BY Zenon
<1> DEFINE n == IF bad = {} THEN Len(rs) ELSE (CHOOSE i \in bad : \A j \in bad : i <= j) - 1
<1>3. /\ writer.at = "apply" /\ table' = Replay(table, SubSeq(rs, 1, n))
      /\ writer' = [writer EXCEPT !.at = IF bad = {} THEN "answer" ELSE "fail"]
      /\ UNCHANGED <<status, snap, wal, queue, want, error, saving>>
  BY <1>1 DEF apply
<1>4. /\ g \in Seq(Clients) /\ writer.done = Len(g) /\ want \in [Clients -> Writes \cup {Absent}]
      /\ writer = [at |-> writer.at, group |-> g, done |-> writer.done]
      /\ \A i \in 1..Len(g) : want[g[i]] # Absent
  BY <1>1, <1>3, Zenon DEF EngineInv, EngineTypes, WriterInv, QueueInv
<1>5. rs = [i \in 1..Len(g) |-> want[g[i]]]
  BY <1>1, <1>4 DEF Records
<1>6. Len(rs) = Len(g) /\ DOMAIN rs = 1..Len(g) /\ \A i \in 1..Len(g) : rs[i] \in Writes
  BY <1>4, <1>5
<1>7. n \in 0..Len(g)
  <2>1. CASE bad = {}
    BY <1>4, <1>6, <2>1
  <2>2. CASE bad # {}
    <3>1. bad \in SUBSET Nat /\ \A i \in bad : i \in 1..Len(g)
      BY <1>1, <1>4, <1>6
    <3>2. \E i \in bad : \A j \in bad : i <= j
      BY <2>2, <3>1, Least, Zenon
    <3> DEFINE k == CHOOSE i \in bad : \A j \in bad : i <= j
    <3>3. k \in bad
      BY <3>2, Zenon
    <3>4. n = k - 1
      BY <2>2, Zenon
    <3> HIDE DEF k, n
    <3> QED
      BY <1>4, <3>1, <3>3, <3>4
  <2> QED
    BY <2>1, <2>2, Zenon
<1>8. (\A m \in Writes : Applicable(m)) => bad = {}
  BY <1>1, <1>6, Zenon
<1>9. PICK at \in {"answer", "fail"} : at = IF bad = {} THEN "answer" ELSE "fail"
  BY Zenon
<1>10. writer' = [at |-> at, group |-> g, done |-> writer.done]
  BY <1>3, <1>4, <1>9
<1>11. (\A m \in Writes : Applicable(m)) => (n = Len(g) /\ at = "answer")
  BY <1>6, <1>8, <1>9, Zenon
<1> HIDE DEF n
<1> QED
  BY <1>1, <1>3, <1>4, <1>7, <1>10, <1>11, Zenon

\* apply writes a table.
LEMMA ApplyKeeps ==
  ASSUME EngineInv, apply
  PROVE  EngineInv'
<1>1. PICK n \in 0..Len(writer.group), at \in {"answer", "fail"} :
        /\ table' = Replay(table, SubSeq(Records(writer.group), 1, n))
        /\ writer' = [at |-> at, group |-> writer.group, done |-> writer.done]
  BY ApplyCases, Zenon
<1>2. table \in Tables /\ wal \in Seq(Mutations \cup {Torn}) /\ writer.group \in Seq(Clients)
  BY Zenon DEF EngineInv, EngineTypes
<1>3. table' \in Tables
  BY <1>1, <1>2, GroupRecords, ReplayFacts, Zenon
<1>4. wal' \in Seq(Mutations \cup {Torn}) /\ writer.done \in 0..Len(writer.group)
  BY <1>2, ApplyCases
<1> QED
  BY <1>1, <1>3, <1>4, ApplyCases, WriterGoes, Zenon

\* answer leaves no caller of the group waiting.
LEMMA AnswerKeeps ==
  ASSUME EngineInv, answer
  PROVE  EngineInv'
<1> USE DEF EngineInv
<1>1. /\ writer' = Resting /\ error' \in BOOLEAN
      /\ want' = [c \in Clients |-> IF c \in Range(writer.group) THEN Absent ELSE want[c]]
      /\ UNCHANGED <<status, table, snap, wal, queue, saving>>
  BY Zenon DEF answer
<1>2. EngineTypes'
  BY <1>1 DEF EngineTypes, Resting
<1>3. writer'.at = "wait" /\ writer'.group = <<>> /\ writer'.done = 0 /\ Len(writer'.group) = 0
  BY <1>1, Zenon DEF Resting
<1>4. WriterInv'
  BY <1>1, <1>3 DEF WriterInv
<1>5. QueueInv'
  <2>1. ASSUME NEW i \in 1..Len(queue) PROVE want'[queue[i]] = want[queue[i]]
    <3>1. queue[i] \in Clients /\ writer.group \in Seq(Clients)
      BY DEF EngineTypes
    <3>2. queue[i] \notin Range(writer.group)
      BY <3>1 DEF QueueInv, Range
    <3> QED
      BY <1>1, <3>1, <3>2, Zenon
  <2> QED
    BY <1>1, <1>3, <2>1 DEF QueueInv
<1>6. IdleInv'
  BY <1>1, Zenon DEF IdleInv
<1> QED
  BY <1>2, <1>4, <1>5, <1>6, Zenon

\* snapshot, save and truncate.
LEMMA SavingKeeps ==
  ASSUME EngineInv, snapshot \/ save \/ truncate
  PROVE  EngineInv'
<1> USE DEF EngineInv
<1>1. /\ UNCHANGED <<status, table, queue, want, writer, error>> /\ status = "open"
      /\ \A c \in Clients : want[c] = Absent
      /\ snap' \in {snap, table} /\ wal' \in {wal, <<>>} /\ saving' \in {"no", "save", "truncate"}
  BY Zenon DEF snapshot, save, truncate, IdleInv
<1>2. EngineTypes'
  <2>1. <<>> \in Seq(Mutations \cup {Torn})
    OBVIOUS
  <2> QED
    BY <1>1, <2>1, Zenon DEF EngineTypes
<1>3. WriterInv' /\ QueueInv'
  BY <1>1, ZenonT(30) DEF WriterInv, QueueInv
<1>4. IdleInv'
  BY <1>1, Zenon DEF IdleInv
<1> QED
  BY <1>2, <1>3, <1>4, Zenon

\* close and crash.
LEMMA StopKeeps ==
  ASSUME EngineInv, close \/ crash
  PROVE  EngineInv'
<1> USE DEF EngineInv
<1>1. /\ Stopped /\ UNCHANGED snap
      /\ wal' \in {wal, Append(wal, Torn)}
  BY Zenon DEF close, crash
<1>2. Empty \in Tables
  BY Zenon DEF Empty, Tables
<1>3. EngineTypes'
  <2>1. wal' \in Seq(Mutations \cup {Torn})
    <3>1. wal \in Seq(Mutations \cup {Torn})
      BY Zenon DEF EngineTypes
    <3>2. Append(wal, Torn) \in Seq(Mutations \cup {Torn})
      BY <3>1, AppendTyped, Zenon
    <3> QED
      BY <1>1, <3>1, <3>2, Zenon
  <2>2. /\ <<>> \in Seq(Clients) /\ 0 \in Nat /\ [c \in Clients |-> Absent] \in [Clients -> Writes \cup {Absent}]
    OBVIOUS
  <2> QED
    BY <1>1, <1>2, <2>1, <2>2, Zenon DEF EngineTypes, Stopped, Resting
<1>4. /\ writer'.at = "wait" /\ writer'.group = <<>> /\ writer'.done = 0 /\ Len(writer'.group) = 0
      /\ queue' = <<>> /\ Len(queue') = 0 /\ \A c \in Clients : want'[c] = Absent
  BY <1>1, Zenon DEF Stopped, Resting
<1>5. WriterInv'
  BY <1>1, <1>4 DEF WriterInv, Stopped
<1>6. QueueInv'
  BY <1>4 DEF QueueInv
<1>7. IdleInv'
  BY <1>1, <1>4, Zenon DEF IdleInv, Stopped
<1> QED
  BY <1>3, <1>5, <1>6, <1>7, Zenon

\* open leaves a WAL without a torn record, or nothing changed.
LEMMA OpenKeeps ==
  ASSUME EngineInv, open
  PROVE  EngineInv'
<1> USE DEF EngineInv
<1>1. /\ UNCHANGED <<snap, queue, want, writer, error, saving>> /\ status # "open"
      /\ status' \in {"open", "refused"}
      /\ (table' = Replayed /\ wal' = Whole) \/ (table' = table /\ wal' = wal)
  BY Zenon DEF open
<1>2. table' \in Tables
  BY <1>1, ReplayedTable, Zenon DEF EngineTypes
<1>3. wal' \in Seq(Mutations \cup {Torn})
  BY <1>1, ReplayedTable DEF EngineTypes
<1>4. EngineTypes'
  BY <1>1, <1>2, <1>3, Zenon DEF EngineTypes
<1>5. WriterInv' /\ QueueInv'
  BY <1>1, Zenon DEF WriterInv, QueueInv
<1>6. IdleInv'
  BY <1>1, Zenon DEF IdleInv
<1> QED
  BY <1>4, <1>5, <1>6, Zenon

\* Init and every step.
LEMMA EngineInvAlways == Spec => []EngineInv
<1>1. Init => EngineInv
  <2> SUFFICES ASSUME Init PROVE EngineInv
    BY Zenon
  <2>1. Empty \in Tables
    BY Zenon DEF Empty, Tables
  <2>2. EngineTypes
    <3>1. /\ <<>> \in Seq(Clients) /\ 0 \in Nat /\ [c \in Clients |-> Absent] \in [Clients -> Writes \cup {Absent}]
          /\ <<>> \in Seq(Mutations \cup {Torn})
      OBVIOUS
    <3> QED
      BY <2>1, <3>1, Zenon DEF Init, EngineTypes, Resting
  <2>3. /\ writer.at = "wait" /\ writer.group = <<>> /\ writer.done = 0 /\ Len(writer.group) = 0
        /\ queue = <<>> /\ Len(queue) = 0 /\ \A c \in Clients : want[c] = Absent
    BY Zenon DEF Init, Resting
  <2>4. WriterInv
    BY <2>3 DEF Init, WriterInv
  <2>5. QueueInv /\ IdleInv
    BY <2>3 DEF Init, QueueInv, IdleInv
  <2> QED
    BY <2>2, <2>4, <2>5, Zenon DEF EngineInv
<1>2. EngineInv /\ [Next]_vars => EngineInv'
  <2>1. ASSUME EngineInv, Next PROVE EngineInv'
    BY <2>1, SubmitKeeps, TakeGroupKeeps, AppendKeeps, SyncKeeps, ApplyKeeps, AnswerKeeps, SavingKeeps,
       StopKeeps, OpenKeeps, Zenon DEF Next, runWriter
  <2>2. ASSUME EngineInv, UNCHANGED vars PROVE EngineInv'
    <3>1. UNCHANGED <<status, table, snap, wal, queue, want, writer, error, saving>>
      BY <2>2, Zenon DEF vars
    <3>2. EngineTypes' /\ WriterInv'
      BY <2>2, <3>1, Zenon DEF EngineInv, EngineTypes, WriterInv
    <3>3. QueueInv'
      BY <2>2, <3>1, Zenon DEF EngineInv, QueueInv
    <3>4. IdleInv'
      BY <2>2, <3>1, Zenon DEF EngineInv, IdleInv
    <3> QED
      BY <3>2, <3>3, <3>4, Zenon DEF EngineInv
  <2> QED
    BY <2>1, <2>2, Zenon
<1> QED
  BY <1>1, <1>2, PTL DEF Spec

-----------------------------------------------------------------------------
(* Keys that are always written together.                                  *)

Even(r) == DOMAIN r = Keys /\ Uniform(r)

\* Nothing the engine keeps tells the keys apart.
EvenInv ==
  (\A m \in Writes : Even(m)) =>
    /\ Uniform(table) /\ Uniform(snap)
    /\ \A i \in 1..Len(wal) : wal[i] # Torn => Even(wal[i])

\* A replay of the group, or of the WAL.
LEMMA EvenGroup ==
  ASSUME EngineInv, \A m \in Writes : Even(m), Uniform(table), apply
  PROVE  Uniform(table')
<1>1. PICK n \in 0..Len(writer.group) : table' = Replay(table, SubSeq(Records(writer.group), 1, n))
  BY ApplyCases, Zenon
<1>2. PICK rs : rs = SubSeq(Records(writer.group), 1, n)
  BY Zenon
<1>3. rs \in Seq(Mutations) /\ rs \in Seq(Writes)
  BY <1>2, GroupRecords, Zenon
<1>4. \A i \in 1..Len(rs) : DOMAIN rs[i] = Keys /\ Uniform(rs[i])
  BY <1>3 DEF Even
<1>5. table \in Tables
  BY Zenon DEF EngineInv, EngineTypes
<1> QED
  BY <1>1, <1>2, <1>3, <1>4, <1>5, ReplayFacts, Zenon

\* What a restart finds is even.
LEMMA EvenReplayed ==
  ASSUME EngineTypes, EvenInv, \A m \in Writes : Even(m)
  PROVE  Uniform(Replayed) /\ \A i \in 1..Len(Whole) : Even(Whole[i])
<1>1. PICK w : w = Whole
  BY Zenon
<1>2. wal \in Seq(Mutations \cup {Torn}) /\ snap \in Tables /\ Len(wal) \in Nat
  BY DEF EngineTypes
<1>3. w \in Seq(Mutations) /\ Len(w) <= Len(wal) /\ \A i \in 1..Len(w) : w[i] = wal[i]
  BY <1>1, <1>2, BeforeFacts, WholeIsBefore, Zenon
<1>4. \A i \in 1..Len(w) : Even(w[i])
  <2> SUFFICES ASSUME NEW i \in 1..Len(w) PROVE Even(w[i])
    BY Zenon
  <2>1. i \in 1..Len(wal) /\ w[i] = wal[i] /\ w[i] \in Mutations
    BY <1>2, <1>3
  <2>2. wal[i] # Torn
    BY <2>1, EngineAssumption, Zenon
  <2> QED
    BY <2>1, <2>2, Zenon DEF EvenInv
<1>5. Uniform(Replay(snap, w))
  BY <1>2, <1>3, <1>4, ReplayFacts, Zenon DEF EvenInv, Even
<1> QED
  BY <1>1, <1>4, <1>5, Zenon DEF Replayed

\* Every step keeps table, snapshot and WAL even.
LEMMA EvenInductive == EngineInv /\ EvenInv /\ [Next]_vars => EvenInv'
<1> SUFFICES ASSUME EngineInv, EvenInv, [Next]_vars, \A m \in Writes : Even(m)
             PROVE  /\ Uniform(table') /\ Uniform(snap')
                    /\ \A i \in 1..Len(wal') : wal'[i] # Torn => Even(wal'[i])
  BY Zenon DEF EvenInv, Uniform
<1>1. /\ Uniform(table) /\ Uniform(snap) /\ \A i \in 1..Len(wal) : wal[i] # Torn => Even(wal[i])
  BY Zenon DEF EvenInv
<1>2. wal \in Seq(Mutations \cup {Torn}) /\ EngineTypes
  BY Zenon DEF EngineInv, EngineTypes
<1>3. ASSUME NEW r, r = Torn \/ Even(r), wal' = Append(wal, r)
      PROVE  \A i \in 1..Len(wal') : wal'[i] # Torn => Even(wal'[i])
  <2>1. Len(wal') = Len(wal) + 1 /\ wal'[Len(wal) + 1] = r /\ \A i \in 1..Len(wal) : wal'[i] = wal[i]
    BY <1>2, <1>3
  <2>2. \A i \in 1..Len(wal') : i \in 1..Len(wal) \/ i = Len(wal) + 1
    BY <1>2, <2>1
  <2> QED
    BY <1>1, <1>3, <2>1, <2>2, Zenon
<1>4. CASE append
  <2>1. UNCHANGED <<table, snap>>
    BY <1>4, AppendCases, Zenon
  <2>2. wal' = wal \/ \E r : (r = Torn \/ Even(r)) /\ wal' = Append(wal, r)
    BY <1>4, AppendCases, Zenon
  <2> QED
    BY <1>1, <1>3, <2>1, <2>2, Zenon
<1>5. CASE apply
  <2>1. UNCHANGED <<snap, wal>>
    BY <1>5, ApplyCases, Zenon
  <2> QED
    BY <1>1, <1>5, <2>1, EvenGroup, Zenon
<1>6. CASE close \/ crash
  <2>1. table' = Empty /\ snap' = snap /\ (wal' = wal \/ wal' = Append(wal, Torn))
    BY <1>6, Zenon DEF close, crash, Stopped
  <2>2. Uniform(Empty)
    BY Zenon DEF Uniform, Empty
  <2> QED
    BY <1>1, <1>3, <2>1, <2>2, Zenon
<1>7. CASE open
  <2>1. snap' = snap /\ ((table' = Replayed /\ wal' = Whole) \/ (table' = table /\ wal' = wal))
    BY <1>7, Zenon DEF open
  <2> QED
    BY <1>1, <1>2, <2>1, EvenReplayed, Zenon
<1>8. CASE save
  BY <1>1, <1>8, Zenon DEF save
<1>9. CASE truncate
  <2>1. UNCHANGED <<table, snap>> /\ (wal' = <<>> \/ wal' = wal)
    BY <1>9, Zenon DEF truncate
  <2>2. \A i \in 1..Len(<<>>) : FALSE
    OBVIOUS
  <2> QED
    BY <1>1, <2>1, <2>2, Zenon
<1>10. ASSUME UNCHANGED <<table, snap, wal>>
       PROVE  /\ Uniform(table') /\ Uniform(snap') /\ \A i \in 1..Len(wal') : wal'[i] # Torn => Even(wal'[i])
  BY <1>1, <1>10, Zenon
<1>11. ASSUME (\E c \in Clients, m \in Writes : submit(c, m)) \/ takeGroup \/ sync \/ answer \/ snapshot
              \/ UNCHANGED vars
       PROVE  UNCHANGED <<table, snap, wal>>
  BY <1>11, Zenon DEF submit, takeGroup, sync, answer, snapshot, vars
<1> QED
  BY <1>4, <1>5, <1>6, <1>7, <1>8, <1>9, <1>10, <1>11, Zenon DEF Next, runWriter

\* Keys that are always written in one batch are found together, by readers and after
\* a restart, whatever appends fail, tear or are cut short by a crash and whatever
\* snapshots are taken (writeBatch, apply, open; local_kv_engine.h:31-33).
THEOREM BatchesWholeAlways == Spec => []BatchesWhole
<1>1. Init => EvenInv
  <2> SUFFICES ASSUME Init PROVE EvenInv
    BY Zenon
  <2>1. Uniform(Empty)
    BY Zenon DEF Uniform, Empty
  <2>2. table = Empty /\ snap = Empty /\ Len(wal) = 0
    BY Zenon DEF Init
  <2> QED
    BY <2>1, <2>2 DEF EvenInv
<1>2. EngineInv /\ EvenInv => BatchesWhole
  <2> SUFFICES ASSUME EngineInv, EvenInv, \A m \in Writes : DOMAIN m = Keys /\ \A j, k \in Keys : m[j] = m[k]
               PROVE  \A j, k \in Keys : table[j] = table[k] /\ Replayed[j] = Replayed[k]
    BY Zenon DEF BatchesWhole
  <2>1. \A m \in Writes : Even(m)
    BY Zenon DEF Even, Uniform
  <2>2. Uniform(table) /\ Uniform(Replayed)
    BY <2>1, EvenReplayed, Zenon DEF EvenInv, EngineInv
  <2> QED
    BY <2>2, Zenon DEF Uniform
<1> QED
  BY <1>1, <1>2, EvenInductive, EngineInvAlways, PTL DEF Spec

-----------------------------------------------------------------------------
(* The WAL can be replayed, when a failed append leaves nothing behind and *)
(* no caller writes more keys than apply takes.                            *)

Sane == ~Tears /\ \A m \in Writes : Applicable(m)

\* A torn record is the last one, left by a crash, and cut off when the engine opens.
WalInv ==
  /\ \A i \in 1..Len(wal) : wal[i] # Torn => Applicable(wal[i])
  /\ \A i \in 1..Len(wal) : wal[i] = Torn => (i = Len(wal) /\ status # "open")

\* Such a WAL in full, or without its last record.
LEMMA WalWhole ==
  ASSUME EngineTypes, WalInv
  PROVE  /\ Torn \in Range(wal) => (FirstTorn = Len(wal) /\ Len(Whole) = Len(wal) - 1)
         /\ \A i \in DOMAIN Whole : Applicable(Whole[i]) /\ Whole[i] # Torn
         /\ status = "open" => Whole = wal
         /\ \A i \in 1..Len(Whole) : i \in 1..Len(wal) /\ Whole[i] = wal[i]
<1>1. PICK w : w = Whole
  BY Zenon
<1>2. wal \in Seq(Mutations \cup {Torn}) /\ Len(wal) \in Nat /\ DOMAIN wal = 1..Len(wal)
  BY DEF EngineTypes
<1>3. w \in Seq(Mutations) /\ Len(w) <= Len(wal) /\ \A i \in 1..Len(w) : w[i] = wal[i]
  BY <1>1, <1>2, BeforeFacts, WholeIsBefore, Zenon
<1>4. DOMAIN w = 1..Len(w) /\ Len(w) \in Nat
  BY <1>3
<1>5. Torn \in Range(wal) => (FirstTorn = Len(wal) /\ Len(w) = Len(wal) - 1)
  <2> SUFFICES ASSUME Torn \in Range(wal) PROVE FirstTorn = Len(wal) /\ Len(w) = Len(wal) - 1
    BY Zenon
  <2>1. FirstTorn \in 1..Len(wal) /\ wal[FirstTorn] = Torn /\ Len(w) = FirstTorn - 1
    BY <1>1, <1>2, BeforeFacts, WholeIsBefore, Zenon
  <2> QED
    BY <2>1, Zenon DEF WalInv
<1>6. \A i \in 1..Len(w) : i \in 1..Len(wal) /\ w[i] = wal[i] /\ w[i] # Torn
  <2> SUFFICES ASSUME NEW i \in 1..Len(w) PROVE i \in 1..Len(wal) /\ w[i] = wal[i] /\ w[i] # Torn
    BY Zenon
  <2>1. i \in 1..Len(wal) /\ w[i] = wal[i] /\ w[i] \in Mutations
    BY <1>2, <1>3
  <2> QED
    BY <2>1, EngineAssumption, Zenon
<1>7. status = "open" => w = wal
  <2> SUFFICES ASSUME status = "open" PROVE w = wal
    BY Zenon
  <2>1. Torn \notin Range(wal)
    BY <1>2, Zenon DEF WalInv, Range
  <2> QED
    BY <1>1, <1>2, <2>1, BeforeFacts, WholeIsBefore
<1> QED
  BY <1>1, <1>4, <1>5, <1>6, <1>7, Zenon DEF WalInv

\* The records of a WAL that grows by one.
LEMMA Grown ==
  ASSUME EngineTypes, NEW r, wal' = Append(wal, r)
  PROVE  /\ Len(wal') = Len(wal) + 1 /\ wal'[Len(wal) + 1] = r
         /\ \A i \in 1..Len(wal) : i \in 1..Len(wal') /\ wal'[i] = wal[i]
         /\ \A i \in 1..Len(wal') : i \in 1..Len(wal) \/ i = Len(wal')
<1>1. wal \in Seq(Mutations \cup {Torn}) /\ Len(wal) \in Nat
  BY DEF EngineTypes
<1>2. Len(wal') = Len(wal) + 1 /\ wal'[Len(wal) + 1] = r /\ \A i \in 1..Len(wal) : wal'[i] = wal[i]
  BY <1>1
<1> QED
  BY <1>1, <1>2

\* Every step keeps the torn record at the end, and there only while the engine is
\* closed.
LEMMA WalStep ==
  ASSUME Sane, EngineInv, WalInv, [Next]_vars
  PROVE  WalInv'
<1>1. EngineTypes /\ status \in {"closed", "open", "refused"}
  BY Zenon DEF EngineInv, EngineTypes
<1>2. ASSUME UNCHANGED wal, status # "open" => status' # "open" PROVE WalInv'
  BY <1>2, Zenon DEF WalInv
<1>3. ASSUME wal' = <<>> PROVE WalInv'
  <2>1. Len(wal') = 0
    BY <1>3, Zenon
  <2> QED
    BY <2>1 DEF WalInv
<1>4. CASE append
  <2>1. UNCHANGED status /\ status = "open"
    BY <1>4, AppendCases, Busy, Zenon
  <2>2. CASE wal' = wal
    BY <1>2, <2>1, <2>2, Zenon
  <2>3. ASSUME NEW r \in Writes, wal' = Append(wal, r) PROVE WalInv'
    <3>1. Applicable(r) /\ r # Torn
      BY EngineAssumption, Zenon DEF Sane
    <3>2. \A i \in 1..Len(wal) : wal[i] # Torn
      BY <2>1, Zenon DEF WalInv
    <3>3. \A i \in 1..Len(wal') : wal'[i] # Torn /\ Applicable(wal'[i])
      BY <1>1, <2>3, <3>1, <3>2, Grown DEF WalInv
    <3> QED
      BY <3>3, Zenon DEF WalInv
  <2>4. wal' = wal \/ \E r \in Writes : wal' = Append(wal, r)
    BY <1>4, AppendCases, Zenon DEF Sane
  <2> QED
    BY <2>2, <2>3, <2>4, Zenon
<1>5. CASE close \/ crash
  <2>1. status = "open" /\ status' = "closed" /\ (wal' = wal \/ wal' = Append(wal, Torn))
    BY <1>5, Zenon DEF close, crash, Stopped
  <2>2. CASE wal' = wal
    BY <1>2, <2>1, <2>2, Zenon
  <2>3. CASE wal' = Append(wal, Torn)
    <3>1. \A i \in 1..Len(wal) : wal[i] # Torn /\ Applicable(wal[i])
      BY <2>1, Zenon DEF WalInv
    <3>2. \A i \in 1..Len(wal') : i = Len(wal') \/ (wal'[i] # Torn /\ Applicable(wal'[i]))
      BY <1>1, <2>3, <3>1, Grown, Zenon
    <3>3. wal'[Len(wal')] = Torn /\ status' # "open"
      BY <1>1, <2>1, <2>3, Grown, Zenon
    <3> QED
      BY <3>2, <3>3, Zenon DEF WalInv
  <2> QED
    BY <2>1, <2>2, <2>3, Zenon
<1>6. CASE open
  <2>1. wal' = Whole \/ (wal' = wal /\ status' # "open")
    BY <1>6, Zenon DEF open
  <2>2. CASE wal' = Whole
    <3>1. DOMAIN Whole = 1..Len(Whole)
      BY <1>1, ReplayedTable
    <3>2. \A i \in 1..Len(wal') : wal'[i] # Torn /\ Applicable(wal'[i])
      BY <1>1, <2>2, <3>1, WalWhole, Zenon
    <3> QED
      BY <3>2, Zenon DEF WalInv
  <2> QED
    BY <1>2, <2>1, <2>2, Zenon
<1>7. CASE truncate
  BY <1>2, <1>3, <1>7, Zenon DEF truncate
<1>8. ASSUME \/ \E c \in Clients, m \in Writes : submit(c, m)
             \/ takeGroup \/ sync \/ apply \/ answer \/ snapshot \/ save \/ UNCHANGED vars
      PROVE  UNCHANGED wal /\ UNCHANGED status
  BY <1>8, Zenon DEF submit, takeGroup, sync, apply, answer, snapshot, save, vars
<1> QED
  BY <1>2, <1>4, <1>5, <1>6, <1>7, <1>8, Zenon DEF Next, runWriter

\* The empty WAL.
LEMMA WalStart ==
  ASSUME Init
  PROVE  WalInv
<1>1. Len(wal) = 0
  BY Zenon DEF Init
<1> QED
  BY <1>1 DEF WalInv

\* Whatever writes, failed appends, snapshots, crashes and restarts came before, the WAL
\* can be replayed and the process starts again, if a failed Wal::append leaves no part
\* of its record and no caller writes more mutations than apply takes (Wal::replay,
\* open; ecommerce_api_main.cc:210-219).  The run torn_write shows what a partial
\* record does.
THEOREM AlwaysOpensWhenSane ==
  ASSUME Sane
  PROVE  Spec => []AlwaysOpens
<1>1. Init => WalInv
  BY WalStart, Zenon
<1>2. EngineInv /\ WalInv /\ [Next]_vars => WalInv'
  BY WalStep, Zenon
<1>3. EngineInv /\ WalInv => AlwaysOpens
  BY WalWhole, Zenon DEF AlwaysOpens, Readable, EngineInv
<1> QED
  BY <1>1, <1>2, <1>3, EngineInvAlways, PTL DEF Spec

-----------------------------------------------------------------------------
(* The engine implements the durable store.                                *)

\* Some record of the WAL writes the key.
Touched(k) == \E i \in 1..Len(wal) : wal[i] # Torn /\ k \in DOMAIN wal[i]

\* What the writer has appended is in the WAL, and the table differs from the snapshot
\* only in keys of the WAL.
TableInv ==
  /\ \A i \in 1..writer.done : \E j \in 1..Len(wal) : wal[j] # Torn /\ wal[j] = want[writer.group[i]]
  /\ status = "open" => \A k \in Keys : Touched(k) \/ table[k] = snap[k]
  /\ saving = "truncate" => snap = table

\* The keys of a WAL that grows.
LEMMA StillTouched ==
  ASSUME EngineTypes, NEW r, wal' = Append(wal, r) \/ wal' = wal
  PROVE  /\ \A k : Touched(k) => Touched(k)'
         /\ \A v : (\E j \in 1..Len(wal) : wal[j] # Torn /\ wal[j] = v) => \E j \in 1..Len(wal') : wal'[j] # Torn /\ wal'[j] = v
<1>1. \A i \in 1..Len(wal) : i \in 1..Len(wal') /\ wal'[i] = wal[i]
  BY Grown, Zenon
<1> QED
  BY <1>1, Zenon DEF Touched

\* Steps that leave the WAL, the table and what has been appended.
LEMMA TableKept ==
  ASSUME EngineInv, TableInv, UNCHANGED <<status, table, snap, wal, saving>>,
         \/ writer'.done = 0
         \/ /\ writer'.done = writer.done /\ writer'.group = writer.group
            /\ \A i \in 1..writer.done : want'[writer.group[i]] = want[writer.group[i]]
  PROVE  TableInv'
<1>1. \A k \in Keys : Touched(k)' <=> Touched(k)
  BY Zenon DEF Touched
<1>2. \A i \in 1..writer'.done : \E j \in 1..Len(wal') : wal'[j] # Torn /\ wal'[j] = want'[writer'.group[i]]
  <2>1. CASE writer'.done = 0
    BY <2>1
  <2>2. CASE writer'.done # 0
    <3>1. /\ writer'.done = writer.done /\ writer'.group = writer.group
          /\ \A i \in 1..writer.done : want'[writer.group[i]] = want[writer.group[i]]
      BY <2>2, Zenon
    <3> SUFFICES ASSUME NEW i \in 1..writer.done
                 PROVE  \E j \in 1..Len(wal) : wal[j] # Torn /\ wal[j] = want[writer.group[i]]
      BY <3>1, Zenon
    <3> QED
      BY Zenon DEF TableInv
  <2> QED
    BY <2>1, <2>2, Zenon
<1> QED
  BY <1>1, <1>2, Zenon DEF TableInv

\* The steps of callers and writer.
LEMMA TableWriter ==
  ASSUME Sane, EngineInv, WalInv, TableInv,
         takeGroup \/ append \/ sync \/ apply \/ answer \/ \E c \in Clients, m \in Writes : submit(c, m)
  PROVE  TableInv'
<1>1. /\ EngineTypes /\ writer.done \in Nat /\ writer.group \in Seq(Clients) /\ want \in [Clients -> Writes \cup {Absent}]
      /\ writer.done <= Len(writer.group) /\ \A i \in 1..Len(writer.group) : want[writer.group[i]] # Absent
      /\ writer = [at |-> writer.at, group |-> writer.group, done |-> writer.done]
  BY Zenon DEF EngineInv, EngineTypes, WriterInv, QueueInv
<1>2. ASSUME NEW c \in Clients, NEW m \in Writes, submit(c, m) PROVE TableInv'
  <2>1. want[c] = Absent /\ want' = [want EXCEPT ![c] = Encoded(m)] /\ UNCHANGED <<status, table, snap, wal, writer, saving>>
    BY <1>2, Zenon DEF submit
  <2>2. \A i \in 1..writer.done : want'[writer.group[i]] = want[writer.group[i]]
    BY <1>1, <2>1
  <2> QED
    BY <2>1, <2>2, TableKept, Zenon
<1>3. CASE takeGroup
  <2>1. UNCHANGED <<status, table, snap, wal, saving>> /\ writer'.done = 0
    BY <1>3 DEF takeGroup
  <2> QED
    BY <2>1, TableKept, Zenon
<1>4. CASE sync
  <2>1. UNCHANGED <<status, table, snap, wal, saving, want>> /\ writer'.done = writer.done /\ writer'.group = writer.group
    BY <1>1, <1>4, Zenon DEF sync
  <2> QED
    BY <2>1, TableKept, Zenon
<1>5. CASE answer
  <2>1. UNCHANGED <<status, table, snap, wal, saving>> /\ writer'.done = 0
    BY <1>5, Zenon DEF answer, Resting
  <2> QED
    BY <2>1, TableKept, Zenon
<1>6. CASE append
  <2>1. PICK g, n, r : g = writer.group /\ n = writer.done /\ r = want[g[n + 1]]
    BY Zenon
  <2>2. /\ UNCHANGED <<status, table, snap, want, saving>> /\ n \in Nat /\ r \in Writes /\ saving = "no"
        /\ \/ wal' = Append(wal, r) /\ writer'.done = n + 1 /\ writer'.group = g
           \/ wal' = wal /\ writer'.done = n /\ writer'.group = g
    BY <1>1, <1>6, <2>1, AppendCases, Busy DEF Sane
  <2>3. CASE wal' = wal /\ writer'.done = n /\ writer'.group = g
    BY <2>1, <2>2, <2>3, TableKept, Zenon
  <2>4. CASE wal' = Append(wal, r) /\ writer'.done = n + 1 /\ writer'.group = g
    <3>1. \E j \in 1..Len(wal') : wal'[j] # Torn /\ wal'[j] = r
      <4>1. Len(wal') \in 1..Len(wal') /\ wal'[Len(wal')] = r
        BY <1>1, <2>4, Grown DEF EngineTypes
      <4>2. r # Torn
        BY <2>2, EngineAssumption, Zenon
      <4> QED
        BY <4>1, <4>2, Zenon
    <3>2. ASSUME NEW i \in 1..writer'.done
          PROVE  \E j \in 1..Len(wal') : wal'[j] # Torn /\ wal'[j] = want'[writer'.group[i]]
      <4>1. CASE i = n + 1
        BY <2>1, <2>2, <2>4, <3>1, <4>1
      <4>2. CASE i # n + 1
        <5>1. i \in 1..writer.done /\ want'[writer'.group[i]] = want[writer.group[i]]
          BY <2>1, <2>2, <2>4, <4>2
        <5>2. \E j \in 1..Len(wal) : wal[j] # Torn /\ wal[j] = want[writer.group[i]]
          BY <5>1, Zenon DEF TableInv
        <5>3. \E j \in 1..Len(wal') : wal'[j] # Torn /\ wal'[j] = want[writer.group[i]]
          BY <1>1, <2>4, <5>2, StillTouched, Zenon
        <5> QED
          BY <5>1, <5>3, Zenon
      <4> QED
        BY <4>1, <4>2, Zenon
    <3>3. \A k \in Keys : Touched(k) => Touched(k)'
      BY <1>1, <2>4, StillTouched, Zenon
    <3> QED
      BY <2>2, <3>2, <3>3, Zenon DEF TableInv
  <2> QED
    BY <2>2, <2>3, <2>4, Zenon
<1>7. CASE apply
  <2>1. PICK n \in 0..Len(writer.group) :
          /\ table' = Replay(table, SubSeq(Records(writer.group), 1, n))
          /\ writer'.done = writer.done /\ writer'.group = writer.group
    BY <1>7, ApplyCases
  <2>2. /\ UNCHANGED <<status, snap, wal, want, saving>> /\ writer.done = Len(writer.group) /\ saving = "no"
        /\ table \in Tables
    BY <1>1, <1>7, ApplyCases, Busy, Zenon DEF EngineTypes
  <2>3. PICK rs : rs = SubSeq(Records(writer.group), 1, n)
    BY Zenon
  <2>4. rs \in Seq(Mutations) /\ Len(rs) = n /\ \A i \in 1..n : rs[i] = want[writer.group[i]]
    BY <2>3, GroupRecords, Zenon
  <2>5. \A i \in 1..n : i \in 1..writer.done
    BY <1>1, <2>2
  <2>6. ASSUME NEW k \in Keys, ~Touched(k) PROVE table'[k] = table[k]
    <3>1. \A i \in 1..Len(rs) : k \notin DOMAIN rs[i]
      <4> SUFFICES ASSUME NEW i \in 1..n PROVE k \notin DOMAIN rs[i]
        BY <2>4, Zenon
      <4>1. PICK j \in 1..Len(wal) : wal[j] # Torn /\ wal[j] = want[writer.group[i]]
        BY <2>5, Zenon DEF TableInv
      <4>2. wal[j] = rs[i]
        BY <2>4, <4>1, Zenon
      <4> QED
        BY <2>6, <4>1, <4>2, Zenon DEF Touched
    <3> QED
      BY <2>1, <2>2, <2>3, <2>4, <3>1, ReplayFacts, Zenon
  <2>7. \A k \in Keys : Touched(k) = Touched(k)'
    BY <2>2, Zenon DEF Touched
  <2>8. status' = "open" => \A k \in Keys : Touched(k)' \/ table'[k] = snap'[k]
    BY <2>2, <2>6, <2>7, Zenon DEF TableInv
  <2>9. \A i \in 1..writer'.done : \E j \in 1..Len(wal') : wal'[j] # Torn /\ wal'[j] = want'[writer'.group[i]]
    BY <2>1, <2>2, Zenon DEF TableInv
  <2> QED
    BY <2>2, <2>8, <2>9 DEF TableInv
<1> QED
  BY <1>2, <1>3, <1>4, <1>5, <1>6, <1>7

\* Every step keeps the relation of table, snapshot and WAL.
LEMMA TableStep ==
  ASSUME Sane, EngineInv, WalInv, TableInv, [Next]_vars
  PROVE  TableInv'
<1>1. EngineTypes
  BY Zenon DEF EngineInv
<1>2. ASSUME writer'.done = 0, status' # "open", saving' = "no" PROVE TableInv'
  <2>1. \A i \in 1..writer'.done : FALSE
    BY <1>2
  <2> QED
    BY <1>2, <2>1, Zenon DEF TableInv
<1>3. CASE UNCHANGED vars
  BY <1>3, TableKept, Zenon DEF vars
<1>4. ASSUME snapshot \/ save \/ truncate PROVE TableInv'
  <2>1. \A c \in Clients : want[c] = Absent
    BY <1>4, Zenon DEF snapshot, save, truncate, EngineInv, IdleInv
  <2>2. UNCHANGED <<status, table, writer, want>> /\ writer.done = 0
    BY <1>4, <2>1, Quiet DEF snapshot, save, truncate, Resting
  <2>3. \A i \in 1..writer'.done : FALSE
    BY <2>2
  <2>4. CASE snap' = table
    BY <2>2, <2>3, <2>4, Zenon DEF TableInv
  <2>5. CASE wal' = wal /\ snap' = snap /\ saving' # "truncate"
    <3>1. \A k \in Keys : Touched(k) = Touched(k)'
      BY <2>5, Zenon DEF Touched
    <3> QED
      BY <2>2, <2>3, <2>5, <3>1, Zenon DEF TableInv
  <2> QED
    BY <1>4, <2>4, <2>5, Zenon DEF snapshot, save, truncate, TableInv
<1>5. ASSUME close \/ crash PROVE TableInv'
  <2>1. status' = "closed" /\ writer'.done = 0 /\ saving' = "no"
    BY <1>5 DEF close, crash, Stopped, Resting
  <2> QED
    BY <1>2, <2>1, Zenon
<1>6. ASSUME open PROVE TableInv'
  <2>1. /\ UNCHANGED <<snap, writer, saving>> /\ status # "open"
        /\ (status' = "open" /\ table' = Replayed /\ wal' = Whole) \/ status' = "refused"
    BY <1>6, Zenon DEF open
  <2>2. saving = "no" /\ writer.done = 0
    BY <2>1, Quiet DEF EngineInv, IdleInv, Resting
  <2>3. CASE status' = "open" /\ table' = Replayed /\ wal' = Whole
    <3>1. PICK w : w = Whole
      BY Zenon
    <3>2. w \in Seq(Mutations) /\ snap \in Tables /\ \A i \in 1..Len(w) : w[i] # Torn
      <4>1. w \in Seq(Mutations) /\ DOMAIN w = 1..Len(w)
        BY <1>1, <3>1, ReplayedTable
      <4> QED
        BY <1>1, <3>1, <4>1, WalWhole, Zenon DEF EngineTypes
    <3>3. ASSUME NEW k \in Keys, ~Touched(k)' PROVE table'[k] = snap'[k]
      <4>1. \A i \in 1..Len(w) : k \notin DOMAIN w[i]
        BY <2>3, <3>1, <3>2, <3>3, Zenon DEF Touched
      <4>2. Replay(snap, w)[k] = snap[k]
        BY <3>2, <4>1, ReplayFacts, Zenon
      <4> QED
        BY <2>1, <2>3, <3>1, <4>2, Zenon DEF Replayed
    <3>4. \A i \in 1..writer'.done : FALSE
      BY <2>1, <2>2
    <3> QED
      BY <2>1, <2>2, <3>3, <3>4, Zenon DEF TableInv
  <2>4. CASE status' = "refused"
    BY <1>2, <2>1, <2>2, <2>4, Zenon
  <2> QED
    BY <2>1, <2>3, <2>4, Zenon
<1> QED
  BY <1>3, <1>4, <1>5, <1>6, TableWriter, Zenon DEF Next, runWriter

\* Nothing is recorded in the beginning.
LEMMA TableStart ==
  ASSUME Init
  PROVE  TableInv
<1>1. writer.done = 0 /\ status # "open" /\ saving # "truncate"
  BY Zenon DEF Init, Resting
<1> QED
  BY <1>1 DEF TableInv

\* The operators of the table are those of the store.
LEMMA SameReplay ==
  /\ Durable!Empty = Empty /\ Durable!Mutations = Mutations
  /\ \A t, r : Durable!Apply(t, r) = Apply(t, r)
  /\ \A t, rs : Durable!Replay(t, rs) = Replay(t, rs)
  /\ \A f : Durable!Range(f) = Range(f)
<1>1. /\ Durable!Empty = Empty /\ Durable!Mutations = Mutations
      /\ \A t, r : Durable!Apply(t, r) = Apply(t, r)
  BY Zenon DEF Durable!Empty, Empty, Durable!Mutations, Mutations, Durable!Apply, Apply
<1>2. \A t, rs : Durable!Replay(t, rs) = Replay(t, rs)
  BY Zenon DEF Durable!Replay, Replay, Durable!Apply, Apply
<1>3. \A f : Durable!Range(f) = Range(f)
  BY Zenon DEF Durable!Range, Range
<1> QED
  BY <1>1, <1>2, <1>3, Zenon

\* The writes that callers w wait for, when the writer is at its step with group g.
Shown(w, at, g) == [c \in Clients |-> IF at = "answer" /\ c \in Range(g) THEN Absent ELSE w[c]]

\* The pending writes, by the writer's step and group.
LEMMA PendingShown ==
  /\ Pending = Shown(want, writer.at, writer.group)
  /\ Pending' = Shown(want', writer'.at, writer'.group)
BY Zenon DEF Pending, Unapplied, Shown

\* Before the writer answers these are all.
LEMMA AllShown ==
  ASSUME NEW w \in [Clients -> Writes \cup {Absent}], NEW at, NEW g, at # "answer"
  PROVE  Shown(w, at, g) = w
BY Zenon DEF Shown

\* A step that shows no change.
LEMMA SameStutters ==
  ASSUME (status' = "open") = (status = "open"), table' = table,
         Replayed' = Replayed, error' = error, Pending' = Pending, Recorded' = Recorded
  PROVE  [Durable!Next]_(Durable!storeVars)
BY Zenon DEF Durable!storeVars

\* A restart finds the same as long as snapshot and WAL stay.
LEMMA SameDisk ==
  ASSUME UNCHANGED <<snap, wal>>
  PROVE  Replayed' = Replayed
BY WholeIsBefore, WholeIsBeforePrimed, Zenon

\* submit is Write.
LEMMA SubmitImplements ==
  ASSUME EngineInv, NEW c \in Clients, NEW m \in Writes, submit(c, m)
  PROVE  Durable!Next
<1>1. /\ status = "open" /\ ~error /\ want[c] = Absent /\ want' = [want EXCEPT ![c] = m]
      /\ UNCHANGED <<status, table, snap, wal, writer, error>>
  BY Zenon DEF submit, Encoded
<1>2. c \notin Range(writer.group)
  BY <1>1 DEF EngineInv, EngineTypes, QueueInv, Range
<1>3. want \in [Clients -> Writes \cup {Absent}]
  BY Zenon DEF EngineInv, EngineTypes
<1>4. Pending' = [Pending EXCEPT ![c] = m] /\ Pending[c] = Absent
  BY <1>1, <1>2, <1>3, PendingShown, Zenon DEF Shown
<1>5. Recorded' = Recorded
  BY <1>1, Zenon DEF Recorded
<1>6. Replayed' = Replayed
  BY <1>1, SameDisk, Zenon
<1>7. Durable!Write(c, m)
  BY <1>1, <1>4, <1>5, <1>6, Zenon DEF Durable!Write
<1>8. m \in Durable!Mutations
  BY SameReplay, EngineAssumption, Zenon
<1> QED
  BY <1>7, <1>8, Zenon DEF Durable!Next

\* takeGroup shows nothing.
LEMMA TakeGroupImplements ==
  ASSUME EngineInv, takeGroup
  PROVE  [Durable!Next]_(Durable!storeVars)
<1>1. /\ writer.at = "wait" /\ writer'.at = "append" /\ writer'.done = 0
      /\ UNCHANGED <<status, table, snap, wal, want, error>>
  BY DEF takeGroup
<1>2. PICK n \in 1..Len(queue) : writer'.group = SubSeq(queue, 1, n)
  BY DEF takeGroup
<1>3. queue \in Seq(Clients) /\ n \in 0..Len(queue) /\ want \in [Clients -> Writes \cup {Absent}]
  BY <1>2 DEF EngineInv, EngineTypes
<1>4. writer'.group \in Seq(Clients)
  BY <1>2, <1>3, Prefix
<1>5. Recorded' = <<>>
  <2>1. PICK g : g = writer'.group
    BY Zenon
  <2>2. g \in Seq(Clients) /\ SubSeq(g, 1, 0) = <<>>
    BY <1>4, <2>1
  <2> QED
    BY <1>1, <2>1, <2>2, Zenon DEF Recorded
<1>6. Recorded = <<>>
  <2>1. writer = Resting
    BY <1>1, Zenon DEF EngineInv, WriterInv
  <2>2. SubSeq(<<>>, 1, 0) = <<>>
    OBVIOUS
  <2> QED
    BY <2>1, <2>2, Zenon DEF Recorded, Resting
<1>7. Pending' = want /\ Pending = want
  BY <1>1, <1>3, PendingShown, AllShown
<1>8. Replayed' = Replayed
  BY <1>1, SameDisk, Zenon
<1> QED
  BY <1>1, <1>5, <1>6, <1>7, <1>8, SameStutters

\* sync shows nothing.
LEMMA SyncImplements ==
  ASSUME EngineInv, sync
  PROVE  [Durable!Next]_(Durable!storeVars)
<1>1. /\ writer.at = "sync" /\ writer'.at # "answer" /\ writer'.group = writer.group /\ writer'.done = writer.done
      /\ UNCHANGED <<status, table, snap, wal, want, error>> /\ want \in [Clients -> Writes \cup {Absent}]
  BY Zenon DEF sync, EngineInv, EngineTypes
<1>2. Recorded' = Recorded
  BY <1>1, Zenon DEF Recorded
<1>3. Pending' = want /\ Pending = want
  BY <1>1, PendingShown, AllShown, Zenon
<1>4. Replayed' = Replayed
  BY <1>1, SameDisk, Zenon
<1> QED
  BY <1>1, <1>2, <1>3, <1>4, SameStutters

\* The end of an append is Record; one that fails leaves nothing.
LEMMA AppendImplements ==
  ASSUME Sane, EngineInv, WalInv, append
  PROVE  [Durable!Next]_(Durable!storeVars)
<1>1. PICK g, n, r : g = writer.group /\ n = writer.done /\ r = want[g[n + 1]]
  BY Zenon
<1>2. /\ UNCHANGED <<status, table, snap, want, error>> /\ n \in Nat /\ n < Len(g) /\ r \in Writes
      /\ writer.at = "append" /\ status = "open"
      /\ \/ wal' = Append(wal, r) /\ writer'.done = n + 1 /\ writer'.group = g /\ writer'.at # "answer"
         \/ wal' = wal /\ writer'.done = n /\ writer'.group = g /\ writer'.at # "answer"
  BY <1>1, AppendCases, Busy DEF Sane, EngineInv, EngineTypes
<1>3. g \in Seq(Clients) /\ want \in [Clients -> Writes \cup {Absent}] /\ EngineTypes
  BY <1>1, Zenon DEF EngineInv, EngineTypes
<1>4. Pending' = want /\ Pending = want
  BY <1>2, <1>3, PendingShown, AllShown, Zenon
<1>5. Recorded = SubSeq(g, 1, n)
  BY <1>1, <1>2, Zenon DEF Recorded
<1>6. CASE wal' = wal /\ writer'.done = n /\ writer'.group = g /\ writer'.at # "answer"
  <2>1. Recorded' = SubSeq(g, 1, n)
    BY <1>6, Zenon DEF Recorded
  <2>2. Replayed' = Replayed
    BY <1>2, <1>6, SameDisk, Zenon
  <2> QED
    BY <1>2, <1>4, <1>5, <2>1, <2>2, SameStutters
<1>7. CASE wal' = Append(wal, r) /\ writer'.done = n + 1 /\ writer'.group = g /\ writer'.at # "answer"
  <2>1. PICK c : c = g[n + 1]
    BY Zenon
  <2>2. c \in Clients /\ r = want[c] /\ r # Absent /\ r # Torn /\ r \in Mutations
    BY <1>1, <1>2, <1>3, <2>1, EngineAssumption
  <2>3. Recorded' = Append(Recorded, c)
    <3>1. Recorded' = SubSeq(g, 1, n + 1)
      BY <1>7, Zenon DEF Recorded
    <3>2. SubSeq(g, 1, n + 1) = Append(SubSeq(g, 1, n), g[n + 1])
      BY <1>2, <1>3, LongerPrefix, Zenon
    <3> QED
      BY <1>5, <2>1, <3>1, <3>2, Zenon
  <2>4. c \notin Range(Recorded)
    <3>1. PICK s : s = SubSeq(g, 1, n)
      BY Zenon
    <3>2. s \in Seq(Clients) /\ Len(s) = n /\ \A i \in 1..n : s[i] = g[i]
      <4>1. n \in 0..Len(g)
        BY <1>2, <1>3
      <4> QED
        BY <1>3, <3>1, <4>1, Prefix
    <3>3. \A i \in 1..n : g[i] # g[n + 1]
      <4>1. \A i, j \in 1..Len(g) : g[i] = g[j] => i = j
        BY <1>1, Zenon DEF EngineInv, QueueInv
      <4> QED
        BY <1>2, <1>3, <4>1
    <3>4. Range(s) = {s[i] : i \in 1..n}
      BY <3>2 DEF Range
    <3> QED
      BY <1>5, <2>1, <3>1, <3>2, <3>3, <3>4
  <2>5. Replayed' = Apply(Replayed, r)
    <3>1. Whole = wal /\ Torn \notin Range(wal)
      <4>1. DOMAIN wal = 1..Len(wal)
        BY <1>3 DEF EngineTypes
      <4> QED
        BY <1>2, <1>3, <4>1, WalWhole, Zenon DEF WalInv, Range
    <3>2. wal \in Seq(Mutations)
      BY <1>3, <3>1, ReplayedTable, Zenon
    <3>3. PICK u : u = Append(wal, r)
      BY Zenon
    <3>4. u \in Seq(Mutations)
      BY <2>2, <3>2, <3>3, AppendTyped
    <3>5. u \in Seq(Mutations \cup {Torn}) /\ Torn \notin Range(u)
      <4>1. \A i \in 1..Len(u) : u[i] \in Mutations /\ u[i] # Torn
        BY <3>4, EngineAssumption
      <4> QED
        BY <3>4, <4>1 DEF Range
    <3>6. Replayed' = Replay(snap, u)
      BY <1>2, <1>7, <3>3, <3>5, BeforeFacts, WholeIsBeforePrimed, Zenon
    <3>7. Replayed = Replay(snap, wal)
      BY <3>1, Zenon DEF Replayed
    <3> QED
      <4>1. Replay(snap, Append(wal, r)) = Apply(Replay(snap, wal), r)
        BY <2>2, <3>2, ReplayEnds
      <4> QED
        BY <3>3, <3>6, <3>7, <4>1, Zenon
  <2>6. Durable!Record(c)
    BY <1>2, <1>4, <2>2, <2>3, <2>4, <2>5, SameReplay, Zenon DEF Durable!Record
  <2> QED
    BY <2>2, <2>6, Zenon DEF Durable!Next
<1> QED
  BY <1>2, <1>6, <1>7, Zenon

\* apply is Commit: with Sane no record is refused.
LEMMA ApplyImplements ==
  ASSUME Sane, EngineInv, apply
  PROVE  Durable!Next
<1>1. PICK g : g = writer.group
  BY Zenon
<1>2. /\ writer.at = "apply" /\ writer.done = Len(g) /\ UNCHANGED <<status, snap, wal, want, error>>
      /\ table' = Replay(table, SubSeq(Records(g), 1, Len(g)))
      /\ writer'.at = "answer" /\ writer'.group = g
  BY <1>1, ApplyCases DEF Sane
<1>3. /\ g \in Seq(Clients) /\ Len(g) > 0 /\ Len(g) \in Nat /\ DOMAIN g = 1..Len(g)
      /\ want \in [Clients -> Writes \cup {Absent}]
  BY <1>1, <1>2 DEF EngineInv, EngineTypes, WriterInv
<1>4. Recorded = g
  <2>1. SubSeq(g, 1, Len(g)) = g
    BY <1>3
  <2> QED
    BY <1>1, <1>2, <2>1, Zenon DEF Recorded
<1>5. Pending = want
  BY <1>2, <1>3, PendingShown, AllShown, Zenon
<1>6. Pending' = [c \in Clients |-> IF c \in Range(g) THEN Absent ELSE want[c]]
  BY <1>2, PendingShown, Zenon DEF Shown
<1>7. Recorded' = <<>>
  BY <1>2, Zenon DEF Recorded
<1>8. SubSeq(Records(g), 1, Len(g)) = [i \in DOMAIN g |-> want[g[i]]]
  <2>1. PICK rs : rs = [i \in 1..Len(g) |-> want[g[i]]]
    BY Zenon
  <2>2. rs = Records(g)
    BY <1>3, <2>1, Zenon DEF Records
  <2>3. rs \in Seq(Writes \cup {Absent}) /\ Len(rs) = Len(g)
    BY <1>3, <2>1
  <2>4. SubSeq(rs, 1, Len(rs)) = rs
    BY <2>3
  <2> QED
    BY <1>3, <2>1, <2>2, <2>3, <2>4, Zenon
<1>9. Replayed' = Replayed
  BY <1>2, SameDisk, Zenon
<1>10. Recorded # <<>>
  BY <1>3, <1>4
<1>11. table' = Durable!Replay(table, [i \in DOMAIN Recorded |-> Pending[Recorded[i]]])
  BY <1>2, <1>4, <1>5, <1>8, SameReplay, Zenon
<1>12. Pending' = [c \in Clients |-> IF c \in Durable!Range(Recorded) THEN Absent ELSE Pending[c]]
  BY <1>4, <1>5, <1>6, SameReplay, Zenon
<1>13. Durable!Commit
  BY <1>2, <1>7, <1>9, <1>10, <1>11, <1>12, Zenon DEF Durable!Commit
<1> QED
  BY <1>13, Zenon DEF Durable!Next

\* The answer to a group that failed is Fail, to one that was applied it shows nothing.
LEMMA AnswerImplements ==
  ASSUME EngineInv, answer
  PROVE  [Durable!Next]_(Durable!storeVars)
<1>1. PICK g, n : g = writer.group /\ n = writer.done
  BY Zenon
<1>2. /\ writer.at \in {"answer", "fail"} /\ error' = (error \/ writer.at = "fail")
      /\ want' = [c \in Clients |-> IF c \in Range(g) THEN Absent ELSE want[c]]
      /\ writer' = Resting /\ UNCHANGED <<status, table, snap, wal>>
  BY <1>1, Zenon DEF answer
<1>3. /\ g \in Seq(Clients) /\ Len(g) > 0 /\ n \in 0..Len(g) /\ error \in BOOLEAN
      /\ want \in [Clients -> Writes \cup {Absent}] /\ \A i \in 1..Len(g) : want[g[i]] # Absent
  BY <1>1, <1>2 DEF EngineInv, EngineTypes, WriterInv, QueueInv
<1>4. Recorded' = <<>>
  <2>1. SubSeq(<<>>, 1, 0) = <<>>
    OBVIOUS
  <2> QED
    BY <1>2, <2>1, Zenon DEF Recorded, Resting
<1>5. Pending' = want'
  <2>1. want' \in [Clients -> Writes \cup {Absent}] /\ writer'.at # "answer"
    BY <1>2, <1>3, Zenon DEF Resting
  <2> QED
    BY <2>1, PendingShown, AllShown, Zenon
<1>6. Replayed' = Replayed
  BY <1>2, SameDisk, Zenon
<1>7. CASE writer.at = "answer"
  <2>1. Pending = want'
    BY <1>1, <1>2, <1>7, PendingShown, Zenon DEF Shown
  <2>2. Recorded = <<>> /\ error' = error
    BY <1>2, <1>3, <1>7, Zenon DEF Recorded
  <2> QED
    BY <1>2, <1>4, <1>5, <1>6, <2>1, <2>2, SameStutters, Zenon
<1>8. CASE writer.at = "fail"
  <2>1. Pending = want
    BY <1>3, <1>8, PendingShown, AllShown, Zenon
  <2>2. PICK s : s = SubSeq(g, 1, n)
    BY Zenon
  <2>3. Recorded = s
    BY <1>1, <1>8, <2>2, Zenon DEF Recorded
  <2>4. s \in Seq(Clients) /\ Len(s) = n /\ \A i \in 1..n : s[i] = g[i]
    BY <1>3, <2>2, Prefix
  <2>5. Range(s) = {s[i] : i \in 1..n} /\ Range(g) = {g[i] : i \in 1..Len(g)}
    BY <1>3, <2>4 DEF Range
  <2>6. Range(s) \subseteq Range(g)
    BY <1>3, <2>4, <2>5
  <2>7. Range(g) # {} /\ Range(g) \subseteq {c \in Clients : want[c] # Absent}
    BY <1>3, <2>5
  <2>8. error' = TRUE
    BY <1>2, <1>8, Zenon
  <2>9. Range(g) \in (SUBSET {c \in Clients : Pending[c] # Absent}) \ {{}}
    <3>1. \A c \in Range(g) : c \in Clients /\ Pending[c] # Absent
      BY <2>1, <2>7, Zenon
    <3>2. Range(g) \in SUBSET {c \in Clients : Pending[c] # Absent} /\ Range(g) \notin {{}}
      BY <2>7, <3>1, Zenon
    <3> QED
      BY <3>2, Zenon
  <2>10. Durable!Range(Recorded) \subseteq Range(g)
    BY <2>3, <2>6, SameReplay, Zenon
  <2>11. Pending' = [c \in Clients |-> IF c \in Range(g) THEN Absent ELSE Pending[c]]
    BY <1>2, <1>5, <2>1, Zenon
  <2>12. Durable!Fail
    BY <1>2, <1>4, <1>6, <2>8, <2>9, <2>10, <2>11, Zenon DEF Durable!Fail
  <2> QED
    BY <2>12, Zenon DEF Durable!Next
<1> QED
  BY <1>2, <1>7, <1>8, Zenon

\* save shows nothing: the WAL still writes what the snapshot now holds.  A truncation
\* is Checkpoint, or shows nothing when it fails.
LEMMA SavingImplements ==
  ASSUME Sane, EngineInv, WalInv, TableInv, snapshot \/ save \/ truncate
  PROVE  [Durable!Next]_(Durable!storeVars)
<1>1. /\ \A c \in Clients : want[c] = Absent /\ status = "open"
      /\ UNCHANGED <<status, table, queue, want, writer, error>>
  BY Zenon DEF snapshot, save, truncate, EngineInv, IdleInv
<1>2. status = "open" /\ writer = Resting /\ EngineTypes
  BY <1>1, Quiet, Zenon DEF snapshot, save, truncate, EngineInv, IdleInv
<1>3. Recorded = <<>> /\ Recorded' = Recorded /\ Pending' = Pending
  <2>1. SubSeq(<<>>, 1, 0) = <<>>
    OBVIOUS
  <2> QED
    BY <1>1, <1>2, <2>1, PendingShown, Zenon DEF Recorded, Resting
<1>4. /\ wal \in Seq(Mutations) /\ snap \in Tables /\ table \in Tables
      /\ Replayed = Replay(snap, wal) /\ \A i \in 1..Len(wal) : wal[i] # Torn
  BY <1>2, WalWhole, ReplayedTable, Zenon DEF Replayed, EngineTypes, WalInv
<1>5. CASE UNCHANGED <<snap, wal>>
  BY <1>1, <1>3, <1>5, SameDisk, SameStutters, Zenon
<1>6. CASE snap' = table /\ wal' = wal
  <2>1. \A k \in Keys : (\A i \in 1..Len(wal) : k \notin DOMAIN wal[i]) => table[k] = snap[k]
    BY <1>2, <1>4, Zenon DEF TableInv, Touched
  <2>2. Replay(table, wal) = Replay(snap, wal)
    BY <1>4, <2>1, ReplayMeets, Zenon
  <2>3. Replayed' = Replay(table, wal)
    <3>1. Before(wal) = wal
      <4>1. Whole = wal
        BY <1>2, WalWhole, Zenon
      <4> QED
        BY <4>1, WholeIsBefore, Zenon
    <3> QED
      BY <1>6, <3>1, WholeIsBeforePrimed, Zenon
  <2> QED
    BY <1>1, <1>3, <1>4, <2>2, <2>3, SameStutters, Zenon
<1>7. CASE snap' = table /\ wal' = <<>>
  <2>1. Before(<<>>) = <<>> /\ Replay(table, <<>>) = table
    <3>1. <<>> \in Seq(Mutations \cup {Torn}) /\ Torn \notin Range(<<>>)
      BY DEF Range
    <3> QED
      BY <1>4, <3>1, BeforeFacts, ReplayNothing, Zenon
  <2>2. Replayed' = table
    BY <1>7, <2>1, WholeIsBeforePrimed, Zenon
  <2>3. Durable!Checkpoint
    BY <1>1, <1>2, <1>3, <2>2, Zenon DEF Durable!Checkpoint
  <2> QED
    BY <2>3, Zenon DEF Durable!Next
<1> QED
  BY <1>5, <1>6, <1>7, Zenon DEF snapshot, save, truncate, TableInv

\* close and crash are Stop: the part of a record that a crash leaves is not read.
LEMMA StopImplements ==
  ASSUME EngineInv, WalInv, close \/ crash
  PROVE  Durable!Next
<1>1. /\ status = "open" /\ Stopped /\ UNCHANGED snap /\ (wal' = wal \/ wal' = Append(wal, Torn))
  BY Zenon DEF close, crash
<1>2. /\ status' = "closed" /\ table' = Empty /\ error' = FALSE /\ writer' = Resting
      /\ want' = [c \in Clients |-> Absent] /\ EngineTypes
  BY <1>1, Zenon DEF Stopped, EngineInv
<1>3. Recorded' = <<>>
  <2>1. SubSeq(<<>>, 1, 0) = <<>>
    OBVIOUS
  <2> QED
    BY <1>2, <2>1, Zenon DEF Recorded, Resting
<1>4. Pending' = [c \in Clients |-> Absent]
  BY <1>2, PendingShown, Zenon DEF Shown, Resting
<1>5. Replayed' = Replayed
  <2>1. CASE wal' = wal
    BY <1>1, <2>1, SameDisk, Zenon
  <2>2. CASE wal' = Append(wal, Torn)
    <3>1. PICK u : u = wal'
      BY Zenon
    <3>2. wal \in Seq(Mutations \cup {Torn}) /\ Len(wal) \in Nat
      BY <1>2 DEF EngineTypes
    <3>3. \A i \in 1..Len(wal) : wal[i] # Torn
      BY <1>1, Zenon DEF WalInv
    <3>4. /\ u \in Seq(Mutations \cup {Torn}) /\ Len(u) = Len(wal) + 1 /\ u[Len(u)] = Torn
          /\ \A i \in 1..Len(wal) : u[i] = wal[i]
      BY <2>2, <3>1, <3>2
    <3>5. Torn \in Range(u)
      BY <3>2, <3>4 DEF Range
    <3>6. First(u) \in 1..Len(u) /\ u[First(u)] = Torn /\ Len(Before(u)) = First(u) - 1
      BY <3>4, <3>5, BeforeFacts, Zenon
    <3>7. First(u) = Len(u)
      BY <3>2, <3>3, <3>4, <3>6
    <3>8. Before(u) \in Seq(Mutations) /\ Len(Before(u)) = Len(wal) /\ \A i \in 1..Len(wal) : Before(u)[i] = wal[i]
      BY <3>2, <3>4, <3>6, <3>7, BeforeFacts
    <3>9. Before(u) = wal
      BY <3>2, <3>8
    <3>10. Before(wal) = wal
      <4>1. Whole = wal
        BY <1>1, <1>2, WalWhole, Zenon
      <4> QED
        BY <4>1, WholeIsBefore, Zenon
    <3> QED
      BY <1>1, <3>1, <3>9, <3>10, WholeIsBefore, WholeIsBeforePrimed, Zenon
  <2> QED
    BY <1>1, <2>1, <2>2, Zenon
<1>6. Durable!Stop
  BY <1>1, <1>2, <1>3, <1>4, <1>5, SameReplay, Zenon DEF Durable!Stop
<1> QED
  BY <1>6, Zenon DEF Durable!Next

\* open is Start.
LEMMA OpenImplements ==
  ASSUME EngineInv, WalInv, open
  PROVE  Durable!Next
<1>1. EngineTypes /\ UNCHANGED <<snap, want, writer, error>> /\ status # "open"
  BY Zenon DEF open, EngineInv
<1>2. Readable
  BY <1>1, WalWhole, Zenon DEF Readable
<1>3. status' = "open" /\ table' = Replayed /\ wal' = Whole
  BY <1>2, Zenon DEF open
<1>4. Replayed' = Replayed
  <2>1. PICK w : w = Whole
    BY Zenon
  <2>2. w \in Seq(Mutations) /\ DOMAIN w = 1..Len(w)
    BY <1>1, <2>1, ReplayedTable
  <2>3. w \in Seq(Mutations \cup {Torn}) /\ Torn \notin Range(w)
    <3>1. \A i \in 1..Len(w) : w[i] \in Mutations /\ w[i] # Torn
      BY <2>2, EngineAssumption
    <3> QED
      BY <2>2, <3>1 DEF Range
  <2>4. Before(w) = w
    BY <2>3, BeforeFacts, Zenon
  <2> QED
    BY <1>1, <1>3, <2>1, <2>4, WholeIsBeforePrimed, Zenon DEF Replayed
<1>5. Recorded' = Recorded /\ Pending' = Pending
  BY <1>1, PendingShown, Zenon DEF Recorded
<1>6. Durable!Start
  BY <1>1, <1>3, <1>4, <1>5, Zenon DEF Durable!Start
<1> QED
  BY <1>6, Zenon DEF Durable!Next

\* The queue, the writer thread, the WAL and the snapshots together are the store that
\* the services above take for granted: a write is recorded before it is visible, the
\* writes of a group become visible at once, no write is taken after one has failed,
\* and a restart finds what was recorded (LocalKVEngine::runWriter, snapshot, open),
\* if a failed Wal::append leaves no part of its record and no caller writes more
\* mutations than apply takes.
THEOREM EngineImplementsDurableStore ==
  ASSUME Sane
  PROVE  Spec => ImplementsDurableStore
<1> DEFINE SaneInv == EngineInv /\ WalInv /\ TableInv
<1>1. Init => WalInv /\ TableInv
  BY WalStart, TableStart, Zenon
<1>2. SaneInv /\ [Next]_vars => WalInv' /\ TableInv'
  BY WalStep, TableStep, Zenon
<1>3. Init => Durable!Init
  <2> SUFFICES ASSUME Init PROVE Durable!Init
    BY Zenon
  <2>1. /\ status = "closed" /\ table = Empty /\ snap = Empty /\ error = FALSE /\ wal = <<>>
        /\ want = [c \in Clients |-> Absent] /\ writer = Resting
    BY Zenon DEF Init
  <2>2. Recorded = <<>>
    <3>1. SubSeq(<<>>, 1, 0) = <<>>
      OBVIOUS
    <3> QED
      BY <2>1, <3>1, Zenon DEF Recorded, Resting
  <2>3. Pending = [c \in Clients |-> Absent]
    BY <2>1, PendingShown, Zenon DEF Shown, Resting
  <2>4. Replayed = Empty
    <3>1. <<>> \in Seq(Mutations \cup {Torn}) /\ Torn \notin Range(<<>>)
      BY DEF Range
    <3>2. Before(<<>>) = <<>>
      BY <3>1, BeforeFacts, Zenon
    <3> QED
      BY <2>1, <3>2, WholeIsBefore, ReplayNothing, Zenon
  <2> QED
    BY <2>1, <2>2, <2>3, <2>4, SameReplay, Zenon DEF Durable!Init
<1>4. SaneInv /\ [Next]_vars => [Durable!Next]_(Durable!storeVars)
  <2> SUFFICES ASSUME EngineInv, WalInv, TableInv, [Next]_vars PROVE [Durable!Next]_(Durable!storeVars)
    BY Zenon
  <2>1. ASSUME UNCHANGED vars PROVE [Durable!Next]_(Durable!storeVars)
    <3>1. UNCHANGED <<status, table, snap, wal, want, writer, error>>
      BY <2>1, Zenon DEF vars
    <3>2. Recorded' = Recorded /\ Pending' = Pending
      BY <3>1, PendingShown, Zenon DEF Recorded
    <3> QED
      BY <3>1, <3>2, SameDisk, SameStutters, Zenon
  <2> QED
    BY <2>1, SubmitImplements, TakeGroupImplements, AppendImplements, SyncImplements, ApplyImplements,
       AnswerImplements, SavingImplements, StopImplements, OpenImplements, Zenon DEF Next, runWriter
<1> QED
  BY <1>1, <1>2, <1>3, <1>4, EngineInvAlways, PTL DEF Spec, ImplementsDurableStore, Durable!Spec
====
