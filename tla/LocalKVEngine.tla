---------------------------- MODULE LocalKVEngine ----------------------------
(***************************************************************************)
(* The embedded key-value engine: storage/local_engine, storage/wal and    *)
(* storage/snapshot.                                                       *)
(*                                                                         *)
(* Callers queue their write and wait.  One writer thread takes a group of *)
(* writes from the queue, appends their records to the WAL, syncs once,    *)
(* applies them to the table and answers all of them with one status.  A   *)
(* snapshot keeps the callers out, saves the table and empties the WAL.    *)
(* The WAL is a sequence of records; a record that was written in part is  *)
(* Torn.  The process may die between any two steps, and in the middle of  *)
(* an append.  Reading (get, scanPrefix) changes nothing and has no action.*)
(***************************************************************************)
EXTENDS KVTable, FiniteSets, Functions

CONSTANTS
  Clients,
  Writes,       \* what callers write: sets of keys to set or (Absent) delete
  MaxGroup,     \* kMaxBatch
  MaxMutations, \* the most mutations of one record that apply takes
  MaxWal,       \* bound: no write is submitted beyond so many records
  Tears,        \* whether a failed append may leave a part of its record
  Torn

ASSUME EngineAssumption ==
  /\ Writes \subseteq Mutations
  /\ {MaxGroup, MaxMutations, MaxWal} \subseteq Nat \ {0}
  /\ Tears \in BOOLEAN
  /\ Torn # Absent /\ {Torn, Absent} \cap (Mutations \cup Values \cup Clients) = {}

VARIABLES
  status,   \* of the engine: closed, open, or refused by a failed open
  table,    \* data_
  snap,     \* the snapshot file
  wal,      \* the WAL file
  queue,    \* queue_: the clients whose writes wait for the writer
  want,     \* per client: the record of its write, until it is answered
  writer,   \* the writer: its step, its group, and how many records it appended
  error,    \* writer_error_ is set
  saving    \* the step of the snapshot that is under way

vars == <<status, table, snap, wal, queue, want, writer, error, saving>>

Applicable(r) == Cardinality(DOMAIN r) <= MaxMutations

Resting == [at |-> "wait", group |-> <<>>, done |-> 0]

\* The records of a group, in the order they are appended.
Records(group) == [i \in DOMAIN group |-> want[group[i]]]

-----------------------------------------------------------------------------
(* Callers.                                                                *)

\* Mutant: the record of a batch holds only its first mutation.
FirstMutation(m) == [k \in {CHOOSE k \in DOMAIN m : TRUE} |-> m[k]]

\* set and del make one record, writeBatch one record of all its mutations.
Encoded(m) == m

\* set, del, writeBatch: the caller holds operation_gate_ shared until it is
\* answered, so none starts while a snapshot is under way.
submit(c, m) ==
  /\ status = "open" /\ saving = "no"
  /\ ~error /\ want[c] = Absent
  /\ Len(wal) + Cardinality({d \in Clients : want[d] # Absent}) < MaxWal
  /\ want' = [want EXCEPT ![c] = Encoded(m)]
  /\ queue' = Append(queue, c)
  /\ UNCHANGED <<status, table, snap, wal, writer, error, saving>>

-----------------------------------------------------------------------------
(* The writer thread.                                                      *)

\* A group is what has been queued when the writer looks again, a millisecond
\* after the first write; at most MaxGroup.
takeGroup ==
  /\ writer.at = "wait" /\ queue # <<>>
  /\ \E n \in 1..Len(queue) :
       /\ n = Len(queue) \/ n = MaxGroup
       /\ n <= MaxGroup
       /\ writer' = [at |-> "append", group |-> SubSeq(queue, 1, n), done |-> 0]
       /\ queue' = SubSeq(queue, n + 1, Len(queue))
  /\ UNCHANGED <<status, table, snap, wal, want, error, saving>>

\* Wal::append of the next record.  A failure ends the group, with nothing of the
\* record in the file or with a part of it.
append ==
  LET rs == Records(writer.group)
  IN  /\ writer.at = "append"
      /\ \/ /\ wal' = Append(wal, rs[writer.done + 1])
            /\ writer' = [writer EXCEPT !.done = @ + 1,
                 !.at = IF writer.done + 1 = Len(rs) THEN "sync" ELSE "append"]
         \/ /\ wal' \in {wal} \cup (IF Tears THEN {Append(wal, Torn)} ELSE {})
            /\ writer' = [writer EXCEPT !.at = "fail"]
      /\ UNCHANGED <<status, table, snap, queue, want, error, saving>>

\* fsync may fail with all the records in the file.
sync ==
  /\ writer.at = "sync"
  /\ writer' \in {[writer EXCEPT !.at = "apply"], [writer EXCEPT !.at = "fail"]}
  /\ UNCHANGED <<status, table, snap, wal, queue, want, error, saving>>

\* apply refuses a record of too many mutations, and the rest of the group.
apply ==
  LET rs == Records(writer.group)
      bad == {i \in DOMAIN rs : ~Applicable(rs[i])}
      n == IF bad = {} THEN Len(rs) ELSE (CHOOSE i \in bad : \A j \in bad : i <= j) - 1
  IN  /\ writer.at = "apply"
      /\ table' = Replay(table, SubSeq(rs, 1, n))
      /\ writer' = [writer EXCEPT !.at = IF bad = {} THEN "answer" ELSE "fail"]
      /\ UNCHANGED <<status, snap, wal, queue, want, error, saving>>

\* Mutant: only the first write of a group is answered.
AnswerFirst ==
  /\ writer.at \in {"answer", "fail"}
  /\ error' = (error \/ writer.at = "fail")
  /\ want' = [want EXCEPT ![writer.group[1]] = Absent]
  /\ writer' = Resting
  /\ UNCHANGED <<status, table, snap, wal, queue, saving>>

\* Every write of the group gets the same status; a failure is kept in
\* writer_error_.  The writer goes on with what has been queued meanwhile.
answer ==
  /\ writer.at \in {"answer", "fail"}
  /\ error' = (error \/ writer.at = "fail")
  /\ want' = [c \in Clients |-> IF c \in Range(writer.group) THEN Absent ELSE want[c]]
  /\ writer' = Resting
  /\ UNCHANGED <<status, table, snap, wal, queue, saving>>

-----------------------------------------------------------------------------
(* Snapshots: the exclusive gate and the barrier, save, truncate.          *)

\* Mutant: the snapshot does not wait for the writes under way.
SnapshotUngated ==
  /\ status = "open" /\ saving = "no"
  /\ saving' = "save"
  /\ UNCHANGED <<status, table, snap, wal, queue, want, writer, error>>

snapshot ==
  /\ status = "open" /\ saving = "no"
  /\ \A c \in Clients : want[c] = Absent
  /\ saving' = "save"
  /\ UNCHANGED <<status, table, snap, wal, queue, want, writer, error>>

\* The snapshot is written beside the old one and renamed; a failure leaves the
\* old one and ends the snapshot.
save ==
  /\ saving = "save"
  /\ \/ snap' = table /\ saving' = "truncate"
     \/ snap' = snap /\ saving' = "no"
  /\ UNCHANGED <<status, table, wal, queue, want, writer, error>>

\* The truncation may fail, before or after it emptied the file.
truncate ==
  /\ saving = "truncate"
  /\ \/ wal' = <<>>
     \/ UNCHANGED wal
  /\ saving' = "no"
  /\ UNCHANGED <<status, table, snap, queue, want, writer, error>>

-----------------------------------------------------------------------------
(* Closing, crashing, opening.                                             *)

Stopped ==
  /\ status' = "closed" /\ table' = Empty
  /\ queue' = <<>> /\ want' = [c \in Clients |-> Absent]
  /\ writer' = Resting /\ saving' = "no" /\ error' = FALSE

\* The exclusive gate waits for the callers, stopWriter for the writer.
close ==
  /\ status = "open" /\ saving = "no"
  /\ \A c \in Clients : want[c] = Absent
  /\ Stopped
  /\ UNCHANGED <<snap, wal>>

\* The process dies, in the middle of an append perhaps.  Nothing that was written
\* is lost.
crash ==
  /\ status = "open"
  /\ Stopped
  /\ wal' \in {wal} \cup (IF writer.at = "append" THEN {Append(wal, Torn)} ELSE {})
  /\ UNCHANGED snap

FirstTorn == CHOOSE i \in DOMAIN wal : wal[i] = Torn /\ \A j \in 1..(i - 1) : wal[j] # Torn

\* The records that replay reads before it meets a torn one.
Whole == IF Torn \in Range(wal) THEN SubSeq(wal, 1, FirstTorn - 1) ELSE wal

Replayed == Replay(snap, Whole)

\* Wal::replay reads past the end of the file only in a torn last record.
Readable ==
  /\ Torn \in Range(wal) => FirstTorn = Len(wal)
  /\ \A i \in DOMAIN Whole : Applicable(Whole[i])

\* Mutant: the torn record is skipped and stays in the file.
OpenKeepsTorn ==
  /\ status # "open" /\ Readable
  /\ status' = "open" /\ table' = Replayed
  /\ UNCHANGED <<snap, wal, queue, want, writer, error, saving>>

\* Load the snapshot, replay the WAL, cut off a torn last record.  A torn record
\* that others follow is completed by their bytes: its checksum is wrong and open
\* fails, or its length reaches past the end and all from there on is cut off.
open ==
  /\ status # "open"
  /\ \/ Readable /\ status' = "open" /\ table' = Replayed /\ wal' = Whole
     \/ ~Readable /\ status' = "refused" /\ UNCHANGED <<table, wal>>
     \/ /\ Torn \in Range(wal) /\ FirstTorn < Len(wal)
        /\ \A i \in DOMAIN Whole : Applicable(Whole[i])
        /\ status' = "open" /\ table' = Replayed /\ wal' = Whole
  /\ UNCHANGED <<snap, queue, want, writer, error, saving>>

-----------------------------------------------------------------------------
Init ==
  /\ status = "closed" /\ table = Empty /\ snap = Empty /\ wal = <<>>
  /\ queue = <<>> /\ want = [c \in Clients |-> Absent] /\ writer = Resting
  /\ error = FALSE /\ saving = "no"

runWriter == takeGroup \/ append \/ sync \/ apply \/ answer

Next ==
  \/ \E c \in Clients, m \in Writes : submit(c, m)
  \/ runWriter \/ snapshot \/ save \/ truncate
  \/ close \/ crash \/ open

Spec == Init /\ [][Next]_vars

\* The writer thread runs as long as the engine is open, and a snapshot that has
\* begun goes on.
FairSpec == Spec /\ WF_vars(runWriter) /\ WF_vars(save \/ truncate)

-----------------------------------------------------------------------------
\* Whatever failed before, the WAL can be replayed, so that the process can start
\* again (storage/wal/README.md; ecommerce_api_main.cc:210-219).
AlwaysOpens == Readable

\* Callers that always write a group of keys together find them together, in the
\* table and after a restart (local_kv_engine.h:31-33).
BatchesWhole ==
  (\A m \in Writes : DOMAIN m = Keys /\ \A j, k \in Keys : m[j] = m[k])
    => \A j, k \in Keys : table[j] = table[k] /\ Replayed[j] = Replayed[k]

\* Every caller is answered, unless the process dies.
CallersAnswered == \A c \in Clients : want[c] # Absent ~> want[c] = Absent

\* The engine implements the durable store.  A write is pending until it is
\* applied or has failed; it is recorded when its record is in the WAL.
Unapplied(c) == want[c] # Absent /\ ~(writer.at = "answer" /\ c \in Range(writer.group))

Pending == [c \in Clients |-> IF Unapplied(c) THEN want[c] ELSE Absent]

Recorded == IF writer.at = "answer" THEN <<>> ELSE SubSeq(writer.group, 1, writer.done)

Durable == INSTANCE DurableStore WITH
  up <- status = "open", failed <- error, disk <- Replayed, req <- Pending, log <- Recorded

\* See DurableStore: what InventoryService and FlashSalePipeline assume.
ImplementsDurableStore == Durable!Spec

=============================================================================
