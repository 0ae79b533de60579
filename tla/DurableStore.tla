---------------------------- MODULE DurableStore ----------------------------
(***************************************************************************)
(* What the embedded key-value engine promises to the services above it:   *)
(* the behaviour InventoryService and FlashSalePipeline take for granted.  *)
(*                                                                         *)
(* A write is recorded, then visible and answered with success; or it      *)
(* fails, recorded or not, and no write is taken after a failure.  A       *)
(* restart finds what was recorded.  LocalKVEngine implements this with a  *)
(* queue, a writer thread, a write-ahead log and snapshots.                *)
(***************************************************************************)
EXTENDS KVTable, Functions

CONSTANT Clients

VARIABLES
  up,
  table,    \* what readers see
  disk,     \* what a restart would find
  failed,
  req,      \* per client: the write it waits for
  log       \* the clients whose writes are recorded and not yet visible

storeVars == <<up, table, disk, failed, req, log>>

Init ==
  /\ up = FALSE /\ failed = FALSE
  /\ table = Empty /\ disk = Empty
  /\ req = [c \in Clients |-> Absent] /\ log = <<>>

Write(c, r) ==
  /\ up /\ ~failed /\ req[c] = Absent
  /\ req' = [req EXCEPT ![c] = r]
  /\ UNCHANGED <<up, table, disk, failed, log>>

Record(c) ==
  /\ req[c] # Absent /\ c \notin Range(log)
  /\ disk' = Apply(disk, req[c])
  /\ log' = Append(log, c)
  /\ UNCHANGED <<up, table, failed, req>>

\* All that is recorded becomes visible, in the order of the records.
Commit ==
  /\ log # <<>>
  /\ table' = Replay(table, [i \in DOMAIN log |-> req[log[i]]])
  /\ req' = [c \in Clients |-> IF c \in Range(log) THEN Absent ELSE req[c]]
  /\ log' = <<>>
  /\ UNCHANGED <<up, disk, failed>>

\* Some writes fail, those that are recorded and not visible among them.
Fail ==
  \E S \in (SUBSET {c \in Clients : req[c] # Absent}) \ {{}} :
    /\ Range(log) \subseteq S
    /\ req' = [c \in Clients |-> IF c \in S THEN Absent ELSE req[c]]
    /\ log' = <<>> /\ failed' = TRUE
    /\ UNCHANGED <<up, table, disk>>

\* The records of failed writes are dropped.
Checkpoint ==
  /\ up /\ log = <<>>
  /\ disk' = table
  /\ UNCHANGED <<up, table, failed, req, log>>

Stop ==
  /\ up /\ up' = FALSE
  /\ table' = Empty /\ failed' = FALSE
  /\ req' = [c \in Clients |-> Absent] /\ log' = <<>>
  /\ UNCHANGED disk

Start ==
  /\ ~up /\ up' = TRUE
  /\ table' = disk
  /\ UNCHANGED <<disk, failed, req, log>>

Next ==
  \/ \E c \in Clients : Record(c) \/ \E r \in Mutations : Write(c, r)
  \/ Commit \/ Fail \/ Checkpoint \/ Stop \/ Start

Spec == Init /\ [][Next]_storeVars

=============================================================================
