-------------------------- MODULE InventoryService --------------------------
(***************************************************************************)
(* The local inventory: business/inventory/inventory_service.cc over the   *)
(* embedded key-value engine.                                              *)
(*                                                                         *)
(* Every mutation takes the persistence lock of its SKU, changes the maps  *)
(* in memory, releases the memory locks, writes the stock and the          *)
(* reservation as ONE WAL record and, when the write fails, undoes the     *)
(* change in memory.  Three ledgers are therefore kept apart:              *)
(*   mem     stocks_ and reservations_ of the service;                     *)
(*   data    the engine's table, what the writer thread applied;           *)
(*   logged  what a restart would rebuild from snapshot and WAL.           *)
(* The engine is seen through what it does to a write: append to the WAL,  *)
(* then apply and acknowledge, or fail, before or after the record reached *)
(* the disk; a failure makes every later write fail until a restart.       *)
(*                                                                         *)
(* Calls that only return a status leave the state alone; they are         *)
(* stuttering steps and have no action.  The persistence shards are one    *)
(* lock per SKU: two SKUs of one shard only exclude more interleavings.    *)
(***************************************************************************)
EXTENDS Integers, FiniteSets

CONSTANTS
  Skus, Ops, Threads,
  MaxQty,     \* bound: the largest quantity of one reservation
  Capacity,   \* the quantity each SKU is added with
  Kinds,      \* the transitions callers use on an existing reservation
  Repairs,    \* the snapshots replaceStock is called with
  Absent      \* no entry under this key

Stock == [available: Int, reserved: Int, sold: Int]

States == {"Reserved", "Confirmed", "Released"}

Reservation == [sku: Skus, quantity: 1..MaxQty, state: States]

AllKinds == {"confirm", "release", "rollbackConfirmation", "rollbackRelease"}

\* A transition whose caller has read the SKU of the reservation.
Calls == [kind: AllKinds, op: Ops, sku: Skus]

\* A write in flight: what it stores, and what an undo needs.
Writes == [kind: AllKinds \cup {"addSku", "reserve", "replaceStock"},
           sku: Skus, stock: Stock, oldStock: Stock \cup {Absent},
           op: Ops \cup {Absent}, resv: Reservation \cup {Absent},
           oldResv: Reservation \cup {Absent},
           \* its record's way into the WAL; refused after a failure
           wal: {"pending", "logged", "refused"}]

ASSUME InventoryAssumption ==
  /\ IsFiniteSet(Ops)
  /\ MaxQty \in Nat
  /\ Capacity \in [Skus -> Nat \ {0}]
  /\ Kinds \subseteq AllKinds
  /\ Repairs \subseteq [available: Nat, reserved: Nat, sold: Nat]
  /\ Absent \notin Stock \cup Reservation \cup Ops \cup Calls \cup Writes

VARIABLES
  phase,    \* of the process: down, restoring, up, or failed in restoring
  mem, data, logged,
  failed,   \* writer_error_: sticky until the engine is opened again
  call,     \* per thread: a reservation looked up, its SKU's lock not held yet
  write,    \* per thread: the write in flight, its SKU's lock held
  acked,    \* history: operations whose reserve returned Ok in this process
  sales     \* history: operations whose confirm returned Ok, crashes included

vars == <<phase, mem, data, logged, failed, call, write, acked, sales>>

Ledgers == [stock: [Skus -> Stock \cup {Absent}],
            resv:  [Ops -> Reservation \cup {Absent}]]

EmptyLedger == [stock |-> [s \in Skus |-> Absent], resv |-> [o \in Ops |-> Absent]]

\* persistStockAndReservation: one batch holding both keys.  A write of a stock
\* alone names no operation (o = Absent).
Put(L, s, st, o, r) ==
  [stock |-> [L.stock EXCEPT ![s] = st],
   resv  |-> [p \in Ops |-> IF p = o THEN r ELSE L.resv[p]]]

Moved(st, toAvailable, toReserved, toSold) ==
  [available |-> st.available + toAvailable,
   reserved  |-> st.reserved + toReserved,
   sold      |-> st.sold + toSold]

-----------------------------------------------------------------------------
(* What validateInvariants checks, of any of the three ledgers.            *)

\* The units of SKU s that reservations in state x hold: one pair per unit, so
\* that the cardinality of the set is the sum of the quantities.
Units(L, s, x) ==
  {u \in Ops \X (1..MaxQty) :
     /\ L.resv[u[1]] # Absent
     /\ L.resv[u[1]].sku = s
     /\ L.resv[u[1]].state = x
     /\ u[2] <= L.resv[u[1]].quantity}

\* Lines 392-405: every reservation names a stock, and per SKU the reservations
\* add up to the counters.
TotalsMatch(L) ==
  /\ \A o \in Ops : L.resv[o] # Absent => L.stock[L.resv[o].sku] # Absent
  /\ \A s \in Skus : L.stock[s] # Absent =>
       /\ L.stock[s].reserved = Cardinality(Units(L, s, "Reserved"))
       /\ L.stock[s].sold = Cardinality(Units(L, s, "Confirmed"))

NonNegative(L) ==
  \A s \in Skus : L.stock[s] # Absent =>
    L.stock[s].available >= 0 /\ L.stock[s].reserved >= 0 /\ L.stock[s].sold >= 0

validateInvariants(L) == NonNegative(L) /\ TotalsMatch(L)

-----------------------------------------------------------------------------
Idle(t) == phase = "up" /\ call[t] = Absent /\ write[t] = Absent

\* The persistence lock of a SKU is held from the change in memory to the end
\* of the write.
Free(s) == \A t \in Threads : write[t] # Absent => write[t].sku # s

\* Mutant: the engine forgets its error, and takes the writes after a failure.
BeginAfterError(t, kind, s, st, o, r) ==
  /\ mem' = Put(mem, s, st, o, r)
  /\ write' = [write EXCEPT ![t] =
       [kind |-> kind, sku |-> s, stock |-> st, op |-> o, resv |-> r,
        oldStock |-> mem.stock[s],
        oldResv |-> IF o = Absent THEN Absent ELSE mem.resv[o], wal |-> "pending"]]
  /\ UNCHANGED <<phase, data, logged, failed, acked, sales>>

\* The change in memory, and the hand-over of the write to the engine.  A write
\* submitted after a failure is refused (local_kv_engine.cc submit).
Begin(t, kind, s, st, o, r) ==
  /\ mem' = Put(mem, s, st, o, r)
  /\ write' = [write EXCEPT ![t] =
       [kind |-> kind, sku |-> s, stock |-> st, op |-> o, resv |-> r,
        oldStock |-> mem.stock[s],
        oldResv |-> IF o = Absent THEN Absent ELSE mem.resv[o],
        wal |-> IF failed THEN "refused" ELSE "pending"]]
  /\ UNCHANGED <<phase, data, logged, failed, acked, sales>>

addSku(t, s) ==
  /\ Idle(t) /\ Free(s)
  /\ mem.stock[s] = Absent
  /\ Begin(t, "addSku", s, [available |-> Capacity[s], reserved |-> 0, sold |-> 0],
           Absent, Absent)
  /\ UNCHANGED call

\* Mutant: the units are taken without asking whether they are available.
ReserveUnchecked(t, s, q, o) ==
  /\ Idle(t) /\ Free(s)
  /\ mem.resv[o] = Absent /\ mem.stock[s] # Absent
  /\ Begin(t, "reserve", s, Moved(mem.stock[s], -q, q, 0),
           o, [sku |-> s, quantity |-> q, state |-> "Reserved"])
  /\ UNCHANGED call

\* Mutant: a retry is answered from memory without the persistence lock, while
\* the first attempt's write is still under way.
ReserveUnlocked(t, s, q, o) ==
  /\ Idle(t)
  /\ \/ /\ mem.resv[o] # Absent
        /\ mem.resv[o].sku = s /\ mem.resv[o].quantity = q
        /\ acked' = acked \cup {o}
        /\ UNCHANGED <<phase, mem, data, logged, failed, call, write, sales>>
     \/ /\ Free(s) /\ mem.resv[o] = Absent
        /\ mem.stock[s] # Absent /\ mem.stock[s].available >= q
        /\ Begin(t, "reserve", s, Moved(mem.stock[s], -q, q, 0),
                 o, [sku |-> s, quantity |-> q, state |-> "Reserved"])
        /\ UNCHANGED call

\* A known operation with the same data is acknowledged whatever its state
\* (lines 107-108); a new one takes its units from the available stock.
reserveStock(t, s, q, o) ==
  /\ Idle(t) /\ Free(s)
  /\ \/ /\ mem.resv[o] # Absent
        /\ mem.resv[o].sku = s /\ mem.resv[o].quantity = q
        /\ acked' = acked \cup {o}
        /\ UNCHANGED <<phase, mem, data, logged, failed, call, write, sales>>
     \/ /\ mem.resv[o] = Absent
        /\ mem.stock[s] # Absent
        /\ mem.stock[s].available >= q
        /\ Begin(t, "reserve", s, Moved(mem.stock[s], -q, q, 0),
                 o, [sku |-> s, quantity |-> q, state |-> "Reserved"])
        /\ UNCHANGED call

\* The first step of the four transitions below reads the reservation's SKU
\* under reservations_mutex_ alone, then waits for the SKU's persistence lock.
\* Callers make it only for an operation whose reserve returned Ok: the
\* submission compensates, and the consumer confirms, after the reservation
\* (flash_sale_order_service.cc:42-66, flash_sale_order_consumer.cc:9-30).
lookUp(t, kind, o) ==
  /\ Idle(t)
  /\ o \in acked /\ mem.resv[o] # Absent
  /\ call' = [call EXCEPT ![t] = [kind |-> kind, op |-> o, sku |-> mem.resv[o].sku]]
  /\ sales' = IF kind = "rollbackConfirmation" THEN sales \ {o} ELSE sales
  /\ UNCHANGED <<phase, mem, data, logged, failed, write, acked>>

Quantity(t) == mem.resv[call[t].op].quantity

StockOf(t) == mem.stock[call[t].sku]

\* Under the lock the reservation is read again.  In any state but `from' the
\* call returns without a change: Ok where it is done already, else an error.
Transition(t, kind, from, to, st) ==
  LET o == call[t].op
      r == mem.resv[o]
  IN  /\ phase = "up"
      /\ call[t] # Absent /\ call[t].kind = kind
      /\ Free(call[t].sku)
      /\ call' = [call EXCEPT ![t] = Absent]
      /\ \/ /\ r # Absent /\ StockOf(t) # Absent /\ r.state = from
            /\ Begin(t, kind, call[t].sku, st, o, [r EXCEPT !.state = to])
         \/ /\ ~(r # Absent /\ StockOf(t) # Absent /\ r.state = from)
            /\ sales' = IF kind = "confirm" /\ r # Absent /\ r.state = to
                        THEN sales \cup {o} ELSE sales
            /\ UNCHANGED <<phase, mem, data, logged, failed, write, acked>>

confirmStock(t) ==
  Transition(t, "confirm", "Reserved", "Confirmed",
             Moved(StockOf(t), 0, -Quantity(t), Quantity(t)))

releaseStock(t) ==
  Transition(t, "release", "Reserved", "Released",
             Moved(StockOf(t), Quantity(t), -Quantity(t), 0))

rollbackConfirmation(t) ==
  Transition(t, "rollbackConfirmation", "Confirmed", "Reserved",
             Moved(StockOf(t), 0, Quantity(t), -Quantity(t)))

\* Takes the units back without asking whether they are still available.
rollbackRelease(t) ==
  Transition(t, "rollbackRelease", "Released", "Reserved",
             Moved(StockOf(t), -Quantity(t), Quantity(t), 0))

\* The reconciler's repair of a local stock: no look at the reservations.
replaceStock(t, s, snapshot) ==
  /\ Idle(t) /\ Free(s)
  /\ mem.stock[s] # Absent
  /\ Begin(t, "replaceStock", s, snapshot, Absent, Absent)
  /\ UNCHANGED call

-----------------------------------------------------------------------------
(* The write: Append WAL -> fsync -> Apply -> ACK, or a failure.           *)

\* The writer thread's record is in the WAL, not yet acknowledged.
appendWal(t) ==
  /\ write[t] # Absent /\ write[t].wal = "pending"
  /\ logged' = Put(logged, write[t].sku, write[t].stock, write[t].op, write[t].resv)
  /\ write' = [write EXCEPT ![t].wal = "logged"]
  /\ UNCHANGED <<phase, mem, data, failed, call, acked, sales>>

\* Mutant: a confirmation is acknowledged before its record is in the WAL.
PersistedEarly(t) ==
  /\ write[t] # Absent
  /\ write[t].wal \in IF write[t].kind = "confirm" THEN {"pending", "logged"} ELSE {"logged"}
  /\ data' = Put(data, write[t].sku, write[t].stock, write[t].op, write[t].resv)
  /\ acked' = IF write[t].kind = "reserve" THEN acked \cup {write[t].op} ELSE acked
  /\ sales' = IF write[t].kind = "confirm" THEN sales \cup {write[t].op} ELSE sales
  /\ write' = [write EXCEPT ![t] = Absent]
  /\ UNCHANGED <<phase, mem, logged, failed, call>>

\* fsync returned, the record is applied and the caller gets Ok.
persisted(t) ==
  /\ write[t] # Absent /\ write[t].wal = "logged"
  /\ data' = Put(data, write[t].sku, write[t].stock, write[t].op, write[t].resv)
  /\ acked' = IF write[t].kind = "reserve" THEN acked \cup {write[t].op} ELSE acked
  /\ sales' = IF write[t].kind = "confirm" THEN sales \cup {write[t].op} ELSE sales
  /\ write' = [write EXCEPT ![t] = Absent]
  /\ UNCHANGED <<phase, mem, logged, failed, call>>

\* Mutant: the undo puts the stock back and forgets the reservation.
UndoneStockOnly(w) == Put(mem, w.sku, w.oldStock, Absent, Absent)

\* A failed reserve gives the quantity back and erases its reservation; the
\* other calls put the values back that they read under the lock.
Undone(w) ==
  IF w.kind = "reserve"
  THEN IF mem.stock[w.sku] # Absent /\ mem.resv[w.op] # Absent
       THEN Put(mem, w.sku,
                Moved(mem.stock[w.sku], w.resv.quantity, -w.resv.quantity, 0),
                w.op, Absent)
       ELSE mem
  ELSE Put(mem, w.sku, w.oldStock, w.op, w.oldResv)

\* The append, its fsync or the submission failed.  A record that reached the
\* WAL stays there although its caller is told of a failure.
persistFailed(t) ==
  /\ write[t] # Absent
  /\ mem' = Undone(write[t])
  /\ failed' = TRUE
  /\ write' = [write EXCEPT ![t] = Absent]
  /\ UNCHANGED <<phase, data, logged, call, acked, sales>>

\* The snapshot worker saves the engine's table and empties the WAL.  It holds
\* the engine's gate exclusively: a write that is under way has not been
\* submitted yet, and is refused if the engine has failed by then.
snapshot ==
  /\ phase # "down"
  /\ \A t \in Threads : write[t] # Absent => write[t].wal # "logged"
  /\ logged' = data
  /\ write' = [t \in Threads |-> IF write[t] = Absent THEN Absent
                                 ELSE [write[t] EXCEPT !.wal = IF failed THEN "refused" ELSE @]]
  /\ UNCHANGED <<phase, mem, data, failed, call, acked, sales>>

-----------------------------------------------------------------------------
(* Crash, restart, and the release of reservations without an order.       *)

crash ==
  /\ phase # "down"
  /\ phase' = "down"
  /\ mem' = EmptyLedger /\ data' = EmptyLedger
  /\ failed' = FALSE /\ acked' = {}
  /\ call' = [t \in Threads |-> Absent] /\ write' = [t \in Threads |-> Absent]
  /\ UNCHANGED <<logged, sales>>

\* The engine is opened and the service restored; a ledger that fails
\* validateInvariants ends the process (ecommerce_api_main.cc:252-260).
restore ==
  /\ phase = "down"
  /\ validateInvariants(logged)
  /\ phase' = "restoring"
  /\ data' = logged /\ mem' = logged
  /\ UNCHANGED <<logged, failed, call, write, acked, sales>>

Orphans(active) ==
  {o \in Ops \ active : mem.resv[o] # Absent /\ mem.resv[o].state = "Reserved"}

Released(L, gone) ==
  [stock |-> [s \in Skus |->
     IF L.stock[s] = Absent THEN Absent
     ELSE LET n == Cardinality({u \in Units(L, s, "Reserved") : u[1] \in gone})
          IN  Moved(L.stock[s], n, -n, 0)],
   resv  |-> [o \in Ops |-> IF o \in gone THEN [L.resv[o] EXCEPT !.state = "Released"]
                            ELSE L.resv[o]]]

\* Every reservation that is not an order's is released, in one batch.
releaseOrphanReservations(active) ==
  LET all == Released(mem, Orphans(active))
  IN  /\ phase = "restoring" /\ ~failed
      /\ phase' = "up"
      /\ mem' = all /\ data' = all /\ logged' = all
      /\ UNCHANGED <<failed, call, write, acked, sales>>

\* The batch failed, in the WAL or not.  The stocks are put back in the order
\* they were changed, so that of the reservations of one SKU only the last
\* one's units are taken back.  The process then exits.
releaseOrphansFailed(active) ==
  LET gone == Orphans(active)
  IN  /\ phase = "restoring" /\ ~failed /\ gone # {}
      /\ phase' = "failed" /\ failed' = TRUE
      /\ \E last \in SUBSET gone :
           /\ \A o \in gone :
                Cardinality({l \in last : mem.resv[l].sku = mem.resv[o].sku}) = 1
           /\ mem' = [mem EXCEPT !.stock = Released(mem, gone \ last).stock]
      /\ logged' \in {logged, Released(mem, gone)}
      /\ UNCHANGED <<data, call, write, acked, sales>>

-----------------------------------------------------------------------------
Init ==
  /\ phase = "down"
  /\ mem = EmptyLedger /\ data = EmptyLedger /\ logged = EmptyLedger
  /\ failed = FALSE /\ acked = {} /\ sales = {}
  /\ call = [t \in Threads |-> Absent] /\ write = [t \in Threads |-> Absent]

Call(t) ==
  \/ \E s \in Skus : addSku(t, s)
  \/ \E s \in Skus, q \in 1..MaxQty, o \in Ops : reserveStock(t, s, q, o)
  \/ \E kind \in Kinds, o \in Ops : lookUp(t, kind, o)
  \/ confirmStock(t) \/ releaseStock(t)
  \/ rollbackConfirmation(t) \/ rollbackRelease(t)
  \/ \E s \in Skus, snap \in Repairs : replaceStock(t, s, snap)

Next ==
  \/ \E t \in Threads : Call(t) \/ appendWal(t) \/ persisted(t) \/ persistFailed(t)
  \/ snapshot \/ crash \/ restore
  \/ \E active \in SUBSET Ops :
       releaseOrphanReservations(active) \/ releaseOrphansFailed(active)

Spec == Init /\ [][Next]_vars

-----------------------------------------------------------------------------
TypeOK ==
  /\ phase \in {"down", "restoring", "up", "failed"}
  /\ mem \in Ledgers /\ data \in Ledgers /\ logged \in Ledgers
  /\ failed \in BOOLEAN
  /\ call \in [Threads -> Calls \cup {Absent}]
  /\ write \in [Threads -> Writes \cup {Absent}]
  /\ acked \subseteq Ops /\ sales \subseteq Ops

\* No unit is created or lost: what a SKU was added with is available, reserved
\* or sold.
Conserved(L) ==
  \A s \in Skus : L.stock[s] # Absent =>
    L.stock[s].available + L.stock[s].reserved + L.stock[s].sold = Capacity[s]

\* Two ledgers say the same of a SKU: its stock and its reservations.
AgreeOn(K, L, s) ==
  /\ K.stock[s] = L.stock[s]
  /\ \A o \in Ops : \/ K.resv[o] # Absent /\ K.resv[o].sku = s
                    \/ L.resv[o] # Absent /\ L.resv[o].sku = s
                    => K.resv[o] = L.resv[o]

\* In every state of a running service, in the middle of a write included, the
\* counters in memory are the sums of the reservations, no unit is created or
\* lost, and no more is sold than there is (validateInvariants, lines 378-407;
\* business/inventory/README.md: "available >= 0").
LedgerValid == phase # "failed" => validateInvariants(mem) /\ Conserved(mem)

\* Whatever write was under way or had failed when the process died, the ledger
\* that snapshot and WAL give back passes validateInvariants, so that main never
\* refuses to start again (ecommerce_api_main.cc:257-260).
RecoverableLedger == validateInvariants(logged) /\ Conserved(logged)

\* When no call holds the SKU's lock, memory and the engine's table say the same
\* of the SKU: every failed write has been undone completely.
MemoryMatchesStore ==
  phase = "up" => \A s \in Skus : Free(s) => AgreeOn(mem, data, s)

\* A reservation whose caller was told Ok is never forgotten or altered: memory,
\* the engine's table and what a restart would rebuild all hold it.
AckedReservationKept ==
  \A o \in acked :
    /\ mem.resv[o] # Absent /\ data.resv[o] # Absent /\ logged.resv[o] # Absent
    /\ \A L \in {data, logged} : /\ L.resv[o].sku = mem.resv[o].sku
                                /\ L.resv[o].quantity = mem.resv[o].quantity

\* A sale whose confirmation was answered Ok survives every crash and every
\* failed write, unless its roll back was asked for.
SaleSurvives ==
  \A o \in sales : logged.resv[o] # Absent /\ logged.resv[o].state = "Confirmed"

=============================================================================
