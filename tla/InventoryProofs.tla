-------------------------- MODULE InventoryProofs --------------------------
(***************************************************************************)
(* What the local inventory promises, for every finite set of operations,  *)
(* every set of SKUs and threads and every quantity: failed writes are     *)
(* undone, acknowledged reservations and sales are kept, and no unit of    *)
(* stock is created, lost or sold twice, in memory, in the engine's table  *)
(* and in what a restart rebuilds.                                         *)
(*                                                                         *)
(* The promises about a ledger (counters equal sums) are not inductive: an *)
(* undo puts a remembered value back, and a restart takes over what the    *)
(* WAL holds. SyncInv relates memory, table and WAL to each other and to   *)
(* the writes in flight; with it, a step changes each ledger at one SKU,   *)
(* to the value another ledger has there already.                          *)
(*                                                                         *)
(* The sum of the quantities of a SKU's reservations in one state is the   *)
(* cardinality of Units. A transition moves one block of units, those of   *)
(* its reservation, from one such set to another. UnitCounting says what   *)
(* the steps need to know of cardinalities.                                *)
(***************************************************************************)
EXTENDS InventoryService, TLAPS

Running == phase \in {"restoring", "up"}

OpFree(o) == \A t \in Threads : write[t] # Absent => write[t].op # o

\* Reservation o of ledger L is of SKU s.
InSku(L, o, s) == L.resv[o] # Absent /\ L.resv[o].sku = s

\* Two reservations hold the same units, in whatever state.
SameHold(r, q) == r # Absent /\ r.sku = q.sku /\ r.quantity = q.quantity

\* Only a running service has calls, for reservations it acknowledged.
CallOK(t) ==
  call[t] # Absent =>
    /\ phase = "up" /\ write[t] = Absent
    /\ call[t].kind \in Kinds
    /\ call[t].op \in acked
    /\ mem.resv[call[t].op].sku = call[t].sku

\* What a write changes is already in memory and not yet in the table.
WriteShape(w) ==
  /\ w.kind \in Kinds \cup {"addSku", "reserve", "replaceStock"}
  /\ w.kind \in {"addSku", "replaceStock"} \/ w.op # Absent
  /\ w.kind = "confirm" => w.resv.state = "Confirmed"
  /\ w.op # Absent /\ w.oldResv # Absent /\ w.oldResv.state = "Confirmed"
       => w.kind = "rollbackConfirmation"
  /\ w.op # Absent => /\ w.resv # Absent /\ w.resv.sku = w.sku
                      /\ w.oldResv # Absent => SameHold(w.resv, w.oldResv)
  /\ w.kind = "reserve" => /\ w.op # Absent /\ w.oldResv = Absent
                           /\ w.oldStock # Absent
                           /\ w.stock = Moved(w.oldStock, -w.resv.quantity,
                                              w.resv.quantity, 0)

WriteSync(w) ==
  /\ mem.stock[w.sku] = w.stock /\ data.stock[w.sku] = w.oldStock
  /\ w.op # Absent => /\ mem.resv[w.op] = w.resv
                      /\ data.resv[w.op] = w.oldResv

\* What the WAL holds of a write that it can still acknowledge.
WriteLogged(w) ==
  /\ failed \/ w.wal # "refused"
  /\ w.wal = "logged" => /\ logged.stock[w.sku] = w.stock
                         /\ w.op # Absent => logged.resv[w.op] = w.resv
  /\ w.wal = "pending" => /\ logged.stock[w.sku] = w.oldStock
                          /\ w.op # Absent => logged.resv[w.op] = w.oldResv
  /\ w.wal # "refused" =>
       \A o \in Ops \ {w.op} : InSku(logged, o, w.sku) \/ InSku(data, o, w.sku)
                              => logged.resv[o] = data.resv[o]

WriteOK(t) ==
  write[t] # Absent =>
    phase = "up" /\ WriteShape(write[t]) /\ WriteSync(write[t]) /\ WriteLogged(write[t])

\* The persistence lock: two writes are of different SKUs.
Locks ==
  \A t, u \in Threads :
    write[t] # Absent /\ write[u] # Absent /\ t # u => write[t].sku # write[u].sku

MemSync ==
  Running => /\ \A s \in Skus : Free(s) => mem.stock[s] = data.stock[s]
             /\ \A o \in Ops : OpFree(o) => mem.resv[o] = data.resv[o]

LogSync ==
  Running /\ ~failed =>
    /\ \A s \in Skus : Free(s) => logged.stock[s] = data.stock[s]
    /\ \A o \in Ops : OpFree(o) => logged.resv[o] = data.resv[o]

\* A restart forgets no reservation of the table.
LogKeeps == \A o \in Ops : data.resv[o] # Absent => SameHold(logged.resv[o], data.resv[o])

AckedOK ==
  \A o \in acked : /\ phase = "up"
                   /\ data.resv[o] # Absent
                   /\ SameHold(mem.resv[o], data.resv[o])

SyncInv ==
  /\ TypeOK
  /\ phase = "down" => ~failed
  /\ \A t \in Threads : CallOK(t)
  /\ \A t \in Threads : WriteOK(t)
  /\ Locks /\ MemSync /\ LogSync /\ LogKeeps /\ AckedOK

-----------------------------------------------------------------------------
(* What a batch does to a ledger.                                          *)

\* persistStockAndReservation changes one SKU's stock and one reservation.
LEMMA PutFacts ==
  ASSUME NEW L \in Ledgers, NEW s \in Skus, NEW st \in Stock \cup {Absent},
         NEW o \in Ops \cup {Absent}, NEW r \in Reservation \cup {Absent}
  PROVE  /\ Put(L, s, st, o, r) \in Ledgers
         /\ Put(L, s, st, o, r).stock[s] = st
         /\ \A p \in Skus : p # s => Put(L, s, st, o, r).stock[p] = L.stock[p]
         /\ o # Absent => Put(L, s, st, o, r).resv[o] = r
         /\ \A p \in Ops : p # o => Put(L, s, st, o, r).resv[p] = L.resv[p]
  BY InventoryAssumption, Zenon DEF Put, Ledgers

\* Moving units between the counters of a stock gives a stock.
LEMMA MovedType ==
  ASSUME NEW st \in Stock, NEW a \in Int, NEW b \in Int, NEW c \in Int
  PROVE  Moved(st, a, b, c) \in Stock
  BY DEF Moved, Stock

\* Giving the units of a failed reserve back restores the stock.
LEMMA MovedBack ==
  ASSUME NEW st \in Stock, NEW q \in Int
  PROVE  Moved(Moved(st, -q, q, 0), q, -q, 0) = st
  BY DEF Moved, Stock

-----------------------------------------------------------------------------
(* The inductive invariant, action by action.                              *)

\* The empty store is in step.
LEMMA InitSync == Init => SyncInv
<1> SUFFICES ASSUME Init PROVE SyncInv
  BY Zenon
<1>1. EmptyLedger \in Ledgers
  BY Zenon DEF EmptyLedger, Ledgers
<1>2. TypeOK
  BY <1>1, Zenon DEF Init, TypeOK
<1>3. /\ phase = "down" => ~failed
      /\ \A t \in Threads : CallOK(t) /\ WriteOK(t)
      /\ Locks /\ MemSync /\ LogSync /\ AckedOK
  BY Zenon DEF Init, CallOK, WriteOK, Locks, MemSync, LogSync, AckedOK, Running
<1>4. LogKeeps
  BY Zenon DEF Init, LogKeeps, EmptyLedger
<1> QED
  BY <1>2, <1>3, <1>4, Zenon DEF SyncInv

\* The reservation of a write in flight is of the write's SKU, in every ledger
\* that the write concerns.
LEMMA BusySku ==
  ASSUME SyncInv, NEW t \in Threads, write[t] # Absent, write[t].op # Absent
  PROVE  /\ write[t] \in Writes /\ write[t].op \in Ops /\ write[t].sku \in Skus
         /\ InSku(mem, write[t].op, write[t].sku)
         /\ data.resv[write[t].op] # Absent => InSku(data, write[t].op, write[t].sku)
         /\ write[t].wal # "refused" /\ logged.resv[write[t].op] # Absent
              => InSku(logged, write[t].op, write[t].sku)
<1>1. /\ write[t] \in Writes /\ write[t].op \in Ops /\ write[t].sku \in Skus
      /\ write[t].wal \in {"pending", "logged", "refused"}
  BY Zenon DEF SyncInv, TypeOK, Writes
<1>2. WriteShape(write[t]) /\ WriteSync(write[t]) /\ WriteLogged(write[t])
  BY Zenon DEF SyncInv, WriteOK
<1>3. /\ InSku(mem, write[t].op, write[t].sku)
      /\ data.resv[write[t].op] # Absent => InSku(data, write[t].op, write[t].sku)
  BY <1>1, <1>2, Zenon DEF WriteShape, WriteSync, InSku, SameHold
<1>4. write[t].wal # "refused" /\ logged.resv[write[t].op] # Absent
        => InSku(logged, write[t].op, write[t].sku)
  BY <1>1, <1>2, Zenon DEF WriteShape, WriteLogged, InSku, SameHold
<1> QED
  BY <1>1, <1>3, <1>4, Zenon

\* What a call has established when it changes memory.
BeginPre(t, kind, s, st, o, r) ==
  /\ phase = "up" /\ write[t] = Absent /\ Free(s)
  /\ st \in Stock /\ r \in Reservation \cup {Absent}
  /\ kind \in Kinds \cup {"addSku", "reserve", "replaceStock"}
  /\ kind \in {"addSku", "replaceStock"} \/ o # Absent
  /\ kind = "confirm" => r.state = "Confirmed"
  /\ o # Absent /\ mem.resv[o] # Absent /\ mem.resv[o].state = "Confirmed"
       => kind = "rollbackConfirmation"
  /\ o # Absent => /\ r # Absent /\ r.sku = s /\ OpFree(o)
                   /\ mem.resv[o] # Absent => SameHold(r, mem.resv[o])
  /\ kind = "reserve" => /\ o # Absent /\ mem.resv[o] = Absent
                         /\ mem.stock[s] # Absent
                         /\ st = Moved(mem.stock[s], -r.quantity, r.quantity, 0)

\* Its call ends, and no other call changes.
CallsEnd(t) ==
  /\ call'[t] = Absent
  /\ call' \in [Threads -> Calls \cup {Absent}]
  /\ \A u \in Threads : call'[u] # Absent => call'[u] = call[u]
  /\ sales' \subseteq Ops

\* A call that changes memory and hands its write to the engine.
LEMMA BeginSync ==
  ASSUME SyncInv, NEW t \in Threads, NEW s \in Skus, NEW st, NEW o \in Ops \cup {Absent}, NEW r,
         NEW kind \in AllKinds \cup {"addSku", "reserve", "replaceStock"},
         BeginPre(t, kind, s, st, o, r),
         Begin(t, kind, s, st, o, r), CallsEnd(t)
  PROVE  SyncInv'
<1>1. /\ mem \in Ledgers
      /\ st \in Stock \cup {Absent}
      /\ r \in Reservation \cup {Absent}
  BY Zenon DEF SyncInv, TypeOK, BeginPre
<1>2. mem' = Put(mem, s, st, o, r)
  BY Zenon DEF Begin
<1>3. /\ mem' \in Ledgers /\ mem'.stock[s] = st
      /\ \A p \in Skus : p # s => mem'.stock[p] = mem.stock[p]
      /\ o # Absent => mem'.resv[o] = r
      /\ \A p \in Ops : p # o => mem'.resv[p] = mem.resv[p]
  BY <1>1, <1>2, PutFacts
<1> DEFINE w == [kind |-> kind, sku |-> s, stock |-> st, op |-> o, resv |-> r,
                 oldStock |-> mem.stock[s],
                 oldResv |-> IF o = Absent THEN Absent ELSE mem.resv[o],
                 wal |-> IF failed THEN "refused" ELSE "pending"]
<1>4. w \in Writes
  <2>1. mem.stock[s] \in Stock \cup {Absent} /\ (o # Absent => mem.resv[o] \in Reservation \cup {Absent})
    BY <1>1, Zenon DEF Ledgers
  <2>2. st \in Stock /\ r \in Reservation \cup {Absent}
    BY Zenon DEF BeginPre
  <2> QED
    BY <2>1, <2>2, Zenon DEF Writes
<1>5. write' = [write EXCEPT ![t] = w]
  BY Zenon DEF Begin
<1> HIDE DEF w
<1>6. /\ write'[t] = w /\ w # Absent
      /\ write' \in [Threads -> Writes \cup {Absent}]
      /\ \A u \in Threads : u # t => write'[u] = write[u]
  BY <1>4, <1>5, InventoryAssumption, Zenon DEF SyncInv, TypeOK
<1>7. TypeOK'
  BY <1>3, <1>6, Zenon DEF SyncInv, TypeOK, Begin, CallsEnd
<1>8. \A u \in Threads : CallOK(u)'
  <2> SUFFICES ASSUME NEW u \in Threads, call'[u] # Absent PROVE CallOK(u)'
    BY Zenon DEF CallOK
  <2>1. call'[u] = call[u] /\ CallOK(u) /\ phase' = phase /\ acked' = acked /\ u # t
    BY Zenon DEF CallsEnd, SyncInv, Begin
  <2>2. call[u].op \in acked /\ call[u].op \in Ops
    BY <2>1, Zenon DEF CallOK, SyncInv, TypeOK
  <2>3. mem.resv[call[u].op] # Absent
    BY <2>2, Zenon DEF SyncInv, AckedOK, SameHold
  <2>4. mem'.resv[call[u].op].sku = mem.resv[call[u].op].sku
    BY <1>3, <2>2, <2>3, InventoryAssumption, Zenon DEF BeginPre, SameHold
  <2> QED
    BY <1>6, <2>1, <2>4, Zenon DEF CallOK
<1>9. WriteOK(t)'
  <2>1. Running /\ data' = data /\ logged' = logged /\ failed' = failed /\ phase' = "up"
    BY Zenon DEF BeginPre, Begin, Running
  <2>2. data.stock[s] = mem.stock[s] /\ (o # Absent => data.resv[o] = mem.resv[o])
    BY <2>1, Zenon DEF SyncInv, MemSync, BeginPre
  <2>0. /\ write'[t].kind = kind /\ write'[t].sku = s /\ write'[t].stock = st
        /\ write'[t].op = o /\ write'[t].resv = r /\ write'[t].oldStock = mem.stock[s]
        /\ o # Absent => write'[t].oldResv = mem.resv[o]
        /\ write'[t].wal = IF failed THEN "refused" ELSE "pending"
    BY <1>6 DEF w
  <2>3. WriteShape(write[t])'
    BY <2>0, Zenon DEF WriteShape, BeginPre
  <2>4. WriteSync(write[t])'
    BY <1>3, <2>0, <2>1, <2>2, Zenon DEF WriteSync
  <2>5. ASSUME ~failed
        PROVE  /\ logged.stock[s] = data.stock[s] /\ (o # Absent => logged.resv[o] = data.resv[o])
               /\ \A p \in Ops : InSku(logged, p, s) \/ InSku(data, p, s)
                                 => logged.resv[p] = data.resv[p]
    <3>1. logged.stock[s] = data.stock[s] /\ (o # Absent => logged.resv[o] = data.resv[o])
      BY <2>1, <2>5, Zenon DEF SyncInv, LogSync, BeginPre
    <3>2. ASSUME NEW p \in Ops, InSku(logged, p, s) \/ InSku(data, p, s)
          PROVE  OpFree(p)
      <4> SUFFICES ASSUME NEW u \in Threads, write[u] # Absent, write[u].op = p
                   PROVE  FALSE
        BY Zenon DEF OpFree
      <4>1. write[u].op # Absent
        BY InventoryAssumption, Zenon
      <4>2. write[u].wal # "refused"
        BY <2>5, Zenon DEF SyncInv, WriteOK, WriteLogged
      <4>3. write[u].sku = s
        BY <3>2, <4>1, <4>2, BusySku, Zenon DEF InSku
      <4> QED
        BY <4>3, Zenon DEF BeginPre, Free
    <3> QED
      BY <3>1, <3>2, <2>1, <2>5, Zenon DEF SyncInv, LogSync
  <2>6. WriteLogged(write[t])'
    <3>1. CASE failed
      BY <3>1, <2>0, <2>1, Zenon DEF WriteLogged
    <3>2. CASE ~failed
      BY <3>2, <2>0, <2>1, <2>2, <2>5, Zenon DEF WriteLogged, InSku
    <3> QED
      BY <3>1, <3>2, Zenon
  <2> QED
    BY <1>6, <2>1, <2>3, <2>4, <2>6, Zenon DEF WriteOK
<1>10. ASSUME NEW u \in Threads, u # t, write'[u] # Absent
       PROVE  WriteOK(u)'
  <2>1. write'[u] = write[u] /\ write[u] # Absent /\ WriteOK(u)
    BY <1>6, <1>10, Zenon DEF SyncInv
  <2>2. write[u].sku # s /\ write[u].sku \in Skus /\ write[u].op \in Ops \cup {Absent}
    BY <2>1, Zenon DEF BeginPre, Free, SyncInv, TypeOK, Writes
  <2>3. write[u].op # Absent => write[u].op # o
    BY <2>1, Zenon DEF BeginPre, OpFree
  <2>4. WriteSync(write[u])'
    BY <1>3, <2>1, <2>2, <2>3, SMTT(30) DEF WriteOK, WriteSync, Begin
  <2>5. WriteLogged(write[u])'
    BY <2>1 DEF WriteOK, WriteLogged, Begin, InSku
  <2> QED
    BY <2>1, <2>4, <2>5, Zenon DEF WriteOK, Begin, WriteShape
<1>11. Locks'
  BY <1>6 DEF SyncInv, Locks, BeginPre, Free, w
<1>12. /\ \A p \in Skus : Free(p)' => Free(p) /\ p # s
       /\ \A p \in Ops : OpFree(p)' => OpFree(p) /\ p # o
  BY <1>6 DEF Free, OpFree, w, BeginPre
<1>13. MemSync' /\ LogSync'
  BY <1>3, <1>12, SMTT(30) DEF SyncInv, MemSync, LogSync, Running, Begin
<1>14. LogKeeps'
  BY SMTT(30) DEF SyncInv, LogKeeps, Begin
<1>15. AckedOK'
  BY <1>3, InventoryAssumption DEF SyncInv, TypeOK, AckedOK, Begin, BeginPre, SameHold
<1> QED
  BY <1>7, <1>8, <1>9, <1>10, <1>11, <1>13, <1>14, <1>15, Zenon DEF SyncInv, Begin, BeginPre, WriteOK

\* A reservation of a SKU whose lock is free has no write in flight.
LEMMA FreeOp ==
  ASSUME SyncInv, NEW s \in Skus, Free(s), NEW o \in Ops,
         InSku(mem, o, s) \/ InSku(data, o, s)
  PROVE  OpFree(o)
<1> SUFFICES ASSUME NEW u \in Threads, write[u] # Absent, write[u].op = o
             PROVE  FALSE
  BY Zenon DEF OpFree
<1>1. write[u].op # Absent
  BY InventoryAssumption, Zenon
<1>2. write[u].sku = s
  BY <1>1, BusySku, Zenon DEF InSku
<1> QED
  BY <1>2, Zenon DEF Free

\* A step that leaves the ledgers and the writes alone.
LEMMA FrameSync ==
  ASSUME SyncInv, UNCHANGED <<phase, mem, data, logged, failed, write>>,
         TypeOK', \A t \in Threads : CallOK(t)', AckedOK'
  PROVE  SyncInv'
<1>1. ASSUME NEW t \in Threads PROVE WriteOK(t)'
  <2>1. WriteOK(t)
    BY Zenon DEF SyncInv
  <2>2. WriteShape(write[t])' <=> WriteShape(write[t])
    BY Zenon DEF WriteShape
  <2>3. WriteSync(write[t])' <=> WriteSync(write[t])
    BY Zenon DEF WriteSync
  <2>4. WriteLogged(write[t])' <=> WriteLogged(write[t])
    BY Zenon DEF WriteLogged, InSku
  <2> QED
    BY <2>1, <2>2, <2>3, <2>4, Zenon DEF WriteOK
<1>2. Locks' /\ MemSync' /\ LogSync' /\ LogKeeps'
  BY Zenon DEF SyncInv, Locks, MemSync, LogSync, LogKeeps, Running, Free, OpFree
<1> QED
  BY <1>1, <1>2, Zenon DEF SyncInv

\* reserveStock, of a known operation and of a new one.
LEMMA ReserveSync ==
  ASSUME SyncInv, NEW t \in Threads, NEW s \in Skus, NEW q \in 1..MaxQty, NEW o \in Ops,
         reserveStock(t, s, q, o)
  PROVE  SyncInv'
<1> DEFINE r == [sku |-> s, quantity |-> q, state |-> "Reserved"]
<1>0. phase = "up" /\ write[t] = Absent /\ call[t] = Absent /\ Free(s)
  BY Zenon DEF reserveStock, Idle
<1>1. CASE /\ mem.resv[o] # Absent /\ mem.resv[o].sku = s
           /\ acked' = acked \cup {o}
           /\ UNCHANGED <<phase, mem, data, logged, failed, call, write, sales>>
  <2>1. OpFree(o)
    BY <1>0, <1>1, FreeOp, Zenon DEF InSku
  <2>2. data.resv[o] = mem.resv[o]
    BY <1>0, <2>1, Zenon DEF SyncInv, MemSync, Running
  <2>3. AckedOK'
    BY <1>0, <1>1, <2>2, Zenon DEF SyncInv, AckedOK, SameHold
  <2>4. TypeOK'
    BY <1>1, Zenon DEF SyncInv, TypeOK
  <2>5. \A u \in Threads : CallOK(u)'
    BY <1>1, Zenon DEF SyncInv, CallOK
  <2> QED
    BY <1>1, <2>3, <2>4, <2>5, FrameSync, Zenon
<1>2. CASE /\ mem.resv[o] = Absent /\ mem.stock[s] # Absent
           /\ Begin(t, "reserve", s, Moved(mem.stock[s], -q, q, 0), o, r)
           /\ UNCHANGED call
  <2>1. OpFree(o)
    <3> SUFFICES ASSUME NEW u \in Threads, write[u] # Absent, write[u].op = o PROVE FALSE
      BY Zenon DEF OpFree
    <3> QED
      BY <1>2, BusySku, InventoryAssumption, Zenon DEF InSku
  <2>2. mem.stock[s] \in Stock /\ q \in Int /\ -q \in Int
    BY <1>2, InventoryAssumption DEF SyncInv, TypeOK, Ledgers
  <2> DEFINE st == Moved(mem.stock[s], -q, q, 0)
  <2>3. st \in Stock
    BY <2>2, MovedType
  <2>4. r \in Reservation /\ r.sku = s /\ r.quantity = q
    BY Zenon DEF Reservation, States
  <2>5. r # Absent
    BY <2>4, InventoryAssumption, Zenon
  <2> HIDE DEF r
  <2>6. st = Moved(mem.stock[s], -r.quantity, r.quantity, 0)
    BY <2>4, SMTT(30)
  <2>7. CallsEnd(t) /\ Begin(t, "reserve", s, st, o, r)
    BY <1>0, <1>2, SMTT(30) DEF CallsEnd, SyncInv, TypeOK, Begin
  <2> HIDE DEF st
  <2>8. BeginPre(t, "reserve", s, st, o, r)
    BY <1>0, <1>2, <2>1, <2>3, <2>4, <2>5, <2>6, InventoryAssumption, Zenon DEF BeginPre
  <2> QED
    BY <2>7, <2>8, BeginSync, Zenon
<1> QED
  BY <1>1, <1>2, Zenon DEF reserveStock

\* addSku.
LEMMA AddSkuSync ==
  ASSUME SyncInv, NEW t \in Threads, NEW s \in Skus, addSku(t, s)
  PROVE  SyncInv'
<1> DEFINE st == [available |-> Capacity[s], reserved |-> 0, sold |-> 0]
<1>1. st \in Stock
  BY InventoryAssumption DEF Stock
<1>2. Begin(t, "addSku", s, st, Absent, Absent)
  BY Zenon DEF addSku
<1> HIDE DEF st
<1>3. BeginPre(t, "addSku", s, st, Absent, Absent)
  BY <1>1, Zenon DEF BeginPre, addSku, Idle
<1>4. CallsEnd(t)
  BY Zenon DEF CallsEnd, SyncInv, TypeOK, Begin, addSku, Idle
<1> QED
  BY <1>2, <1>3, <1>4, BeginSync, Zenon

\* replaceStock: the counters may become anything, the ledgers stay in step.
LEMMA ReplaceSync ==
  ASSUME SyncInv, NEW t \in Threads, NEW s \in Skus, NEW st \in Repairs,
         replaceStock(t, s, st)
  PROVE  SyncInv'
<1>1. st \in Stock
  BY InventoryAssumption DEF Stock
<1>2. Begin(t, "replaceStock", s, st, Absent, Absent)
  BY Zenon DEF replaceStock
<1>3. BeginPre(t, "replaceStock", s, st, Absent, Absent)
  BY <1>1, Zenon DEF BeginPre, replaceStock, Idle
<1>4. CallsEnd(t)
  BY Zenon DEF CallsEnd, SyncInv, TypeOK, Begin, replaceStock, Idle
<1> QED
  BY <1>2, <1>3, <1>4, BeginSync, Zenon

\* The unlocked read of a reservation's SKU.
LEMMA LookUpSync ==
  ASSUME SyncInv, NEW t \in Threads, NEW kind \in Kinds, NEW o \in Ops, lookUp(t, kind, o)
  PROVE  SyncInv'
<1> DEFINE c == [kind |-> kind, op |-> o, sku |-> mem.resv[o].sku]
<1>1. mem.resv[o] \in Reservation
  BY Zenon DEF SyncInv, TypeOK, Ledgers, lookUp
<1>2. c \in Calls
  BY <1>1, InventoryAssumption, Zenon DEF Calls, Reservation
<1>3. call' = [call EXCEPT ![t] = c] /\ UNCHANGED <<phase, mem, data, logged, failed, write, acked>>
  BY Zenon DEF lookUp
<1>4. sales' \subseteq Ops
  BY Zenon DEF lookUp, SyncInv, TypeOK
<1>5. c.kind = kind /\ c.op = o /\ c.sku = mem.resv[o].sku
  BY Zenon
<1> HIDE DEF c
<1>6. TypeOK'
  BY <1>2, <1>3, <1>4, Zenon DEF SyncInv, TypeOK
<1>7. \A u \in Threads : CallOK(u)'
  BY <1>3, <1>5 DEF SyncInv, TypeOK, CallOK, lookUp, Idle
<1>8. AckedOK'
  BY <1>3, Zenon DEF SyncInv, AckedOK
<1> QED
  BY <1>3, <1>6, <1>7, <1>8, FrameSync, Zenon

\* The four transitions of an existing reservation.
LEMMA TransitionSync ==
  ASSUME SyncInv, NEW t \in Threads, NEW kind \in AllKinds, NEW from \in States, NEW to \in States,
         NEW st, call[t] # Absent /\ StockOf(t) # Absent => st \in Stock,
         kind = "confirm" => to = "Confirmed",
         from = "Confirmed" => kind = "rollbackConfirmation",
         Transition(t, kind, from, to, st)
  PROVE  SyncInv'
<1> DEFINE o == call[t].op
           s == call[t].sku
           r == [mem.resv[o] EXCEPT !.state = to]
<1>1. /\ phase = "up" /\ call[t] # Absent /\ Free(s)
      /\ call' = [call EXCEPT ![t] = Absent]
  BY Zenon DEF Transition
<1>2. o \in Ops /\ s \in Skus /\ call[t] \in Calls
  BY <1>1, Zenon DEF SyncInv, TypeOK, Calls
<1>3. o \in acked /\ mem.resv[o].sku = s
  BY <1>1, Zenon DEF SyncInv, CallOK
<1>4. mem.resv[o] # Absent /\ mem.resv[o] \in Reservation
  BY <1>2, <1>3, Zenon DEF SyncInv, AckedOK, SameHold, TypeOK, Ledgers
<1>5. call' \in [Threads -> Calls \cup {Absent}]
      /\ \A u \in Threads : call'[u] # Absent => call'[u] = call[u]
  BY <1>1, Zenon DEF SyncInv, TypeOK
<1>6. CASE StockOf(t) # Absent /\ mem.resv[o].state = from /\ Begin(t, kind, s, st, o, r)
  <2>1. r \in Reservation /\ r.sku = s /\ r.quantity = mem.resv[o].quantity /\ r.state = to
    BY <1>3, <1>4, Zenon DEF Reservation
  <2>2. r # Absent
    BY <2>1, InventoryAssumption, Zenon
  <2>3. OpFree(o)
    BY <1>1, <1>2, <1>3, <1>4, FreeOp, Zenon DEF InSku
  <2>4. st \in Stock
    BY <1>1, <1>6, Zenon
  <2>5. write[t] = Absent
    BY <1>1, Zenon DEF SyncInv, CallOK
  <2>6. kind \notin {"reserve", "addSku", "replaceStock"} /\ o # Absent /\ kind \in Kinds
    BY <1>1, <1>2, InventoryAssumption, Zenon DEF AllKinds, SyncInv, CallOK, Transition
  <2>7. CallsEnd(t)
    BY <1>1, <1>5, <1>6, SMTT(30) DEF CallsEnd, Begin, SyncInv, TypeOK
  <2> HIDE DEF o, s, r
  <2>8. BeginPre(t, kind, s, st, o, r)
    BY <1>1, <1>3, <1>6, <2>1, <2>2, <2>3, <2>4, <2>5, <2>6, Zenon DEF BeginPre, SameHold
  <2> QED
    BY <1>2, <1>6, <2>7, <2>8, BeginSync, Zenon
<1>7. CASE UNCHANGED <<phase, mem, data, logged, failed, write, acked>> /\ sales' \subseteq Ops
  <2>1. TypeOK'
    BY <1>5, <1>7, Zenon DEF SyncInv, TypeOK
  <2>2. \A u \in Threads : CallOK(u)'
    BY <1>5, <1>7, Zenon DEF SyncInv, CallOK
  <2>3. AckedOK'
    BY <1>7, Zenon DEF SyncInv, AckedOK
  <2> QED
    BY <1>7, <2>1, <2>2, <2>3, FrameSync, Zenon
<1>8. \/ StockOf(t) # Absent /\ mem.resv[o].state = from /\ Begin(t, kind, s, st, o, r)
      \/ UNCHANGED <<phase, mem, data, logged, failed, write, acked>> /\ sales' \subseteq Ops
  BY <1>2, Zenon DEF Transition, SyncInv, TypeOK
<1> QED
  BY <1>6, <1>7, <1>8, Zenon

\* Every call of a thread.
LEMMA CallSync ==
  ASSUME SyncInv, NEW t \in Threads, Call(t)
  PROVE  SyncInv'
<1>1. ASSUME call[t] # Absent
      PROVE  /\ Quantity(t) \in Int
             /\ StockOf(t) # Absent => StockOf(t) \in Stock
  <2>1. call[t].op \in Ops /\ call[t].sku \in Skus /\ call[t].op \in acked
    BY <1>1, Zenon DEF SyncInv, TypeOK, CallOK, Calls
  <2>2. mem.resv[call[t].op] \in Reservation
    BY <2>1, Zenon DEF SyncInv, AckedOK, SameHold, TypeOK, Ledgers
  <2> QED
    <3>1. mem.resv[call[t].op].quantity \in Int
      BY <2>2, InventoryAssumption DEF Reservation
    <3>2. mem.stock[call[t].sku] \in Stock \cup {Absent}
      BY <2>1, Zenon DEF SyncInv, TypeOK, Ledgers
    <3> QED
      BY <3>1, <3>2, Zenon DEF Quantity, StockOf
<1>2. CASE \E s \in Skus : addSku(t, s)
  BY <1>2, AddSkuSync, Zenon
<1>3. CASE \E s \in Skus, q \in 1..MaxQty, o \in Ops : reserveStock(t, s, q, o)
  BY <1>3, ReserveSync, Zenon
<1>4. CASE \E kind \in Kinds, o \in Ops : lookUp(t, kind, o)
  BY <1>4, LookUpSync, Zenon
<1>5. CASE confirmStock(t)
  <2> DEFINE st == Moved(StockOf(t), 0, -Quantity(t), Quantity(t))
  <2>1. call[t] # Absent /\ StockOf(t) # Absent => st \in Stock
    BY <1>1, MovedType
  <2>2. Transition(t, "confirm", "Reserved", "Confirmed", st)
    BY <1>5, Zenon DEF confirmStock
  <2> HIDE DEF st
  <2> QED
    BY <2>1, <2>2, TransitionSync, Zenon DEF AllKinds, States
<1>6. CASE releaseStock(t)
  <2> DEFINE st == Moved(StockOf(t), Quantity(t), -Quantity(t), 0)
  <2>1. call[t] # Absent /\ StockOf(t) # Absent => st \in Stock
    BY <1>1, MovedType
  <2>2. Transition(t, "release", "Reserved", "Released", st)
    BY <1>6, Zenon DEF releaseStock
  <2> HIDE DEF st
  <2> QED
    BY <2>1, <2>2, TransitionSync, Zenon DEF AllKinds, States
<1>7. CASE rollbackConfirmation(t)
  <2> DEFINE st == Moved(StockOf(t), 0, Quantity(t), -Quantity(t))
  <2>1. call[t] # Absent /\ StockOf(t) # Absent => st \in Stock
    BY <1>1, MovedType
  <2>2. Transition(t, "rollbackConfirmation", "Confirmed", "Reserved", st)
    BY <1>7, Zenon DEF rollbackConfirmation
  <2> HIDE DEF st
  <2> QED
    BY <2>1, <2>2, TransitionSync, Zenon DEF AllKinds, States
<1>8. CASE rollbackRelease(t)
  <2> DEFINE st == Moved(StockOf(t), -Quantity(t), Quantity(t), 0)
  <2>1. call[t] # Absent /\ StockOf(t) # Absent => st \in Stock
    BY <1>1, MovedType
  <2>2. Transition(t, "rollbackRelease", "Released", "Reserved", st)
    BY <1>8, Zenon DEF rollbackRelease
  <2> HIDE DEF st
  <2> QED
    BY <2>1, <2>2, TransitionSync, Zenon DEF AllKinds, States
<1>9. CASE \E s \in Skus, snap \in Repairs : replaceStock(t, s, snap)
  BY <1>9, ReplaceSync, Zenon
<1> QED
  BY <1>2, <1>3, <1>4, <1>5, <1>6, <1>7, <1>8, <1>9, Zenon DEF Call

-----------------------------------------------------------------------------
(* The writes, the snapshots and the restarts.                             *)

\* Two writes in flight touch different keys.
LEMMA WritesDiffer ==
  ASSUME SyncInv, NEW t \in Threads, NEW u \in Threads, t # u,
         write[t] # Absent, write[u] # Absent
  PROVE  /\ write[t].sku # write[u].sku
         /\ write[t].op # Absent => write[t].op # write[u].op
<1>1. write[t].sku # write[u].sku
  BY Zenon DEF SyncInv, Locks
<1>2. ASSUME write[t].op # Absent, write[t].op = write[u].op PROVE FALSE
  BY <1>1, <1>2, BusySku, Zenon DEF InSku
<1> QED
  BY <1>1, <1>2, Zenon

\* A write in flight, with its keys and their types.
LEMMA WriteFacts ==
  ASSUME SyncInv, NEW t \in Threads, write[t] # Absent
  PROVE  /\ write[t] \in Writes /\ phase = "up"
         /\ write[t].sku \in Skus /\ write[t].stock \in Stock
         /\ write[t].oldStock \in Stock \cup {Absent}
         /\ write[t].op \in Ops \cup {Absent}
         /\ write[t].resv \in Reservation \cup {Absent}
         /\ write[t].oldResv \in Reservation \cup {Absent}
         /\ WriteShape(write[t]) /\ WriteSync(write[t]) /\ WriteLogged(write[t])
<1>1. write[t] \in Writes
  BY Zenon DEF SyncInv, TypeOK
<1>2. WriteOK(t)
  BY SMTT(30) DEF SyncInv
<1> QED
  BY <1>1, <1>2, Zenon DEF Writes, WriteOK

\* The record of a write reaches the WAL.
LEMMA AppendSync ==
  ASSUME SyncInv, NEW t \in Threads, appendWal(t)
  PROVE  SyncInv'
<1>0. PICK w : w = write[t]
  BY Zenon
<1> DEFINE v == [w EXCEPT !.wal = "logged"]
<1>1. w # Absent /\ w.wal = "pending"
      /\ UNCHANGED <<phase, mem, data, failed, call, acked, sales>>
  BY <1>0, Zenon DEF appendWal
<1>2. /\ w \in Writes /\ phase = "up" /\ w.sku \in Skus /\ w.stock \in Stock
      /\ w.op \in Ops \cup {Absent} /\ w.resv \in Reservation \cup {Absent}
      /\ WriteShape(w) /\ WriteSync(w) /\ WriteLogged(w)
  BY <1>0, <1>1, WriteFacts, Zenon
<1>3. /\ logged' = Put(logged, w.sku, w.stock, w.op, w.resv)
      /\ logged \in Ledgers /\ w.sku \in Skus /\ w.stock \in Stock \cup {Absent}
      /\ w.op \in Ops \cup {Absent} /\ w.resv \in Reservation \cup {Absent}
  BY <1>0, <1>2, Zenon DEF appendWal, SyncInv, TypeOK
<1>4. /\ logged' \in Ledgers /\ logged'.stock[w.sku] = w.stock
      /\ \A p \in Skus : p # w.sku => logged'.stock[p] = logged.stock[p]
      /\ w.op # Absent => logged'.resv[w.op] = w.resv
      /\ \A p \in Ops : p # w.op => logged'.resv[p] = logged.resv[p]
  BY <1>3, InventoryAssumption, Zenon DEF Put, Ledgers
<1>5. /\ v \in Writes /\ v.kind = w.kind /\ v.sku = w.sku /\ v.stock = w.stock
      /\ v.op = w.op /\ v.resv = w.resv
      /\ v.oldStock = w.oldStock /\ v.oldResv = w.oldResv /\ v.wal = "logged"
  BY <1>2, Zenon DEF Writes
<1>6. write' = [write EXCEPT ![t] = v]
  BY <1>0, Zenon DEF appendWal
<1> HIDE DEF v
<1>7. /\ write'[t] = v /\ v # Absent
      /\ write' \in [Threads -> Writes \cup {Absent}]
      /\ \A u \in Threads : u # t => write'[u] = write[u]
  BY <1>5, <1>6, InventoryAssumption, Zenon DEF SyncInv, TypeOK
<1>8. TypeOK'
  BY <1>1, <1>4, <1>7, SMTT(30) DEF SyncInv, TypeOK
<1>9. \A u \in Threads : CallOK(u)'
  BY <1>0, <1>1, <1>7, Zenon DEF SyncInv, CallOK
<1>10. WriteOK(t)'
  <2>1. WriteShape(write[t])'
    BY <1>2, <1>5, <1>7, Zenon DEF WriteShape
  <2>2. WriteSync(write[t])'
    BY <1>1, <1>2, <1>5, <1>7, ZenonT(30) DEF WriteSync
  <2>3. WriteLogged(write[t])'
    <3>1. ASSUME NEW o \in Ops, o # w.op, InSku(logged', o, w.sku) \/ InSku(data, o, w.sku)
          PROVE  logged'.resv[o] = data.resv[o]
      BY <1>1, <1>2, <1>4, <3>1, ZenonT(30) DEF WriteLogged, InSku
    <3>2. write'[t].wal = "logged" /\ write'[t].sku = w.sku /\ write'[t].op = w.op
          /\ write'[t].stock = w.stock /\ write'[t].resv = w.resv /\ data' = data
      BY <1>1, <1>5, <1>7, Zenon
    <3>3. write'[t].wal # "refused" /\ write'[t].wal # "pending"
      BY <3>2, SMTT(30)
    <3>4. \A o \in Ops \ {write'[t].op} :
            InSku(logged', o, write'[t].sku) \/ InSku(data', o, write'[t].sku)
            => logged'.resv[o] = data'.resv[o]
      BY <3>1, <3>2, Zenon
    <3> QED
      BY <1>4, <3>2, <3>3, <3>4, Zenon DEF WriteLogged, InSku
  <2> QED
    BY <1>1, <1>2, <2>1, <2>2, <2>3, Zenon DEF WriteOK
<1>11. ASSUME NEW u \in Threads, u # t, write[u] # Absent
       PROVE  WriteOK(u)'
  <2>1. w.sku # write[u].sku /\ (w.op # Absent => w.op # write[u].op)
    BY <1>0, <1>1, <1>11, WritesDiffer, Zenon
  <2>2. /\ write[u].sku \in Skus /\ write[u].op \in Ops \cup {Absent}
        /\ WriteShape(write[u]) /\ WriteSync(write[u]) /\ WriteLogged(write[u])
    BY <1>11, WriteFacts, SMTT(30)
  <2>3. ASSUME NEW o \in Ops, o # write[u].op, write[u].wal # "refused",
               InSku(logged', o, write[u].sku) \/ InSku(data, o, write[u].sku)
        PROVE  logged'.resv[o] = data.resv[o]
    <3>1. o # w.op
      <4>1. ASSUME w.op # Absent
            PROVE  w.resv.sku = w.sku /\ (data.resv[w.op] # Absent => data.resv[w.op].sku = w.sku)
        BY <1>0, <1>1, <1>2, <4>1, BusySku, Zenon DEF InSku, WriteShape
      <4>2. write'[u] = write[u] /\ o # Absent
        BY <1>7, <1>11, InventoryAssumption, Zenon
      <4> QED
        BY <1>4, <2>1, <2>3, <4>1, <4>2, SMTT(30) DEF InSku
    <3> QED
      BY <1>4, <1>7, <1>11, <2>2, <2>3, <3>1, Zenon DEF WriteLogged, InSku
  <2>4. WriteLogged(write[u])'
    <3>1. write'[u] = write[u] /\ data' = data /\ failed' = failed
      BY <1>1, <1>7, <1>11, Zenon
    <3>2. /\ logged'.stock[write[u].sku] = logged.stock[write[u].sku]
          /\ write[u].op # Absent => logged'.resv[write[u].op] = logged.resv[write[u].op]
      BY <1>4, <2>1, <2>2, Zenon
    <3>3. write'[u].wal # "refused" =>
            \A o \in Ops \ {write'[u].op} :
              InSku(logged', o, write'[u].sku) \/ InSku(data', o, write'[u].sku)
              => logged'.resv[o] = data'.resv[o]
      BY <2>3, <3>1, Zenon
    <3> QED
      BY <2>2, <3>1, <3>2, <3>3, ZenonT(30) DEF WriteLogged, InSku
  <2> QED
    BY <1>1, <1>2, <1>7, <1>11, <2>2, <2>4, Zenon DEF WriteOK, WriteShape, WriteSync
<1>12. Locks' /\ \A p \in Skus : Free(p)' <=> Free(p)
  BY <1>0, <1>1, <1>5, <1>7 DEF SyncInv, Locks, Free
<1>13. /\ \A p \in Ops : OpFree(p)' <=> OpFree(p)
       /\ ~Free(w.sku)
       /\ w.op # Absent => ~OpFree(w.op)
  BY <1>0, <1>1, <1>2, <1>5, <1>7 DEF OpFree, Free
<1>14. MemSync'
  BY <1>1, <1>12, <1>13, Zenon DEF SyncInv, MemSync, Running
<1>15. LogSync'
  <2>1. \A p \in Skus : Free(p) => logged'.stock[p] = logged.stock[p]
    BY <1>4, <1>13, SMTT(30)
  <2>2. \A p \in Ops : OpFree(p) => logged'.resv[p] = logged.resv[p]
    BY <1>4, <1>13, InventoryAssumption, Zenon
  <2> QED
    BY <1>1, <1>12, <1>13, <2>1, <2>2, ZenonT(30) DEF SyncInv, LogSync, Running
<1>17. LogKeeps'
  <2> SUFFICES ASSUME NEW o \in Ops, data.resv[o] # Absent
               PROVE  SameHold(logged'.resv[o], data.resv[o])
    BY <1>1, Zenon DEF LogKeeps
  <2>1. CASE o = w.op
    BY <1>2, <1>4, <2>1, InventoryAssumption, SMTT(30) DEF WriteSync, WriteShape
  <2>2. CASE o # w.op
    BY <1>4, <2>2, ZenonT(30) DEF SyncInv, LogKeeps
  <2> QED
    BY <2>1, <2>2, Zenon
<1>16. AckedOK'
  BY <1>1, Zenon DEF SyncInv, AckedOK
<1> QED
  BY <1>1, <1>2, <1>7, <1>8, <1>9, <1>10, <1>11, <1>12, <1>14, <1>15, <1>16, <1>17, Zenon DEF SyncInv, WriteOK

\* The record is applied and acknowledged.
LEMMA PersistedSync ==
  ASSUME SyncInv, NEW t \in Threads, persisted(t)
  PROVE  SyncInv'
<1>0. PICK w : w = write[t]
  BY Zenon
<1>1. /\ w # Absent /\ w.wal = "logged"
      /\ UNCHANGED <<phase, mem, logged, failed, call>>
      /\ write' = [write EXCEPT ![t] = Absent]
      /\ acked' = IF w.kind = "reserve" THEN acked \cup {w.op} ELSE acked
      /\ sales' = IF w.kind = "confirm" THEN sales \cup {w.op} ELSE sales
  BY <1>0, SMTT(30) DEF persisted
<1>2. /\ w \in Writes /\ phase = "up" /\ w.sku \in Skus /\ w.stock \in Stock
      /\ w.op \in Ops \cup {Absent} /\ w.resv \in Reservation \cup {Absent}
      /\ WriteShape(w) /\ WriteSync(w) /\ WriteLogged(w)
  BY <1>0, <1>1, WriteFacts, Zenon
<1>3. /\ data' = Put(data, w.sku, w.stock, w.op, w.resv)
      /\ data \in Ledgers /\ w.sku \in Skus /\ w.stock \in Stock \cup {Absent}
      /\ w.op \in Ops \cup {Absent} /\ w.resv \in Reservation \cup {Absent}
  BY <1>0, <1>2, Zenon DEF persisted, SyncInv, TypeOK
<1>4. /\ data' \in Ledgers /\ data'.stock[w.sku] = w.stock
      /\ \A p \in Skus : p # w.sku => data'.stock[p] = data.stock[p]
      /\ w.op # Absent => data'.resv[w.op] = w.resv
      /\ \A p \in Ops : p # w.op => data'.resv[p] = data.resv[p]
  BY <1>3, InventoryAssumption, Zenon DEF Put, Ledgers
<1>5. /\ write'[t] = Absent
      /\ write' \in [Threads -> Writes \cup {Absent}]
      /\ \A u \in Threads : u # t => write'[u] = write[u]
  BY <1>1, SMTT(30) DEF SyncInv, TypeOK
<1>6. w.kind \in {"reserve", "confirm"} => w.op \in Ops
  <2>1. w.kind = "confirm" => w.op # Absent
    BY <1>2, SMTT(30) DEF WriteShape
  <2> QED
    BY <1>2, <2>1, Zenon DEF WriteShape
<1>7. TypeOK'
  BY <1>1, <1>4, <1>5, <1>6, SMTT(30) DEF SyncInv, TypeOK
<1>8. \A u \in Threads : CallOK(u)'
  BY <1>1, <1>5, Zenon DEF SyncInv, CallOK
<1>9. ASSUME NEW u \in Threads, u # t, write[u] # Absent
      PROVE  WriteOK(u)'
  <2>1. w.sku # write[u].sku /\ (w.op # Absent => w.op # write[u].op)
    BY <1>0, <1>1, <1>9, WritesDiffer, ZenonT(30)
  <2>2. /\ write[u].sku \in Skus /\ write[u].op \in Ops \cup {Absent}
        /\ WriteShape(write[u]) /\ WriteSync(write[u]) /\ WriteLogged(write[u])
    BY <1>9, WriteFacts, Zenon
  <2>3. write'[u] = write[u] /\ mem' = mem /\ logged' = logged /\ failed' = failed
    BY <1>1, <1>5, <1>9, SMTT(30)
  <2>4. WriteSync(write[u])'
    BY <1>4, <2>1, <2>2, <2>3, SMTT(30) DEF WriteSync
  <2>5. ASSUME NEW o \in Ops, o # write[u].op, write[u].wal # "refused",
               InSku(logged, o, write[u].sku) \/ InSku(data', o, write[u].sku)
        PROVE  logged.resv[o] = data'.resv[o]
    <3>1. o # w.op
      <4>1. w.op # Absent => w.resv.sku = w.sku /\ logged.resv[w.op] = w.resv
        BY <1>1, <1>2, Zenon DEF WriteShape, WriteLogged
      <4> QED
        BY <1>4, <2>1, <2>5, <4>1, InventoryAssumption, SMTT(30) DEF InSku
    <3> QED
      BY <1>4, <2>2, <2>5, <3>1, SMTT(30) DEF WriteLogged, InSku
  <2>6. WriteLogged(write[u])'
    <3>1. write'[u].wal # "refused" =>
            \A o \in Ops \ {write'[u].op} :
              InSku(logged', o, write'[u].sku) \/ InSku(data', o, write'[u].sku)
              => logged'.resv[o] = data'.resv[o]
      BY <2>3, <2>5, Zenon
    <3> QED
      BY <2>2, <2>3, <3>1, ZenonT(30) DEF WriteLogged, InSku
  <2> QED
    BY <1>1, <1>2, <2>2, <2>3, <2>4, <2>6, Zenon DEF WriteOK, WriteShape
<1>10. Locks'
  BY <1>5, Zenon DEF SyncInv, Locks
<1>11. /\ \A p \in Skus : Free(p)' => Free(p) \/ p = w.sku
       /\ \A p \in Ops : OpFree(p)' => OpFree(p) \/ p = w.op
       /\ ~Free(w.sku) /\ (w.op # Absent => ~OpFree(w.op))
  BY <1>0, <1>1, <1>2, <1>5, SMTT(30) DEF Free, OpFree
<1>12. MemSync'
  <2>1. \A p \in Skus : Free(p)' => mem.stock[p] = data'.stock[p]
    BY <1>2, <1>4, <1>11, Zenon DEF SyncInv, MemSync, Running, WriteSync
  <2>2. \A p \in Ops : OpFree(p)' => mem.resv[p] = data'.resv[p]
    BY <1>2, <1>4, <1>11, InventoryAssumption DEF SyncInv, MemSync, Running, WriteSync
  <2> QED
    BY <1>1, <2>1, <2>2, Zenon DEF MemSync
<1>13. LogSync'
  <2> SUFFICES ASSUME ~failed
               PROVE  /\ \A p \in Skus : Free(p)' => logged.stock[p] = data'.stock[p]
                      /\ \A p \in Ops : OpFree(p)' => logged.resv[p] = data'.resv[p]
    BY <1>1, Zenon DEF LogSync
  <2>1. \A p \in Skus : Free(p)' => logged.stock[p] = data'.stock[p]
    BY <1>1, <1>2, <1>4, <1>11, Zenon DEF SyncInv, LogSync, Running, WriteLogged
  <2>2. ASSUME NEW p \in Ops, OpFree(p)' PROVE logged.resv[p] = data'.resv[p]
    <3>1. CASE p = w.op
      <4>1. w.op # Absent => logged.resv[w.op] = w.resv
        BY <1>1, <1>2, Zenon DEF WriteLogged
      <4> QED
        BY <1>4, <3>1, <4>1, InventoryAssumption, Zenon
    <3>2. CASE p # w.op
      <4>1. logged.resv[p] = data.resv[p]
        BY <1>2, <1>11, <2>2, <3>2, Zenon DEF SyncInv, LogSync, Running
      <4> QED
        BY <1>4, <3>2, <4>1, SMTT(30)
    <3> QED
      BY <3>1, <3>2, Zenon
  <2> QED
    BY <2>1, <2>2, Zenon
<1>14. LogKeeps'
  <2> SUFFICES ASSUME NEW o \in Ops, data'.resv[o] # Absent
               PROVE  SameHold(logged.resv[o], data'.resv[o])
    BY <1>1, Zenon DEF LogKeeps
  <2>1. CASE o = w.op
    BY <1>1, <1>2, <1>4, <2>1, InventoryAssumption, Zenon DEF WriteLogged, WriteShape, SameHold
  <2>2. CASE o # w.op
    BY <1>4, <2>2, Zenon DEF SyncInv, LogKeeps
  <2> QED
    BY <2>1, <2>2, Zenon
<1>15. AckedOK'
  <2> SUFFICES ASSUME NEW o \in acked'
               PROVE  data'.resv[o] # Absent /\ SameHold(mem.resv[o], data'.resv[o])
    BY <1>1, <1>2, SMTT(30) DEF AckedOK
  <2>1. CASE o = w.op /\ w.op # Absent
    BY <1>2, <1>4, <2>1, Zenon DEF WriteSync, WriteShape, SameHold
  <2>2. CASE o # w.op
    <3>1. o \in acked /\ o \in Ops
      BY <1>1, <2>2, Zenon DEF SyncInv, TypeOK
    <3> QED
      BY <1>4, <2>2, <3>1, Zenon DEF SyncInv, AckedOK
  <2>3. o # Absent
    BY <1>1, <1>6, InventoryAssumption, Zenon DEF SyncInv, TypeOK
  <2> QED
    BY <2>1, <2>2, <2>3, SMTT(30)
<1> QED
  BY <1>1, <1>2, <1>5, <1>7, <1>8, <1>9, <1>10, <1>12, <1>13, <1>14, <1>15, Zenon DEF SyncInv, WriteOK

\* Either way of undoing a failed write puts the old values back.
LEMMA UndoneIsOld ==
  ASSUME SyncInv, NEW t \in Threads, write[t] # Absent
  PROVE  Undone(write[t]) = Put(mem, write[t].sku, write[t].oldStock,
                                write[t].op, write[t].oldResv)
<1>0. PICK w : w = write[t]
  BY Zenon
<1>1. /\ w.sku \in Skus /\ w.stock \in Stock /\ w.oldStock \in Stock \cup {Absent}
      /\ w.op \in Ops \cup {Absent} /\ w.resv \in Reservation \cup {Absent}
      /\ WriteShape(w) /\ WriteSync(w)
  BY <1>0, WriteFacts, Zenon
<1>2. CASE w.kind = "reserve"
  <2>1. /\ w.op # Absent /\ w.oldResv = Absent /\ w.oldStock \in Stock
        /\ w.resv # Absent
        /\ w.stock = Moved(w.oldStock, -w.resv.quantity, w.resv.quantity, 0)
    BY <1>1, <1>2, Zenon DEF WriteShape
  <2>2. mem.stock[w.sku] = w.stock /\ mem.resv[w.op] = w.resv
    BY <1>1, <2>1, Zenon DEF WriteSync
  <2>3. w.stock # Absent /\ w.resv.quantity \in Int
    BY <1>1, <2>1, InventoryAssumption DEF Reservation
  <2>4. Moved(w.stock, w.resv.quantity, -w.resv.quantity, 0) = w.oldStock
    BY <2>1, <2>3, MovedBack, Zenon
  <2> QED
    BY <1>0, <1>2, <2>1, <2>2, <2>3, <2>4, Zenon DEF Undone
<1>3. CASE w.kind # "reserve"
  BY <1>0, <1>3, Zenon DEF Undone
<1> QED
  BY <1>2, <1>3, Zenon

\* A write fails and its call undoes the change in memory.
LEMMA FailedSync ==
  ASSUME SyncInv, NEW t \in Threads, persistFailed(t)
  PROVE  SyncInv'
<1>0. PICK w : w = write[t]
  BY Zenon
<1>1. /\ w # Absent
      /\ UNCHANGED <<phase, data, logged, call, acked, sales>> /\ failed' = TRUE
      /\ write' = [write EXCEPT ![t] = Absent]
  BY <1>0, SMTT(30) DEF persistFailed
<1>2. /\ w \in Writes /\ phase = "up" /\ w.sku \in Skus
      /\ w.oldStock \in Stock \cup {Absent}
      /\ w.op \in Ops \cup {Absent} /\ w.oldResv \in Reservation \cup {Absent}
      /\ WriteShape(w) /\ WriteSync(w) /\ WriteLogged(w)
  BY <1>0, <1>1, WriteFacts, Zenon
<1>3. /\ mem' = Put(mem, w.sku, w.oldStock, w.op, w.oldResv)
      /\ mem \in Ledgers /\ w.sku \in Skus /\ w.oldStock \in Stock \cup {Absent}
      /\ w.op \in Ops \cup {Absent} /\ w.oldResv \in Reservation \cup {Absent}
  BY <1>0, <1>1, <1>2, UndoneIsOld, Zenon DEF persistFailed, SyncInv, TypeOK
<1>4. /\ mem' \in Ledgers /\ mem'.stock[w.sku] = w.oldStock
      /\ \A p \in Skus : p # w.sku => mem'.stock[p] = mem.stock[p]
      /\ w.op # Absent => mem'.resv[w.op] = w.oldResv
      /\ \A p \in Ops : p # w.op => mem'.resv[p] = mem.resv[p]
  BY <1>3, InventoryAssumption, Zenon DEF Put, Ledgers
<1>5. /\ write'[t] = Absent
      /\ write' \in [Threads -> Writes \cup {Absent}]
      /\ \A u \in Threads : u # t => write'[u] = write[u]
  BY <1>1, Zenon DEF SyncInv, TypeOK
<1>6. TypeOK'
  BY <1>1, <1>4, <1>5, Zenon DEF SyncInv, TypeOK
<1>7. AckedOK'
  <2> SUFFICES ASSUME NEW o \in acked
               PROVE  SameHold(mem'.resv[o], data.resv[o])
    BY <1>1, <1>2, Zenon DEF SyncInv, AckedOK
  <2>1. o \in Ops /\ data.resv[o] # Absent /\ SameHold(mem.resv[o], data.resv[o])
    BY Zenon DEF SyncInv, AckedOK, TypeOK
  <2>2. CASE o = w.op
    BY <1>2, <1>4, <2>1, <2>2, InventoryAssumption, Zenon DEF WriteSync, SameHold
  <2>3. CASE o # w.op
    BY <1>4, <2>1, <2>3, Zenon
  <2> QED
    BY <2>2, <2>3, Zenon
<1>8. \A u \in Threads : CallOK(u)'
  <2> SUFFICES ASSUME NEW u \in Threads, call[u] # Absent PROVE CallOK(u)'
    BY <1>1, Zenon DEF CallOK
  <2>1. CallOK(u) /\ call[u].op \in acked /\ mem.resv[call[u].op].sku = call[u].sku
    BY Zenon DEF SyncInv, CallOK
  <2>2. SameHold(mem.resv[call[u].op], data.resv[call[u].op])
        /\ SameHold(mem'.resv[call[u].op], data.resv[call[u].op])
    BY <1>1, <1>7, <2>1, Zenon DEF SyncInv, AckedOK
  <2> QED
    BY <1>1, <1>5, <2>1, <2>2, Zenon DEF CallOK, SameHold
<1>9. ASSUME NEW u \in Threads, u # t, write[u] # Absent
      PROVE  WriteOK(u)'
  <2>1. w.sku # write[u].sku /\ (w.op # Absent => w.op # write[u].op)
    BY <1>0, <1>1, <1>9, WritesDiffer, Zenon
  <2>2. /\ write[u].sku \in Skus /\ write[u].op \in Ops \cup {Absent}
        /\ WriteShape(write[u]) /\ WriteSync(write[u]) /\ WriteLogged(write[u])
    BY <1>9, WriteFacts, Zenon
  <2>3. write'[u] = write[u]
    BY <1>5, <1>9, SMTT(30)
  <2>4. WriteSync(write[u])'
    BY <1>1, <1>4, <2>1, <2>2, <2>3, Zenon DEF WriteSync
  <2>5. WriteLogged(write[u])'
    BY <1>1, <2>2, <2>3, ZenonT(30) DEF WriteLogged, InSku
  <2> QED
    BY <1>1, <1>2, <2>2, <2>3, <2>4, <2>5, Zenon DEF WriteOK, WriteShape
<1>10. Locks'
  BY <1>5, Zenon DEF SyncInv, Locks
<1>11. /\ \A p \in Skus : Free(p)' => Free(p) \/ p = w.sku
       /\ \A p \in Ops : OpFree(p)' => OpFree(p) \/ p = w.op
       /\ ~Free(w.sku) /\ (w.op # Absent => ~OpFree(w.op))
  BY <1>0, <1>1, <1>2, <1>5, Zenon DEF Free, OpFree
<1>12. MemSync'
  <2>1. \A p \in Skus : Free(p)' => mem'.stock[p] = data.stock[p]
    BY <1>2, <1>4, <1>11, ZenonT(30) DEF SyncInv, MemSync, Running, WriteSync
  <2>2. \A p \in Ops : OpFree(p)' => mem'.resv[p] = data.resv[p]
    BY <1>2, <1>4, <1>11, InventoryAssumption DEF SyncInv, MemSync, Running, WriteSync
  <2> QED
    BY <1>1, <2>1, <2>2, Zenon DEF MemSync
<1>13. LogSync' /\ LogKeeps'
  BY <1>1, Zenon DEF SyncInv, LogSync, LogKeeps
<1> QED
  BY <1>1, <1>2, <1>5, <1>6, <1>7, <1>8, <1>9, <1>10, <1>12, <1>13, Zenon DEF SyncInv, WriteOK

\* A snapshot replaces the WAL, between two writes.
LEMMA SnapshotSync ==
  ASSUME SyncInv, snapshot
  PROVE  SyncInv'
<1>1. /\ phase # "down" /\ logged' = data
      /\ UNCHANGED <<phase, mem, data, failed, call, acked, sales>>
      /\ write' = [t \in Threads |-> IF write[t] = Absent THEN Absent
                     ELSE [write[t] EXCEPT !.wal = IF failed THEN "refused" ELSE @]]
  BY Zenon DEF snapshot
<1>2. ASSUME NEW t \in Threads, write[t] # Absent
      PROVE  /\ write'[t] \in Writes /\ write'[t] # Absent
             /\ write'[t].kind = write[t].kind /\ write'[t].sku = write[t].sku
             /\ write'[t].stock = write[t].stock /\ write'[t].oldStock = write[t].oldStock
             /\ write'[t].op = write[t].op /\ write'[t].resv = write[t].resv
             /\ write'[t].oldResv = write[t].oldResv
             /\ failed => write'[t].wal = "refused"
             /\ ~failed => write'[t].wal = "pending"
  <2>1. write[t] \in Writes /\ write[t].wal # "logged" /\ WriteLogged(write[t])
    BY <1>2, WriteFacts, Zenon DEF snapshot
  <2>2. write'[t] = [write[t] EXCEPT !.wal = IF failed THEN "refused" ELSE @]
    BY <1>1, <1>2, Zenon
  <2>3. ~failed => write[t].wal = "pending"
    BY <2>1, Zenon DEF WriteLogged, Writes
  <2>4. write'[t] \in Writes
    BY <2>1, <2>2, Zenon DEF Writes
  <2> QED
    BY <2>1, <2>2, <2>3, <2>4, InventoryAssumption DEF Writes
<1>3. \A t \in Threads : write[t] = Absent => write'[t] = Absent
  BY <1>1, Zenon
<1>4. write' \in [Threads -> Writes \cup {Absent}]
  BY <1>1, <1>2, <1>3, Zenon
<1>5. TypeOK'
  BY <1>1, <1>4, Zenon DEF SyncInv, TypeOK
<1>6. \A t \in Threads : CallOK(t)'
  BY <1>1, <1>3, Zenon DEF SyncInv, CallOK
<1>7. ASSUME NEW t \in Threads, write[t] # Absent
      PROVE  WriteOK(t)'
  <2>1. WriteShape(write[t]) /\ WriteSync(write[t]) /\ phase = "up"
    BY <1>7, WriteFacts, Zenon
  <2>2. WriteShape(write[t])'
    BY <1>2, <1>7, <2>1, Zenon DEF WriteShape
  <2>3. WriteSync(write[t])'
    BY <1>1, <1>2, <1>7, <2>1, SMTT(30) DEF WriteSync
  <2>4. WriteLogged(write[t])'
    <3>1. CASE failed
      BY <1>1, <1>2, <1>7, <3>1, SMTT(30) DEF WriteLogged
    <3>2. CASE ~failed
      BY <1>1, <1>2, <1>7, <2>1, <3>2, SMTT(30) DEF WriteLogged, WriteSync, InSku
    <3> QED
      BY <3>1, <3>2, Zenon
  <2> QED
    BY <1>1, <2>1, <2>2, <2>3, <2>4, Zenon DEF WriteOK
<1>8. Locks'
  BY <1>2, <1>3 DEF SyncInv, Locks
<1>9. /\ \A p \in Skus : Free(p)' => Free(p)
      /\ \A p \in Ops : OpFree(p)' => OpFree(p)
  BY <1>2, Zenon DEF Free, OpFree
<1>10. MemSync' /\ LogSync'
  BY <1>1, <1>9, Zenon DEF SyncInv, MemSync, LogSync, Running
<1>11. LogKeeps' /\ AckedOK'
  BY <1>1, SMTT(30) DEF SyncInv, LogKeeps, AckedOK, SameHold
<1> QED
  BY <1>1, <1>3, <1>5, <1>6, <1>7, <1>8, <1>10, <1>11, Zenon DEF SyncInv, WriteOK

-----------------------------------------------------------------------------
(* UnitCounting: what the steps below need to know of sets of units.       *)
(* UnitsCount proves them from the theorems on finite sets.                *)

UnitCounting ==
  /\ Cardinality({}) = 0
  /\ \A T \in SUBSET (Ops \X (1..MaxQty)) : Cardinality(T) \in Nat
  /\ \A S, T \in SUBSET (Ops \X (1..MaxQty)) :
       S \cap T = {} => Cardinality(S \cup T) = Cardinality(S) + Cardinality(T)
  /\ \A o \in Ops, q \in 1..MaxQty : Cardinality({o} \X (1..q)) = q

\* Releasing some reservations of a ledger changes their states and the stocks.
LEMMA ReleasedFacts ==
  ASSUME UnitCounting, NEW L \in Ledgers, NEW gone \in SUBSET Ops, \A o \in gone : L.resv[o] # Absent
  PROVE  /\ Released(L, gone) \in Ledgers
         /\ \A o \in Ops : o \notin gone => Released(L, gone).resv[o] = L.resv[o]
         /\ \A o \in gone : /\ Released(L, gone).resv[o] \in Reservation
                            /\ Released(L, gone).resv[o] # Absent
                            /\ Released(L, gone).resv[o].sku = L.resv[o].sku
                            /\ Released(L, gone).resv[o].quantity = L.resv[o].quantity
                            /\ Released(L, gone).resv[o].state = "Released"
<1> DEFINE n(s) == Cardinality({u \in Units(L, s, "Reserved") : u[1] \in gone})
           st == [s \in Skus |-> IF L.stock[s] = Absent THEN Absent
                                 ELSE Moved(L.stock[s], n(s), -n(s), 0)]
           rv == [o \in Ops |-> IF o \in gone THEN [L.resv[o] EXCEPT !.state = "Released"]
                                ELSE L.resv[o]]
<1>1. Released(L, gone) = [stock |-> st, resv |-> rv]
  BY SMTT(30) DEF Released
<1>2. \A s \in Skus : n(s) \in Int /\ -n(s) \in Int
  <2> SUFFICES ASSUME NEW s \in Skus PROVE n(s) \in Nat
    OBVIOUS
  <2> QED
    BY Zenon DEF UnitCounting, Units
<1> HIDE DEF n
<1>3. st \in [Skus -> Stock \cup {Absent}]
  <2> SUFFICES ASSUME NEW s \in Skus, L.stock[s] # Absent
               PROVE  Moved(L.stock[s], n(s), -n(s), 0) \in Stock
    BY Zenon
  <2>1. L.stock[s] \in Stock
    BY Zenon DEF Ledgers
  <2> QED
    BY <1>2, <2>1, MovedType
<1>4. ASSUME NEW o \in gone
      PROVE  /\ rv[o] \in Reservation /\ rv[o] # Absent
             /\ rv[o].sku = L.resv[o].sku /\ rv[o].quantity = L.resv[o].quantity
             /\ rv[o].state = "Released"
  <2>1. L.resv[o] \in Reservation
    BY <1>4, Zenon DEF Ledgers
  <2>2. rv[o] = [L.resv[o] EXCEPT !.state = "Released"]
    BY Zenon
  <2> QED
    BY <2>1, <2>2, InventoryAssumption DEF Reservation, States
<1>5. \A o \in Ops : o \notin gone => rv[o] = L.resv[o]
  BY Zenon
<1>6. rv \in [Ops -> Reservation \cup {Absent}]
  <2>1. \A o \in Ops : rv[o] \in Reservation \cup {Absent}
    BY <1>4, <1>5, Zenon DEF Ledgers
  <2> QED
    BY <2>1, Zenon
<1> HIDE DEF st, rv
<1>7. Released(L, gone) \in Ledgers
  BY <1>1, <1>3, <1>6, SMTT(30) DEF Ledgers
<1> QED
  BY <1>1, <1>4, <1>5, <1>7

\* Outside a running service there is no call, no write and nothing acknowledged.
LEMMA NothingInFlight ==
  ASSUME SyncInv, phase # "up"
  PROVE  /\ \A t \in Threads : call[t] = Absent /\ write[t] = Absent
         /\ acked = {}
         /\ phase = "restoring" =>
              /\ \A s \in Skus : mem.stock[s] = data.stock[s]
              /\ \A o \in Ops : mem.resv[o] = data.resv[o]
<1>1. \A t \in Threads : call[t] = Absent /\ write[t] = Absent
  BY Zenon DEF SyncInv, CallOK, WriteOK
<1>2. acked = {}
  BY Zenon DEF SyncInv, AckedOK
<1> QED
  BY <1>1, <1>2, Zenon DEF SyncInv, MemSync, Running, Free, OpFree

\* A step of the process as a whole, after which nothing is in flight.
LEMMA QuietSync ==
  ASSUME TypeOK', \A t \in Threads : call'[t] = Absent /\ write'[t] = Absent,
         acked' = {}, phase' = "down" => ~failed',
         Running' => mem' = data' /\ (~failed' => logged' = data'),
         LogKeeps'
  PROVE  SyncInv'
<1>1. \A t \in Threads : CallOK(t)' /\ WriteOK(t)'
  BY Zenon DEF CallOK, WriteOK
<1>2. Locks' /\ MemSync' /\ LogSync' /\ AckedOK'
  BY Zenon DEF Locks, MemSync, LogSync, AckedOK
<1> QED
  BY <1>1, <1>2, Zenon DEF SyncInv

\* A crash forgets all but the WAL's ledger.
LEMMA CrashSync ==
  ASSUME SyncInv, crash
  PROVE  SyncInv'
<1>1. EmptyLedger \in Ledgers
  BY Zenon DEF EmptyLedger, Ledgers
<1>2. TypeOK'
  BY <1>1, Zenon DEF SyncInv, TypeOK, crash
<1>3. LogKeeps' /\ ~Running'
  BY Zenon DEF crash, LogKeeps, EmptyLedger, Running
<1>4. /\ \A t \in Threads : call'[t] = Absent /\ write'[t] = Absent
      /\ acked' = {} /\ ~failed'
  BY Zenon DEF crash
<1> QED
  BY <1>2, <1>3, <1>4, QuietSync, Zenon

\* A restart starts all three ledgers from the WAL's.
LEMMA RestoreSync ==
  ASSUME SyncInv, restore
  PROVE  SyncInv'
<1>1. /\ phase = "down" /\ phase' = "restoring" /\ data' = logged /\ mem' = logged
      /\ UNCHANGED <<logged, failed, call, write, acked, sales>>
  BY Zenon DEF restore
<1>2. TypeOK'
  BY <1>1, Zenon DEF SyncInv, TypeOK
<1>3. LogKeeps'
  BY <1>1, Zenon DEF LogKeeps, SameHold
<1>4. /\ \A t \in Threads : call'[t] = Absent /\ write'[t] = Absent
      /\ acked' = {}
  BY <1>1, NothingInFlight, Zenon
<1> QED
  BY <1>1, <1>2, <1>3, <1>4, QuietSync, Zenon

-----------------------------------------------------------------------------
(* The release of the orphans, and SyncInv as a whole.                     *)

\* The orphans are released in one batch.
LEMMA OrphanSync ==
  ASSUME UnitCounting, SyncInv, NEW active \in SUBSET Ops, releaseOrphanReservations(active)
  PROVE  SyncInv'
<1> DEFINE gone == Orphans(active)
<1>1. /\ phase = "restoring" /\ phase' = "up"
      /\ mem' = Released(mem, gone) /\ data' = mem' /\ logged' = mem'
      /\ UNCHANGED <<failed, call, write, acked, sales>>
  BY Zenon DEF releaseOrphanReservations
<1>2. gone \in SUBSET Ops /\ \A o \in gone : mem.resv[o] # Absent
  BY Zenon DEF Orphans
<1> HIDE DEF gone
<1>3. mem \in Ledgers
  BY Zenon DEF SyncInv, TypeOK
<1>4. Released(mem, gone) \in Ledgers
  BY <1>2, <1>3, ReleasedFacts, Zenon
<1>5. TypeOK'
  BY <1>1, <1>4, Zenon DEF SyncInv, TypeOK
<1>6. LogKeeps'
  BY <1>1, Zenon DEF LogKeeps, SameHold
<1>7. /\ \A t \in Threads : call'[t] = Absent /\ write'[t] = Absent
      /\ acked' = {}
  BY <1>1, NothingInFlight, Zenon
<1> QED
  BY <1>1, <1>5, <1>6, <1>7, QuietSync, Zenon

\* The batch fails, and the record is in the WAL or not.
LEMMA OrphanFailedSync ==
  ASSUME UnitCounting, SyncInv, NEW active \in SUBSET Ops, releaseOrphansFailed(active)
  PROVE  SyncInv'
<1> DEFINE gone == Orphans(active)
<1>1. /\ phase = "restoring" /\ phase' = "failed" /\ failed' = TRUE
      /\ logged' \in {logged, Released(mem, gone)}
      /\ UNCHANGED <<data, call, write, acked, sales>>
  BY Zenon DEF releaseOrphansFailed
<1>2. PICK last \in SUBSET gone : mem' = [mem EXCEPT !.stock = Released(mem, gone \ last).stock]
  BY Zenon DEF releaseOrphansFailed
<1>3. gone \in SUBSET Ops /\ \A o \in gone : mem.resv[o] # Absent
  BY Zenon DEF Orphans
<1> HIDE DEF gone
<1>4. mem \in Ledgers /\ logged \in Ledgers
  BY Zenon DEF SyncInv, TypeOK
<1>5. Released(mem, gone) \in Ledgers /\ Released(mem, gone \ last) \in Ledgers
  <2>1. gone \ last \in SUBSET Ops /\ \A o \in gone \ last : mem.resv[o] # Absent
    BY <1>3, Zenon
  <2> QED
    BY <1>3, <1>4, <2>1, ReleasedFacts, Zenon
<1>6. mem' \in Ledgers
  BY <1>2, <1>4, <1>5, Zenon DEF Ledgers
<1>7. TypeOK'
  BY <1>1, <1>4, <1>5, <1>6, Zenon DEF SyncInv, TypeOK
<1>8. LogKeeps'
  <2> SUFFICES ASSUME NEW o \in Ops, data.resv[o] # Absent
               PROVE  SameHold(logged'.resv[o], data.resv[o])
    BY <1>1, Zenon DEF LogKeeps
  <2>1. CASE logged' = logged
    BY <2>1, Zenon DEF SyncInv, LogKeeps
  <2>2. CASE logged' = Released(mem, gone)
    <3>1. mem.resv[o] = data.resv[o]
      BY <1>1, NothingInFlight, SMTT(30)
    <3> QED
      BY <1>3, <1>4, <2>2, <3>1, ReleasedFacts, SMTT(30) DEF SameHold
  <2> QED
    BY <1>1, <2>1, <2>2, Zenon
<1>9. /\ \A t \in Threads : call'[t] = Absent /\ write'[t] = Absent
      /\ acked' = {} /\ ~Running'
  BY <1>1, NothingInFlight, Zenon DEF Running
<1> QED
  BY <1>1, <1>7, <1>8, <1>9, QuietSync, Zenon

\* SyncInv is inductive.
LEMMA NextSync ==
  ASSUME UnitCounting
  PROVE  SyncInv /\ [Next]_vars => SyncInv'
<1> SUFFICES ASSUME SyncInv, [Next]_vars PROVE SyncInv'
  BY Zenon
<1>1. CASE \E t \in Threads : Call(t) \/ appendWal(t) \/ persisted(t) \/ persistFailed(t)
  BY <1>1, CallSync, AppendSync, PersistedSync, FailedSync, Zenon
<1>2. CASE snapshot \/ crash \/ restore
  BY <1>2, SnapshotSync, CrashSync, RestoreSync, Zenon
<1>3. CASE \E active \in SUBSET Ops :
             releaseOrphanReservations(active) \/ releaseOrphansFailed(active)
  BY <1>3, OrphanSync, OrphanFailedSync, Zenon
<1>4. CASE UNCHANGED vars
  <2>1. TypeOK' /\ AckedOK' /\ \A t \in Threads : CallOK(t)'
    BY <1>4, Zenon DEF vars, SyncInv, TypeOK, AckedOK, CallOK
  <2> QED
    BY <1>4, <2>1, FrameSync, Zenon DEF vars
<1> QED
  BY <1>1, <1>2, <1>3, <1>4, Zenon DEF Next

-----------------------------------------------------------------------------
(* What the inventory promises its callers.                                *)

\* Every failed write has been undone completely when its lock is given back:
\* where no call is under way, memory says what the engine's table says.
LEMMA SyncUndone == SyncInv => MemoryMatchesStore
<1>1. ASSUME SyncInv, phase = "up", NEW s \in Skus, Free(s) PROVE AgreeOn(mem, data, s)
  <2>1. mem.stock[s] = data.stock[s]
    BY <1>1, Zenon DEF SyncInv, MemSync, Running
  <2>2. ASSUME NEW o \in Ops, InSku(mem, o, s) \/ InSku(data, o, s)
        PROVE  mem.resv[o] = data.resv[o]
    <3>1. OpFree(o)
      BY <1>1, <2>2, FreeOp, Zenon
    <3> QED
      BY <1>1, <3>1, Zenon DEF SyncInv, MemSync, Running
  <2> QED
    BY <2>1, <2>2, Zenon DEF AgreeOn, InSku
<1> QED
  BY <1>1, Zenon DEF MemoryMatchesStore

\* A reservation that was answered Ok is in memory, in the table and in what a
\* restart rebuilds, with the SKU and the quantity it was made for.
LEMMA SyncKeeps == SyncInv => AckedReservationKept
<1>1. ASSUME SyncInv, NEW o \in acked
      PROVE  /\ mem.resv[o] # Absent /\ data.resv[o] # Absent /\ logged.resv[o] # Absent
             /\ \A L \in {data, logged} : /\ L.resv[o].sku = mem.resv[o].sku
                                         /\ L.resv[o].quantity = mem.resv[o].quantity
  <2>1. o \in Ops /\ data.resv[o] # Absent /\ SameHold(mem.resv[o], data.resv[o])
    BY <1>1, Zenon DEF SyncInv, AckedOK, TypeOK
  <2>2. SameHold(logged.resv[o], data.resv[o])
    BY <1>1, <2>1, Zenon DEF SyncInv, LogKeeps
  <2> QED
    BY <2>1, <2>2, Zenon DEF SameHold
<1> QED
  BY <1>1, Zenon DEF AckedReservationKept

-----------------------------------------------------------------------------
(* Sales.                                                                  *)

Sold(L, o) == L.resv[o] # Absent /\ L.resv[o].state = "Confirmed"

\* What the table shows as sold, the WAL holds as sold; an acknowledged sale is
\* in both for as long as the process runs.
SaleInv ==
  /\ \A o \in Ops : Sold(data, o) => Sold(logged, o)
  /\ \A o \in sales : Sold(logged, o) /\ (phase # "down" => Sold(data, o))

\* Only rollbackConfirmation writes to a confirmed reservation.
LEMMA SoldIsFree ==
  ASSUME SyncInv, "rollbackConfirmation" \notin Kinds, NEW t \in Threads, write[t] # Absent,
         write[t].op # Absent
  PROVE  ~Sold(data, write[t].op)
<1>1. WriteShape(write[t]) /\ WriteSync(write[t])
  BY WriteFacts, Zenon
<1> QED
  BY <1>1, Zenon DEF WriteShape, WriteSync, Sold

\* A step that leaves table and WAL alone.
LEMMA SaleFrame ==
  ASSUME SaleInv, phase' = phase, data' = data, logged' = logged,
         \A o \in sales' : o \in sales \/ (o \in Ops /\ Sold(data, o))
  PROVE  SaleInv'
  BY Zenon DEF SaleInv, Sold

\* confirm answers Ok again only for what the table has as sold.
LEMMA TransitionSale ==
  ASSUME SyncInv, SaleInv, NEW t \in Threads, NEW kind, NEW from, NEW to, NEW st,
         kind = "confirm" => to = "Confirmed", Transition(t, kind, from, to, st)
  PROVE  SaleInv'
<1> DEFINE o == call[t].op
<1>1. phase = "up" /\ call[t] # Absent /\ Free(call[t].sku)
      /\ phase' = phase /\ data' = data /\ logged' = logged
  BY Zenon DEF Transition, Begin
<1>2. o \in Ops /\ call[t].sku \in Skus /\ mem.resv[o].sku = call[t].sku
  BY <1>1, Zenon DEF SyncInv, TypeOK, Calls, CallOK
<1>3. mem.resv[o] # Absent => mem.resv[o] = data.resv[o]
  <2>1. mem.resv[o] # Absent => OpFree(o)
    BY <1>1, <1>2, FreeOp, ZenonT(30) DEF InSku
  <2> QED
    BY <1>1, <1>2, <2>1, Zenon DEF SyncInv, MemSync, Running
<1>4. \A p \in sales' : p \in sales \/ (p = o /\ Sold(data, o))
  BY <1>3, Zenon DEF Transition, Begin, Sold
<1> QED
  BY <1>1, <1>2, <1>4, SaleFrame, SMTT(30)

\* No call touches what is sold.
LEMMA CallSale ==
  ASSUME SyncInv, SaleInv, NEW t \in Threads, Call(t)
  PROVE  SaleInv'
<1>1. CASE \/ \E s \in Skus : addSku(t, s)
           \/ \E s \in Skus, q \in 1..MaxQty, o \in Ops : reserveStock(t, s, q, o)
           \/ \E s \in Skus, snap \in Repairs : replaceStock(t, s, snap)
  <2>1. UNCHANGED <<phase, data, logged, sales>>
    <3>1. CASE \E s \in Skus : addSku(t, s)
      BY <3>1, Zenon DEF addSku, Begin
    <3>2. CASE \E s \in Skus, q \in 1..MaxQty, o \in Ops : reserveStock(t, s, q, o)
      <4>1. PICK s \in Skus, q \in 1..MaxQty, o \in Ops : reserveStock(t, s, q, o)
        BY <3>2, Zenon
      <4>2. CASE UNCHANGED <<phase, mem, data, logged, failed, call, write, sales>>
        BY <4>2, Zenon
      <4>3. CASE Begin(t, "reserve", s, Moved(mem.stock[s], -q, q, 0),
                       o, [sku |-> s, quantity |-> q, state |-> "Reserved"])
        BY <4>3, Zenon DEF Begin
      <4> QED
        BY <4>1, <4>2, <4>3, Zenon DEF reserveStock
    <3>3. CASE \E s \in Skus, snap \in Repairs : replaceStock(t, s, snap)
      BY <3>3, Zenon DEF replaceStock, Begin
    <3> QED
      BY <1>1, <3>1, <3>2, <3>3, Zenon
  <2> QED
    BY <2>1, SaleFrame, Zenon
<1>2. CASE \E kind \in Kinds, o \in Ops : lookUp(t, kind, o)
  <2>1. UNCHANGED <<phase, data, logged>> /\ sales' \subseteq sales
    BY <1>2, Zenon DEF lookUp
  <2> QED
    BY <2>1, SaleFrame, Zenon
<1>3. CASE confirmStock(t)
  BY <1>3, TransitionSale, Zenon DEF confirmStock
<1>4. CASE releaseStock(t)
  BY <1>4, TransitionSale DEF releaseStock
<1>5. CASE rollbackConfirmation(t)
  BY <1>5, TransitionSale DEF rollbackConfirmation
<1>6. CASE rollbackRelease(t)
  BY <1>6, TransitionSale DEF rollbackRelease
<1> QED
  BY <1>1, <1>2, <1>3, <1>4, <1>5, <1>6, Zenon DEF Call

\* A record and its acknowledgement: the sale is in the WAL first.
LEMMA WriteSale ==
  ASSUME SyncInv, SaleInv, "rollbackConfirmation" \notin Kinds, NEW t \in Threads,
         appendWal(t) \/ persisted(t)
  PROVE  SaleInv'
<1>0. PICK w : w = write[t]
  BY Zenon
<1>1. w # Absent /\ UNCHANGED <<phase, mem>>
  BY <1>0, Zenon DEF appendWal, persisted
<1>2. /\ phase = "up" /\ w.sku \in Skus /\ w.stock \in Stock
      /\ w.op \in Ops \cup {Absent} /\ w.resv \in Reservation \cup {Absent}
      /\ WriteShape(w) /\ WriteSync(w) /\ WriteLogged(w)
      /\ data \in Ledgers /\ logged \in Ledgers /\ sales \subseteq Ops
  BY <1>0, <1>1, WriteFacts, Zenon DEF SyncInv, TypeOK
<1>3. \A o \in Ops : Sold(data, o) => o # w.op
  BY <1>0, <1>1, SoldIsFree, InventoryAssumption, Zenon
<1>4. CASE appendWal(t)
  <2>1. data' = data /\ sales' = sales
        /\ \A o \in Ops : o # w.op => logged'.resv[o] = logged.resv[o]
    BY <1>0, <1>4, Zenon DEF appendWal, Put
  <2> QED
    BY <1>1, <1>2, <1>3, <2>1, Zenon DEF SaleInv, Sold
<1>5. CASE persisted(t)
  <2>1. /\ logged' = logged /\ w.wal = "logged"
        /\ \A o \in Ops : data'.resv[o] = IF o = w.op THEN w.resv ELSE data.resv[o]
        /\ sales' = IF w.kind = "confirm" THEN sales \cup {w.op} ELSE sales
    BY <1>0, <1>5, Zenon DEF persisted, Put
  <2>2. w.op # Absent => logged.resv[w.op] = w.resv
    BY <1>2, <2>1, Zenon DEF WriteLogged
  <2>3. w.kind = "confirm" => w.op \in Ops /\ Sold(data', w.op) /\ Sold(logged, w.op)
    <3>1. w.kind = "confirm" => w.op # Absent /\ w.resv # Absent /\ w.resv.state = "Confirmed"
      BY <1>2, Zenon DEF WriteShape
    <3> QED
      BY <1>2, <2>1, <2>2, <3>1, Zenon DEF Sold
  <2>4. \A o \in Ops : Sold(data', o) => Sold(logged, o)
    BY <2>1, <2>2, InventoryAssumption, ZenonT(30) DEF SaleInv, Sold
  <2>5. \A o \in sales : Sold(logged, o) /\ Sold(data', o)
    BY <1>2, <1>3, <2>1, Zenon DEF SaleInv, Sold
  <2> QED
    BY <2>1, <2>3, <2>4, <2>5, Zenon DEF SaleInv, Sold
<1> QED
  BY <1>4, <1>5, Zenon

\* Snapshots, crashes, restarts and the release of orphans keep sales.
LEMMA ProcessSale ==
  ASSUME UnitCounting, SyncInv, SaleInv,
         \/ snapshot \/ crash \/ restore
         \/ \E active \in SUBSET Ops :
              releaseOrphanReservations(active) \/ releaseOrphansFailed(active)
  PROVE  SaleInv'
<1>0. sales \subseteq Ops
  BY Zenon DEF SyncInv, TypeOK
<1>1. CASE snapshot
  BY <1>0, <1>1, Zenon DEF snapshot, SaleInv, Sold
<1>2. CASE crash
  BY <1>2, Zenon DEF crash, SaleInv, Sold, EmptyLedger
<1>3. CASE restore
  BY <1>3, Zenon DEF restore, SaleInv, Sold
<1>4. ASSUME NEW active \in SUBSET Ops,
             releaseOrphanReservations(active) \/ releaseOrphansFailed(active)
      PROVE  SaleInv'
  <2> DEFINE gone == Orphans(active)
  <2>1. /\ gone \in SUBSET Ops
        /\ \A o \in gone : mem.resv[o] # Absent /\ mem.resv[o].state = "Reserved"
    BY Zenon DEF Orphans
  <2>2. mem \in Ledgers /\ phase = "restoring" /\ phase' # "down" /\ sales' = sales
    BY <1>4, Zenon DEF SyncInv, TypeOK, releaseOrphanReservations, releaseOrphansFailed
  <2>3. \/ data' = Released(mem, gone) /\ logged' = Released(mem, gone)
        \/ data' = data /\ logged' = logged
        \/ data' = data /\ logged' = Released(mem, gone)
    BY <1>4, Zenon DEF releaseOrphanReservations, releaseOrphansFailed
  <2> HIDE DEF gone
  <2>4. \A o \in Ops : Sold(data, o) => Sold(Released(mem, gone), o)
    <3>1. \A o \in Ops : o \notin gone => Released(mem, gone).resv[o] = mem.resv[o]
      BY <2>1, <2>2, ReleasedFacts
    <3>2. \A o \in Ops : mem.resv[o] = data.resv[o]
      BY <2>2, NothingInFlight, Zenon
    <3> QED
      BY <2>1, <3>1, <3>2, Zenon DEF Sold
  <2>5. \A o \in sales : o \in Ops /\ Sold(data, o) /\ Sold(logged, o)
    BY <1>0, <2>2, Zenon DEF SaleInv
  <2> QED
    BY <2>2, <2>3, <2>4, <2>5, ZenonT(30) DEF SaleInv, Sold
<1> QED
  BY <1>1, <1>2, <1>3, <1>4, Zenon

\* SaleInv is preserved, unless somebody rolls confirmations back.
LEMMA NextSale ==
  ASSUME UnitCounting, "rollbackConfirmation" \notin Kinds
  PROVE  SyncInv /\ SaleInv /\ [Next]_vars => SaleInv'
<1> SUFFICES ASSUME SyncInv, SaleInv, [Next]_vars PROVE SaleInv'
  BY Zenon
<1>1. CASE \E t \in Threads : Call(t) \/ appendWal(t) \/ persisted(t)
  BY <1>1, CallSale, WriteSale, Zenon
<1>2. CASE \E t \in Threads : persistFailed(t)
  BY <1>2, SaleFrame, Zenon DEF persistFailed
<1>3. CASE \/ snapshot \/ crash \/ restore
           \/ \E active \in SUBSET Ops :
                releaseOrphanReservations(active) \/ releaseOrphansFailed(active)
  BY <1>3, ProcessSale, Zenon
<1>4. CASE UNCHANGED vars
  BY <1>4, SaleFrame, Zenon DEF vars
<1> QED
  BY <1>1, <1>2, <1>3, <1>4, Zenon DEF Next

-----------------------------------------------------------------------------
(* The counters.                                                           *)

\* What validateInvariants and conservation say of one SKU.  Only
\* rollbackRelease takes units without asking whether they are available.
GoodAt(L, s) ==
  IF L.stock[s] = Absent
  THEN \A o \in Ops : ~InSku(L, o, s)
  ELSE /\ L.stock[s].reserved = Cardinality(Units(L, s, "Reserved"))
       /\ L.stock[s].sold = Cardinality(Units(L, s, "Confirmed"))
       /\ L.stock[s].available + L.stock[s].reserved + L.stock[s].sold = Capacity[s]
       /\ "rollbackRelease" \notin Kinds => L.stock[s].available >= 0

Good(L) == \A s \in Skus : GoodAt(L, s)

LedgerInv == /\ phase # "failed" => Good(mem)
             /\ Good(data) /\ Good(logged)

-----------------------------------------------------------------------------
(* Units.                                                                  *)

\* The units of a SKU only depend on what a ledger says of the SKU.
LEMMA UnitsAgree ==
  ASSUME NEW K \in Ledgers, NEW L \in Ledgers, NEW s \in Skus, AgreeOn(K, L, s), NEW x
  PROVE  Units(K, s, x) = Units(L, s, x)
  BY Zenon DEF AgreeOn, Units

\* So does what is promised of the SKU.
LEMMA GoodAgree ==
  ASSUME NEW K \in Ledgers, NEW L \in Ledgers, NEW s \in Skus, AgreeOn(K, L, s), GoodAt(K, s)
  PROVE  GoodAt(L, s)
<1>1. K.stock[s] = L.stock[s]
  BY Zenon DEF AgreeOn
<1>2. \A o \in Ops : InSku(L, o, s) => InSku(K, o, s)
  BY Zenon DEF AgreeOn, InSku
<1>3. /\ Units(K, s, "Reserved") = Units(L, s, "Reserved")
      /\ Units(K, s, "Confirmed") = Units(L, s, "Confirmed")
  BY UnitsAgree
<1> QED
  BY <1>1, <1>2, <1>3, Zenon DEF GoodAt

\* How a batch on reservation o changes the number of units in state x.
Gain(x, old, r) ==
  (IF r.state = x THEN r.quantity ELSE 0)
    - (IF old # Absent /\ old.state = x THEN r.quantity ELSE 0)

\* A change of reservation o alone changes the units by its Gain.
LEMMA UnitsChange ==
  ASSUME UnitCounting, NEW L \in Ledgers, NEW K \in Ledgers, NEW s \in Skus, NEW o \in Ops,
         NEW r \in Reservation, r.sku = s, K.resv[o] = r,
         \A p \in Ops : p # o => K.resv[p] = L.resv[p],
         L.resv[o] # Absent => SameHold(r, L.resv[o]), NEW x
  PROVE  Cardinality(Units(K, s, x)) = Cardinality(Units(L, s, x)) + Gain(x, L.resv[o], r)
<1> DEFINE B == {o} \X (1..r.quantity)
           Rest == {u \in Units(L, s, x) : u[1] # o}
<1>1. r.quantity \in 1..MaxQty /\ r # Absent
  BY InventoryAssumption, Zenon DEF Reservation
<1>2. /\ B \in SUBSET (Ops \X (1..MaxQty)) /\ Cardinality(B) = r.quantity
      /\ Rest \in SUBSET (Ops \X (1..MaxQty)) /\ Rest \cap B = {}
  <2>1. B \in SUBSET (Ops \X (1..MaxQty)) /\ Cardinality(B) = r.quantity
    <3>1. {o} \X (1..r.quantity) \in SUBSET (Ops \X (1..MaxQty))
      BY <1>1, InventoryAssumption
    <3> QED
      BY <1>1, <3>1, Zenon DEF UnitCounting
  <2> QED
    BY <2>1, Zenon DEF Units
<1>3. Cardinality(Rest) \in Nat /\ r.quantity \in Nat
  BY <1>1, <1>2, InventoryAssumption DEF UnitCounting
<1>4. Cardinality(Rest \cup B) = Cardinality(Rest) + r.quantity
  BY <1>2 DEF UnitCounting
<1>5. Units(L, s, x) = IF L.resv[o] # Absent /\ L.resv[o].state = x THEN Rest \cup B ELSE Rest
  <2>1. CASE L.resv[o] # Absent /\ L.resv[o].state = x
    <3>1. L.resv[o].sku = s /\ L.resv[o].quantity = r.quantity
      BY <2>1, Zenon DEF SameHold
    <3>2. \A u \in Ops \X (1..MaxQty) : u[1] = o => (u \in Units(L, s, x) <=> u \in B)
      BY <1>1, <2>1, <3>1 DEF Units
    <3> QED
      BY <1>2, <2>1, <3>2, Zenon DEF Units
  <2>2. CASE ~(L.resv[o] # Absent /\ L.resv[o].state = x)
    BY <2>2, Zenon DEF Units
  <2> QED
    BY <2>1, <2>2, Zenon
<1>6. Units(K, s, x) = IF r.state = x THEN Rest \cup B ELSE Rest
  <2>1. \A u \in Ops \X (1..MaxQty) : u[1] # o => (u \in Units(K, s, x) <=> u \in Rest)
    BY Zenon DEF Units
  <2>2. \A u \in Ops \X (1..MaxQty) : u[1] = o => (u \in Units(K, s, x) <=> r.state = x /\ u \in B)
    BY <1>1 DEF Units
  <2>3. CASE r.state = x
    BY <1>2, <2>1, <2>2, <2>3, Zenon DEF Units
  <2>4. CASE r.state # x
    BY <1>2, <2>1, <2>2, <2>4, Zenon DEF Units
  <2> QED
    BY <2>3, <2>4, Zenon
<1> HIDE DEF B, Rest
<1> QED
  BY <1>3, <1>4, <1>5, <1>6 DEF Gain

-----------------------------------------------------------------------------
(* One batch.                                                              *)

\* K is L after a batch on SKU s and on reservation o of s (or on no
\* reservation, o = Absent).
BatchOf(L, K, s, o) ==
  /\ \A p \in Skus : p # s => K.stock[p] = L.stock[p]
  /\ \A p \in Ops : p # o => K.resv[p] = L.resv[p]
  /\ o # Absent => /\ L.resv[o] # Absent => InSku(L, o, s)
                   /\ K.resv[o] # Absent => InSku(K, o, s)

\* Put makes one.
LEMMA PutBatch ==
  ASSUME NEW L \in Ledgers, NEW s \in Skus, NEW st \in Stock, NEW o \in Ops,
         NEW r \in Reservation, r.sku = s, L.resv[o] # Absent => L.resv[o].sku = s
  PROVE  /\ Put(L, s, st, o, r) \in Ledgers
         /\ Put(L, s, st, o, r).stock[s] = st /\ Put(L, s, st, o, r).resv[o] = r
         /\ BatchOf(L, Put(L, s, st, o, r), s, o)
<1>1. PICK K : K = Put(L, s, st, o, r)
  BY Zenon
<1>2. /\ K \in Ledgers /\ K.stock[s] = st /\ K.resv[o] = r
      /\ \A p \in Skus : p # s => K.stock[p] = L.stock[p]
      /\ \A p \in Ops : p # o => K.resv[p] = L.resv[p]
  BY <1>1, Zenon DEF Put, Ledgers
<1>3. BatchOf(L, K, s, o)
  BY <1>2, Zenon DEF BatchOf, InSku
<1> QED
  BY <1>1, <1>2, <1>3, Zenon

\* It leaves the other SKUs alone.
LEMMA BatchElsewhere ==
  ASSUME NEW L \in Ledgers, NEW K \in Ledgers, NEW s \in Skus, NEW o \in Ops \cup {Absent},
         BatchOf(L, K, s, o), Good(L), GoodAt(K, s)
  PROVE  Good(K)
<1> SUFFICES ASSUME NEW p \in Skus, p # s PROVE GoodAt(K, p)
  BY Zenon DEF Good
<1>1. ASSUME NEW q \in Ops, InSku(L, q, p) \/ InSku(K, q, p) PROVE L.resv[q] = K.resv[q]
  <2>1. q # Absent
    BY InventoryAssumption, Zenon
  <2> QED
    BY <1>1, <2>1, Zenon DEF BatchOf, InSku
<1>2. L.stock[p] = K.stock[p]
  BY Zenon DEF BatchOf
<1>3. AgreeOn(L, K, p)
  BY <1>1, <1>2, Zenon DEF AgreeOn, InSku
<1> QED
  BY <1>3, GoodAgree, Zenon DEF Good

\* A gain is a number.
LEMMA GainType ==
  ASSUME NEW old, NEW r \in Reservation, NEW x PROVE Gain(x, old, r) \in Int
<1>1. r.quantity \in Int
  BY InventoryAssumption DEF Reservation
<1> QED
  BY <1>1 DEF Gain

\* A transition that moves as many units in the stock as in the reservations.
LEMMA GoodMoved ==
  ASSUME UnitCounting, NEW L \in Ledgers, NEW K \in Ledgers, NEW s \in Skus, NEW o \in Ops,
         NEW r \in Reservation, r.sku = s, K.resv[o] = r,
         BatchOf(L, K, s, o),
         L.resv[o] # Absent => SameHold(r, L.resv[o]),
         GoodAt(L, s), L.stock[s] # Absent, NEW a \in Int,
         K.stock[s] = Moved(L.stock[s], a, Gain("Reserved", L.resv[o], r),
                            Gain("Confirmed", L.resv[o], r)),
         a + Gain("Reserved", L.resv[o], r) + Gain("Confirmed", L.resv[o], r) = 0,
         "rollbackRelease" \notin Kinds => L.stock[s].available + a >= 0
  PROVE  GoodAt(K, s)
<1> DEFINE b == Gain("Reserved", L.resv[o], r)
           c == Gain("Confirmed", L.resv[o], r)
<1>2. b \in Int /\ c \in Int
  BY GainType, Zenon
<1>3. \A p \in Ops : p # o => K.resv[p] = L.resv[p]
  BY Zenon DEF BatchOf
<1>4. /\ Cardinality(Units(K, s, "Reserved")) = Cardinality(Units(L, s, "Reserved")) + b
      /\ Cardinality(Units(K, s, "Confirmed")) = Cardinality(Units(L, s, "Confirmed")) + c
  BY <1>3, UnitsChange
<1>5. L.stock[s] \in Stock /\ Capacity[s] \in Int
  BY InventoryAssumption DEF Ledgers
<1>6. K.stock[s] = Moved(L.stock[s], a, b, c) /\ a + b + c = 0
  BY Zenon
<1> HIDE DEF b, c
<1>7. /\ K.stock[s].available = L.stock[s].available + a
      /\ K.stock[s].reserved = L.stock[s].reserved + b
      /\ K.stock[s].sold = L.stock[s].sold + c
  BY <1>6 DEF Moved
<1>8. K.stock[s] # Absent
  <2>1. K.stock[s] \in Stock
    BY <1>2, <1>5, <1>6, MovedType
  <2> QED
    BY <2>1, InventoryAssumption, Zenon
<1>9. /\ L.stock[s].available \in Int /\ L.stock[s].reserved \in Int /\ L.stock[s].sold \in Int
  BY <1>5, Zenon DEF Stock
<1>10. /\ L.stock[s].reserved = Cardinality(Units(L, s, "Reserved"))
       /\ L.stock[s].sold = Cardinality(Units(L, s, "Confirmed"))
       /\ L.stock[s].available + L.stock[s].reserved + L.stock[s].sold = Capacity[s]
  BY Zenon DEF GoodAt
<1>11. /\ K.stock[s].reserved = Cardinality(Units(K, s, "Reserved"))
       /\ K.stock[s].sold = Cardinality(Units(K, s, "Confirmed"))
  BY <1>4, <1>7, <1>10, SMTT(30)
<1>12. K.stock[s].available + K.stock[s].reserved + K.stock[s].sold = Capacity[s]
  BY <1>2, <1>5, <1>6, <1>7, <1>9, <1>10
<1>13. "rollbackRelease" \notin Kinds => K.stock[s].available >= 0
  BY <1>7, Zenon
<1> QED
  BY <1>8, <1>11, <1>12, <1>13, Zenon DEF GoodAt

\* The five ways a reservation moves.
LEMMA Gains ==
  ASSUME NEW old, NEW r \in Reservation
  PROVE  /\ old = Absent /\ r.state = "Reserved" =>
              Gain("Reserved", old, r) = r.quantity /\ Gain("Confirmed", old, r) = 0
         /\ old # Absent /\ old.state = "Reserved" /\ r.state = "Confirmed" =>
              Gain("Reserved", old, r) = -r.quantity /\ Gain("Confirmed", old, r) = r.quantity
         /\ old # Absent /\ old.state = "Reserved" /\ r.state = "Released" =>
              Gain("Reserved", old, r) = -r.quantity /\ Gain("Confirmed", old, r) = 0
         /\ old # Absent /\ old.state = "Confirmed" /\ r.state = "Reserved" =>
              Gain("Reserved", old, r) = r.quantity /\ Gain("Confirmed", old, r) = -r.quantity
         /\ old # Absent /\ old.state = "Released" /\ r.state = "Reserved" =>
              Gain("Reserved", old, r) = r.quantity /\ Gain("Confirmed", old, r) = 0
<1>1. r.quantity \in Int
  BY InventoryAssumption DEF Reservation
<1> QED
  BY <1>1 DEF Gain

\* A call that changes memory at one SKU, for the better or not at all.
LEMMA BeginGood ==
  ASSUME SyncInv, LedgerInv, NEW t \in Threads, NEW kind, NEW s \in Skus,
         NEW st \in Stock, NEW o \in Ops \cup {Absent}, NEW r \in Reservation \cup {Absent},
         phase = "up", Begin(t, kind, s, st, o, r),
         o # Absent => /\ r # Absent /\ r.sku = s
                       /\ mem.resv[o] # Absent => mem.resv[o].sku = s,
         GoodAt(mem', s)
  PROVE  LedgerInv'
<1>1. mem \in Ledgers /\ st \in Stock \cup {Absent}
  BY SMTT(30) DEF SyncInv, TypeOK
<1>2. mem' = Put(mem, s, st, o, r) /\ phase' = phase /\ data' = data /\ logged' = logged
  BY Zenon DEF Begin
<1>3. mem' \in Ledgers /\ BatchOf(mem, mem', s, o)
  BY <1>1, <1>2, InventoryAssumption, Zenon DEF Put, Ledgers, BatchOf, InSku
<1>4. Good(mem')
  BY <1>1, <1>3, BatchElsewhere, Zenon DEF LedgerInv
<1> QED
  BY <1>2, <1>4, Zenon DEF LedgerInv

\* addSku: all of the capacity is available.
LEMMA AddSkuGood ==
  ASSUME UnitCounting, SyncInv, LedgerInv, NEW t \in Threads, NEW s \in Skus, addSku(t, s)
  PROVE  LedgerInv'
<1> DEFINE st == [available |-> Capacity[s], reserved |-> 0, sold |-> 0]
<1>1. st \in Stock /\ st # Absent /\ Capacity[s] \in Nat
  BY InventoryAssumption DEF Stock
<1>2. /\ phase = "up" /\ mem.stock[s] = Absent
      /\ Begin(t, "addSku", s, st, Absent, Absent) /\ mem \in Ledgers
  BY SMTT(30) DEF addSku, Idle, SyncInv, TypeOK
<1>3. mem' = Put(mem, s, st, Absent, Absent)
  BY <1>2, Zenon DEF Begin
<1>4. mem'.stock[s] = st /\ \A o \in Ops : mem'.resv[o] = mem.resv[o]
  BY <1>2, <1>3, InventoryAssumption, SMTT(30) DEF Put, Ledgers
<1>5. \A o \in Ops : ~InSku(mem', o, s)
  BY <1>2, <1>4, Zenon DEF LedgerInv, Good, GoodAt, InSku
<1>6. Units(mem', s, "Reserved") = {} /\ Units(mem', s, "Confirmed") = {}
  BY <1>5, Zenon DEF Units, InSku
<1>7. GoodAt(mem', s)
  <2>1. Cardinality({}) = 0
    BY Zenon DEF UnitCounting
  <2>2. /\ mem'.stock[s].available = Capacity[s]
        /\ mem'.stock[s].reserved = 0 /\ mem'.stock[s].sold = 0 /\ mem'.stock[s] # Absent
    BY <1>1, <1>4
  <2>3. mem'.stock[s].available + mem'.stock[s].reserved + mem'.stock[s].sold = Capacity[s]
        /\ mem'.stock[s].available >= 0
    BY <1>1, <2>2
  <2> QED
    BY <1>6, <2>1, <2>2, <2>3, Zenon DEF GoodAt
<1> HIDE DEF st
<1> QED
  BY <1>1, <1>2, <1>7, BeginGood, Zenon

\* reserveStock takes what is available, and no more.
LEMMA ReserveGood ==
  ASSUME UnitCounting, SyncInv, LedgerInv, NEW t \in Threads, NEW s \in Skus, NEW q \in 1..MaxQty,
         NEW o \in Ops, reserveStock(t, s, q, o)
  PROVE  LedgerInv'
<1> DEFINE r == [sku |-> s, quantity |-> q, state |-> "Reserved"]
           st == Moved(mem.stock[s], -q, q, 0)
<1>1. CASE UNCHANGED <<phase, mem, data, logged, failed, call, write, sales>>
  BY <1>1, Zenon DEF LedgerInv
<1>2. CASE /\ mem.resv[o] = Absent /\ mem.stock[s] # Absent
           /\ mem.stock[s].available >= q
           /\ Begin(t, "reserve", s, st, o, r)
  <2>1. /\ mem \in Ledgers /\ mem.stock[s] \in Stock /\ q \in Int /\ -q \in Int
        /\ o # Absent /\ phase = "up"
    BY <1>2, InventoryAssumption DEF SyncInv, TypeOK, Ledgers, reserveStock, Idle
  <2>2. st \in Stock
    BY <2>1, MovedType
  <2>3. /\ r \in Reservation /\ r.sku = s /\ r.quantity = q /\ r.state = "Reserved"
        /\ r # Absent
    BY InventoryAssumption DEF Reservation, States
  <2>4. mem' = Put(mem, s, st, o, r)
    BY <1>2, Zenon DEF Begin
  <2> HIDE DEF r
  <2>5. /\ mem' \in Ledgers /\ mem'.stock[s] = st /\ mem'.resv[o] = r
        /\ BatchOf(mem, mem', s, o)
    <3> HIDE DEF st
    <3> QED
      BY <1>2, <2>1, <2>2, <2>3, <2>4, PutBatch
  <2>6. Gain("Reserved", mem.resv[o], r) = q /\ Gain("Confirmed", mem.resv[o], r) = 0
    BY <1>2, <2>3, Gains, Zenon
  <2>7. mem.stock[s].available + (-q) >= 0
    BY <1>2, <2>1 DEF Stock
  <2>8. GoodAt(mem', s)
    <3>0. PICK a \in Int : a = -q
      BY <2>1, Zenon
    <3>1. mem'.stock[s] = Moved(mem.stock[s], a, Gain("Reserved", mem.resv[o], r),
                                Gain("Confirmed", mem.resv[o], r))
      BY <2>5, <2>6, <3>0, Zenon
    <3>2. a + Gain("Reserved", mem.resv[o], r) + Gain("Confirmed", mem.resv[o], r) = 0
      BY <2>1, <2>6, <3>0
    <3>3. GoodAt(mem, s) /\ mem.stock[s].available + a >= 0
      BY <2>1, <2>7, <3>0, Zenon DEF LedgerInv, Good
    <3>4. mem.resv[o] # Absent => SameHold(r, mem.resv[o])
      BY <1>2, Zenon
    <3> HIDE DEF st
    <3> QED
      BY <1>2, <2>1, <2>3, <2>5, <3>1, <3>2, <3>3, <3>4, GoodMoved, Zenon
  <2> HIDE DEF st
  <2> QED
    BY <1>2, <2>1, <2>2, <2>3, <2>8, BeginGood, Zenon
<1> QED
  BY <1>1, <1>2, Zenon DEF reserveStock

\* The four transitions: what leaves one state of the reservation enters
\* another, and nothing is taken from the available stock but by rollbackRelease.
LEMMA TransitionGood ==
  ASSUME UnitCounting, SyncInv, LedgerInv, NEW t \in Threads, NEW kind, NEW from \in States, NEW to \in States,
         NEW a \in Int, NEW b \in Int, NEW c \in Int, a + b + c = 0,
         b = (IF to = "Reserved" THEN Quantity(t) ELSE 0)
               - (IF from = "Reserved" THEN Quantity(t) ELSE 0),
         c = (IF to = "Confirmed" THEN Quantity(t) ELSE 0)
               - (IF from = "Confirmed" THEN Quantity(t) ELSE 0),
         "rollbackRelease" \notin Kinds => a >= 0,
         Transition(t, kind, from, to, Moved(StockOf(t), a, b, c))
  PROVE  LedgerInv'
<1> DEFINE o == call[t].op
           s == call[t].sku
           r == [mem.resv[o] EXCEPT !.state = to]
           st == Moved(StockOf(t), a, b, c)
<1>1. phase = "up" /\ call[t] # Absent
  BY Zenon DEF Transition
<1>2. o \in Ops /\ s \in Skus /\ o # Absent
  BY <1>1, InventoryAssumption, Zenon DEF SyncInv, TypeOK, Calls
<1>3. o \in acked /\ mem.resv[o].sku = s
  BY <1>1, Zenon DEF SyncInv, CallOK
<1>4. mem.resv[o] # Absent /\ mem.resv[o] \in Reservation /\ mem \in Ledgers
  BY <1>2, <1>3, Zenon DEF SyncInv, AckedOK, SameHold, TypeOK, Ledgers
<1>5. CASE StockOf(t) # Absent /\ mem.resv[o].state = from /\ Begin(t, kind, s, st, o, r)
  <2>1. /\ r \in Reservation /\ r.sku = s /\ r.quantity = mem.resv[o].quantity
        /\ r.state = to /\ mem.resv[o].quantity = Quantity(t)
    BY <1>3, <1>4, Zenon DEF Reservation, Quantity
  <2>2. r # Absent /\ SameHold(r, mem.resv[o])
    BY <1>3, <2>1, InventoryAssumption, Zenon DEF SameHold
  <2>3. mem.stock[s] \in Stock /\ mem.stock[s] # Absent /\ StockOf(t) = mem.stock[s]
    BY <1>2, <1>4, <1>5, Zenon DEF Ledgers, StockOf
  <2>4. st \in Stock
    BY <2>3, MovedType, Zenon
  <2>5. mem' = Put(mem, s, st, o, r)
    BY <1>5, Zenon DEF Begin
  <2> HIDE DEF r, st
  <2>6. /\ mem' \in Ledgers /\ mem'.stock[s] = st /\ mem'.resv[o] = r
        /\ BatchOf(mem, mem', s, o)
    <3> HIDE DEF o, s
    <3>1. /\ Put(mem, s, st, o, r) \in Ledgers
          /\ Put(mem, s, st, o, r).stock[s] = st /\ Put(mem, s, st, o, r).resv[o] = r
          /\ BatchOf(mem, Put(mem, s, st, o, r), s, o)
      BY <1>2, <1>3, <1>4, <2>1, <2>4, PutBatch, SMTT(30)
    <3> QED
      BY <2>5, <3>1, Zenon
  <2>7. Gain("Reserved", mem.resv[o], r) = b /\ Gain("Confirmed", mem.resv[o], r) = c
    BY <1>4, <1>5, <2>1, Zenon DEF Gain
  <2>8. GoodAt(mem, s)
    BY <1>1, <1>2, Zenon DEF LedgerInv, Good
  <2>9. "rollbackRelease" \notin Kinds => mem.stock[s].available + a >= 0
    <3>1. mem.stock[s].available \in Int
      BY <2>3, SMTT(30) DEF Stock
    <3>2. "rollbackRelease" \notin Kinds => mem.stock[s].available >= 0
      BY <2>3, <2>8, Zenon DEF GoodAt
    <3>3. \A x \in Int : x >= 0 /\ a >= 0 => x + a >= 0
      OBVIOUS
    <3> QED
      BY <3>1, <3>2, <3>3, Zenon
  <2>10. mem'.stock[s] = Moved(mem.stock[s], a, Gain("Reserved", mem.resv[o], r),
                               Gain("Confirmed", mem.resv[o], r))
    BY <2>3, <2>6, <2>7, SMTT(30) DEF st
  <2>11. a + Gain("Reserved", mem.resv[o], r) + Gain("Confirmed", mem.resv[o], r) = 0
    BY <2>7, Zenon
  <2>12. GoodAt(mem', s)
    <3> HIDE DEF o, s
    <3> QED
      BY <1>2, <1>4, <2>1, <2>2, <2>3, <2>6, <2>8, <2>9, <2>10, <2>11, GoodMoved, ZenonT(30)
  <2> HIDE DEF o, s
  <2> QED
    BY <1>1, <1>2, <1>3, <1>5, <2>1, <2>2, <2>4, <2>12, BeginGood, Zenon
<1>6. CASE UNCHANGED <<phase, mem, data, logged, failed, write, acked>>
  BY <1>6, Zenon DEF LedgerInv
<1> QED
  BY <1>5, <1>6, Zenon DEF Transition

\* Every call of a thread, when no stock is repaired.
LEMMA CallGood ==
  ASSUME UnitCounting, SyncInv, LedgerInv, Repairs = {}, NEW t \in Threads, Call(t)
  PROVE  LedgerInv'
<1>1. ASSUME call[t] # Absent PROVE Quantity(t) \in Nat
  <2>1. call[t].op \in Ops /\ call[t].op \in acked
    BY <1>1, Zenon DEF SyncInv, TypeOK, CallOK, Calls
  <2>2. mem.resv[call[t].op] \in Reservation
    BY <2>1, Zenon DEF SyncInv, AckedOK, SameHold, TypeOK, Ledgers
  <2> QED
    BY <2>2, InventoryAssumption DEF Reservation, Quantity
<1>2. CASE \E s \in Skus : addSku(t, s)
  BY <1>2, AddSkuGood, Zenon
<1>3. CASE \E s \in Skus, q \in 1..MaxQty, o \in Ops : reserveStock(t, s, q, o)
  BY <1>3, ReserveGood, Zenon
<1>4. CASE \E kind \in Kinds, o \in Ops : lookUp(t, kind, o)
  BY <1>4, Zenon DEF lookUp, LedgerInv
<1>5. CASE confirmStock(t)
  <2>1. Quantity(t) \in Nat /\ Transition(t, "confirm", "Reserved", "Confirmed",
                                 Moved(StockOf(t), 0, -Quantity(t), Quantity(t)))
    BY <1>1, <1>5, Zenon DEF confirmStock, Transition
  <2>3. /\ 0 \in Int /\ -Quantity(t) \in Int /\ Quantity(t) \in Int /\ 0 + -Quantity(t) + Quantity(t) = 0
        /\ -Quantity(t) = (IF "Confirmed" = "Reserved" THEN Quantity(t) ELSE 0)
               - (IF "Reserved" = "Reserved" THEN Quantity(t) ELSE 0)
        /\ Quantity(t) = (IF "Confirmed" = "Confirmed" THEN Quantity(t) ELSE 0)
               - (IF "Reserved" = "Confirmed" THEN Quantity(t) ELSE 0)
        /\ "rollbackRelease" \notin Kinds => 0 >= 0
    BY <2>1
  <2>4. "Reserved" \in States /\ "Confirmed" \in States
    BY Zenon DEF States
  <2> QED
    BY <2>1, <2>3, <2>4, TransitionGood, Zenon
<1>6. CASE releaseStock(t)
  <2>1. Quantity(t) \in Nat /\ Transition(t, "release", "Reserved", "Released",
                                 Moved(StockOf(t), Quantity(t), -Quantity(t), 0))
    BY <1>1, <1>6, Zenon DEF releaseStock, Transition
  <2>3. /\ Quantity(t) \in Int /\ -Quantity(t) \in Int /\ 0 \in Int /\ Quantity(t) + -Quantity(t) + 0 = 0
        /\ -Quantity(t) = (IF "Released" = "Reserved" THEN Quantity(t) ELSE 0)
               - (IF "Reserved" = "Reserved" THEN Quantity(t) ELSE 0)
        /\ 0 = (IF "Released" = "Confirmed" THEN Quantity(t) ELSE 0)
               - (IF "Reserved" = "Confirmed" THEN Quantity(t) ELSE 0)
        /\ "rollbackRelease" \notin Kinds => Quantity(t) >= 0
    BY <2>1
  <2>4. "Reserved" \in States /\ "Released" \in States
    BY Zenon DEF States
  <2> QED
    BY <2>1, <2>3, <2>4, TransitionGood, Zenon
<1>7. CASE rollbackConfirmation(t)
  <2>1. Quantity(t) \in Nat /\ Transition(t, "rollbackConfirmation", "Confirmed", "Reserved",
                                 Moved(StockOf(t), 0, Quantity(t), -Quantity(t)))
    BY <1>1, <1>7, Zenon DEF rollbackConfirmation, Transition
  <2>3. /\ 0 \in Int /\ Quantity(t) \in Int /\ -Quantity(t) \in Int /\ 0 + Quantity(t) + -Quantity(t) = 0
        /\ Quantity(t) = (IF "Reserved" = "Reserved" THEN Quantity(t) ELSE 0)
               - (IF "Confirmed" = "Reserved" THEN Quantity(t) ELSE 0)
        /\ -Quantity(t) = (IF "Reserved" = "Confirmed" THEN Quantity(t) ELSE 0)
               - (IF "Confirmed" = "Confirmed" THEN Quantity(t) ELSE 0)
        /\ "rollbackRelease" \notin Kinds => 0 >= 0
    BY <2>1
  <2>4. "Confirmed" \in States /\ "Reserved" \in States
    BY Zenon DEF States
  <2> QED
    BY <2>1, <2>3, <2>4, TransitionGood, Zenon
<1>8. CASE rollbackRelease(t)
  <2>1. Quantity(t) \in Nat /\ Transition(t, "rollbackRelease", "Released", "Reserved",
                                 Moved(StockOf(t), -Quantity(t), Quantity(t), 0))
    BY <1>1, <1>8, Zenon DEF rollbackRelease, Transition
  <2>2. "rollbackRelease" \in Kinds
    BY <2>1, Zenon DEF Transition, SyncInv, CallOK
  <2>3. /\ -Quantity(t) \in Int /\ Quantity(t) \in Int /\ 0 \in Int /\ -Quantity(t) + Quantity(t) + 0 = 0
        /\ Quantity(t) = (IF "Reserved" = "Reserved" THEN Quantity(t) ELSE 0)
               - (IF "Released" = "Reserved" THEN Quantity(t) ELSE 0)
        /\ 0 = (IF "Reserved" = "Confirmed" THEN Quantity(t) ELSE 0)
               - (IF "Released" = "Confirmed" THEN Quantity(t) ELSE 0)
        /\ "rollbackRelease" \notin Kinds => -Quantity(t) >= 0
    BY <2>1, <2>2
  <2>4. "Released" \in States /\ "Reserved" \in States
    BY Zenon DEF States
  <2> QED
    BY <2>1, <2>3, <2>4, TransitionGood, Zenon
<1> QED
  BY <1>2, <1>3, <1>4, <1>5, <1>6, <1>7, <1>8, Zenon DEF Call

-----------------------------------------------------------------------------
(* The end of a write.                                                     *)

\* Of the SKU a write has locked, memory and table differ in its own
\* reservation only.
LEMMA OtherOps ==
  ASSUME SyncInv, NEW t \in Threads, write[t] # Absent, NEW o \in Ops, o # write[t].op,
         InSku(mem, o, write[t].sku) \/ InSku(data, o, write[t].sku)
  PROVE  mem.resv[o] = data.resv[o]
<1>1. OpFree(o)
  <2> SUFFICES ASSUME NEW u \in Threads, write[u] # Absent, write[u].op = o PROVE FALSE
    BY Zenon DEF OpFree
  <2>1. write[u].op # Absent
    BY InventoryAssumption, Zenon
  <2>2. write[u].sku = write[t].sku
    BY <2>1, BusySku, Zenon DEF InSku
  <2> QED
    BY <2>2, Zenon DEF SyncInv, Locks
<1>2. Running
  BY WriteFacts, Zenon DEF Running
<1> QED
  BY <1>1, <1>2, Zenon DEF SyncInv, MemSync

\* The record brings the WAL's ledger to what memory says of the SKU.
LEMMA AppendGood ==
  ASSUME SyncInv, LedgerInv, NEW t \in Threads, appendWal(t)
  PROVE  LedgerInv'
<1>0. PICK w : w = write[t]
  BY Zenon
<1>1. w # Absent /\ w.wal = "pending" /\ UNCHANGED <<phase, mem, data>>
  BY <1>0, Zenon DEF appendWal
<1>2. /\ phase = "up" /\ w.sku \in Skus /\ w.stock \in Stock
      /\ w.op \in Ops \cup {Absent} /\ w.resv \in Reservation \cup {Absent}
      /\ WriteShape(w) /\ WriteSync(w) /\ WriteLogged(w)
      /\ mem \in Ledgers /\ logged \in Ledgers
  BY <1>0, <1>1, WriteFacts, Zenon DEF SyncInv, TypeOK
<1>3. logged' = Put(logged, w.sku, w.stock, w.op, w.resv)
  BY <1>0, Zenon DEF appendWal
<1>4. /\ logged' \in Ledgers /\ logged'.stock[w.sku] = w.stock
      /\ \A p \in Skus : p # w.sku => logged'.stock[p] = logged.stock[p]
      /\ w.op # Absent => logged'.resv[w.op] = w.resv
      /\ \A p \in Ops : p # w.op => logged'.resv[p] = logged.resv[p]
  BY <1>2, <1>3, InventoryAssumption, Zenon DEF Put, Ledgers
<1>5. ASSUME NEW o \in Ops, InSku(mem, o, w.sku) \/ InSku(logged', o, w.sku)
      PROVE  mem.resv[o] = logged'.resv[o]
  <2>1. CASE o = w.op
    BY <1>2, <1>4, <2>1, InventoryAssumption, Zenon DEF WriteSync
  <2>2. CASE o # w.op
    <3>1. InSku(mem, o, w.sku) \/ InSku(data, o, w.sku) => mem.resv[o] = data.resv[o]
      BY <1>0, <1>1, <2>2, OtherOps, SMTT(30)
    <3>2. InSku(logged, o, w.sku) \/ InSku(data, o, w.sku) => logged.resv[o] = data.resv[o]
      BY <1>1, <1>2, <2>2, SMTT(30) DEF WriteLogged
    <3> QED
      BY <1>4, <1>5, <2>2, <3>1, <3>2, Zenon DEF InSku
  <2> QED
    BY <2>1, <2>2, Zenon
<1>6. AgreeOn(mem, logged', w.sku)
  BY <1>2, <1>4, <1>5, SMTT(30) DEF AgreeOn, InSku, WriteSync
<1>7. GoodAt(logged', w.sku)
  BY <1>2, <1>4, <1>6, GoodAgree, Zenon DEF LedgerInv, Good
<1>8. BatchOf(logged, logged', w.sku, w.op)
  <2>1. w.op # Absent => /\ logged.resv[w.op] # Absent => InSku(logged, w.op, w.sku)
                         /\ w.resv # Absent /\ w.resv.sku = w.sku
    BY <1>0, <1>1, <1>2, BusySku, SMTT(30) DEF WriteShape
  <2> QED
    BY <1>4, <2>1, SMTT(30) DEF BatchOf, InSku
<1>9. Good(logged')
  BY <1>2, <1>4, <1>7, <1>8, BatchElsewhere, Zenon DEF LedgerInv
<1> QED
  BY <1>1, <1>9, Zenon DEF LedgerInv

\* Applying it brings the table there.
LEMMA PersistedGood ==
  ASSUME SyncInv, LedgerInv, NEW t \in Threads, persisted(t)
  PROVE  LedgerInv'
<1>0. PICK w : w = write[t]
  BY SMTT(30)
<1>1. w # Absent /\ w.wal = "logged" /\ UNCHANGED <<phase, mem, logged>>
  BY <1>0, Zenon DEF persisted
<1>2. /\ phase = "up" /\ w.sku \in Skus /\ w.stock \in Stock
      /\ w.op \in Ops \cup {Absent} /\ w.resv \in Reservation \cup {Absent}
      /\ WriteShape(w) /\ WriteSync(w) /\ mem \in Ledgers /\ data \in Ledgers
  BY <1>0, <1>1, WriteFacts, SMTT(30) DEF SyncInv, TypeOK
<1>3. data' = Put(data, w.sku, w.stock, w.op, w.resv)
  BY <1>0, Zenon DEF persisted
<1>4. /\ data' \in Ledgers /\ data'.stock[w.sku] = w.stock
      /\ \A p \in Skus : p # w.sku => data'.stock[p] = data.stock[p]
      /\ w.op # Absent => data'.resv[w.op] = w.resv
      /\ \A p \in Ops : p # w.op => data'.resv[p] = data.resv[p]
  BY <1>2, <1>3, InventoryAssumption, Zenon DEF Put, Ledgers
<1>5. ASSUME NEW o \in Ops, InSku(mem, o, w.sku) \/ InSku(data', o, w.sku)
      PROVE  mem.resv[o] = data'.resv[o]
  <2>1. CASE o = w.op
    BY <1>2, <1>4, <2>1, InventoryAssumption, Zenon DEF WriteSync
  <2>2. CASE o # w.op
    BY <1>0, <1>1, <1>4, <1>5, <2>2, OtherOps, Zenon DEF InSku
  <2> QED
    BY <2>1, <2>2, Zenon
<1>6. AgreeOn(mem, data', w.sku)
  BY <1>2, <1>4, <1>5, SMTT(30) DEF AgreeOn, InSku, WriteSync
<1>7. GoodAt(data', w.sku)
  BY <1>2, <1>4, <1>6, GoodAgree, SMTT(30) DEF LedgerInv, Good
<1>8. BatchOf(data, data', w.sku, w.op)
  <2>1. w.op # Absent => /\ data.resv[w.op] # Absent => InSku(data, w.op, w.sku)
                         /\ w.resv # Absent /\ w.resv.sku = w.sku
    <3>1. w.op # Absent => (data.resv[w.op] # Absent => InSku(data, w.op, w.sku))
      BY <1>0, <1>1, BusySku, Zenon
    <3>2. w.op # Absent => w.resv # Absent /\ w.resv.sku = w.sku
      BY <1>2, Zenon DEF WriteShape
    <3> QED
      BY <3>1, <3>2, Zenon
  <2> QED
    BY <1>4, <2>1, Zenon DEF BatchOf, InSku
<1>9. Good(data')
  BY <1>2, <1>4, <1>7, <1>8, BatchElsewhere, Zenon DEF LedgerInv
<1> QED
  BY <1>1, <1>9, Zenon DEF LedgerInv

\* An undo brings memory back to what the table says of the SKU.
LEMMA FailedGood ==
  ASSUME SyncInv, LedgerInv, NEW t \in Threads, persistFailed(t)
  PROVE  LedgerInv'
<1>0. PICK w : w = write[t]
  BY Zenon
<1>1. w # Absent /\ UNCHANGED <<phase, data, logged>>
  BY <1>0, Zenon DEF persistFailed
<1>2. /\ phase = "up" /\ w.sku \in Skus /\ w.oldStock \in Stock \cup {Absent}
      /\ w.op \in Ops \cup {Absent} /\ w.oldResv \in Reservation \cup {Absent}
      /\ WriteShape(w) /\ WriteSync(w) /\ mem \in Ledgers /\ data \in Ledgers
  BY <1>0, <1>1, WriteFacts, Zenon DEF SyncInv, TypeOK
<1>3. mem' = Put(mem, w.sku, w.oldStock, w.op, w.oldResv)
  BY <1>0, <1>1, UndoneIsOld, SMTT(30) DEF persistFailed
<1>4. /\ mem' \in Ledgers /\ mem'.stock[w.sku] = w.oldStock
      /\ \A p \in Skus : p # w.sku => mem'.stock[p] = mem.stock[p]
      /\ w.op # Absent => mem'.resv[w.op] = w.oldResv
      /\ \A p \in Ops : p # w.op => mem'.resv[p] = mem.resv[p]
  BY <1>2, <1>3, InventoryAssumption, Zenon DEF Put, Ledgers
<1>5. ASSUME NEW o \in Ops, InSku(data, o, w.sku) \/ InSku(mem', o, w.sku)
      PROVE  data.resv[o] = mem'.resv[o]
  <2>1. CASE o = w.op
    BY <1>2, <1>4, <2>1, InventoryAssumption, Zenon DEF WriteSync
  <2>2. CASE o # w.op
    BY <1>0, <1>1, <1>4, <1>5, <2>2, OtherOps, SMTT(30) DEF InSku
  <2> QED
    BY <2>1, <2>2, Zenon
<1>6. AgreeOn(data, mem', w.sku)
  BY <1>2, <1>4, <1>5, SMTT(30) DEF AgreeOn, InSku, WriteSync
<1>7. GoodAt(mem', w.sku)
  BY <1>2, <1>4, <1>6, GoodAgree, Zenon DEF LedgerInv, Good
<1>8. BatchOf(mem, mem', w.sku, w.op)
  <2>1. w.op # Absent =>
          /\ InSku(mem, w.op, w.sku)
          /\ w.oldResv # Absent => w.oldResv.sku = w.sku
    BY <1>0, <1>1, <1>2, BusySku, SMTT(30) DEF WriteShape, SameHold
  <2> QED
    BY <1>4, <2>1, SMTT(30) DEF BatchOf, InSku
<1>9. Good(mem')
  BY <1>2, <1>4, <1>7, <1>8, BatchElsewhere, Zenon DEF LedgerInv
<1> QED
  BY <1>1, <1>9, Zenon DEF LedgerInv

-----------------------------------------------------------------------------
(* Restart.                                                                *)

\* The release of the orphans gives back exactly the units it takes from the
\* reserved ones.
LEMMA ReleasedGood ==
  ASSUME UnitCounting, NEW L \in Ledgers, Good(L), NEW gone \in SUBSET Ops,
         \A o \in gone : L.resv[o] # Absent /\ L.resv[o].state = "Reserved"
  PROVE  Good(Released(L, gone))
<1> DEFINE R == Released(L, gone)
<1>1. /\ \A o \in Ops : o \notin gone => R.resv[o] = L.resv[o]
      /\ \A o \in gone : /\ R.resv[o] # Absent /\ R.resv[o].sku = L.resv[o].sku
                         /\ R.resv[o].state = "Released"
      /\ R \in Ledgers
  BY ReleasedFacts
<1> SUFFICES ASSUME NEW s \in Skus PROVE GoodAt(R, s)
  BY Zenon DEF Good
<1> DEFINE U == Units(L, s, "Reserved")
           G == {u \in U : u[1] \in gone}
           n == Cardinality(G)
<1>2. R.stock[s] = IF L.stock[s] = Absent THEN Absent ELSE Moved(L.stock[s], n, -n, 0)
  BY Zenon DEF Released
<1> HIDE DEF R
<1>3. CASE L.stock[s] = Absent
  <2>1. \A o \in Ops : ~InSku(L, o, s)
    BY <1>3, Zenon DEF Good, GoodAt
  <2>2. \A o \in Ops : ~InSku(R, o, s)
    BY <1>1, <2>1, Zenon DEF InSku
  <2> QED
    BY <1>2, <1>3, <2>2, SMTT(30) DEF GoodAt
<1>4. CASE L.stock[s] # Absent
  <2>1. Units(R, s, "Reserved") = U \ G
    BY <1>1 DEF Units
  <2>2. Units(R, s, "Confirmed") = Units(L, s, "Confirmed")
    BY <1>1 DEF Units
  <2>3. U \in SUBSET (Ops \X (1..MaxQty)) /\ G \subseteq U
    BY Zenon DEF Units
  <2> HIDE DEF U, G
  <2>4. Cardinality(U) = Cardinality(U \ G) + n
    <3>1. (U \ G) \cup G = U /\ (U \ G) \cap G = {}
      BY <2>3, Zenon
    <3> QED
      BY <2>3, <3>1 DEF UnitCounting
  <2>5. n \in Nat /\ Cardinality(U \ G) \in Nat /\ Cardinality(U) \in Nat
    BY <2>3, Zenon DEF UnitCounting
  <2> HIDE DEF n
  <2>6. /\ R.stock[s].available = L.stock[s].available + n
        /\ R.stock[s].reserved = L.stock[s].reserved + (-n)
        /\ R.stock[s].sold = L.stock[s].sold + 0
    BY <1>2, <1>4 DEF Moved
  <2>7. L.stock[s] \in Stock /\ Capacity[s] \in Int
    BY <1>4, InventoryAssumption DEF Ledgers
  <2>8. /\ L.stock[s].available \in Int /\ L.stock[s].reserved \in Int
        /\ L.stock[s].sold \in Int
    BY <2>7, SMTT(30) DEF Stock
  <2>9. /\ L.stock[s].reserved = Cardinality(U)
        /\ L.stock[s].sold = Cardinality(Units(L, s, "Confirmed"))
        /\ L.stock[s].available + L.stock[s].reserved + L.stock[s].sold = Capacity[s]
        /\ "rollbackRelease" \notin Kinds => L.stock[s].available >= 0
    BY <1>4, Zenon DEF Good, GoodAt, U
  <2>10. R.stock[s].reserved = Cardinality(Units(R, s, "Reserved"))
    <3> DEFINE k == Cardinality(U \ G)
    <3>1. k \in Nat /\ n \in Nat /\ R.stock[s].reserved = (k + n) + (-n)
      BY <2>4, <2>5, <2>6, <2>9, Zenon
    <3> HIDE DEF k
    <3>2. R.stock[s].reserved = k
      BY <3>1
    <3> QED
      BY <2>1, <3>2, Zenon DEF k
  <2>11. R.stock[s].sold = Cardinality(Units(R, s, "Confirmed"))
    BY <2>2, <2>6, <2>8, <2>9, SMTT(30)
  <2>12. R.stock[s].available + R.stock[s].reserved + R.stock[s].sold = Capacity[s]
    BY <2>5, <2>6, <2>7, <2>8, <2>9, SMTT(30)
  <2>13. "rollbackRelease" \notin Kinds => R.stock[s].available >= 0
    BY <2>5, <2>6, <2>8, <2>9
  <2>14. R.stock[s] # Absent
    <3>1. Moved(L.stock[s], n, -n, 0) \in Stock
      BY <2>5, <2>7, MovedType
    <3> QED
      BY <1>2, <1>4, <3>1, InventoryAssumption, Zenon
  <2> QED
    BY <2>10, <2>11, <2>12, <2>13, <2>14, Zenon DEF GoodAt
<1> QED
  BY <1>3, <1>4, Zenon

\* Nothing is wrong with an empty ledger.
LEMMA EmptyGood == Good(EmptyLedger)
<1> SUFFICES ASSUME NEW s \in Skus PROVE GoodAt(EmptyLedger, s)
  BY Zenon DEF Good
<1> QED
  BY Zenon DEF GoodAt, EmptyLedger, InSku

\* The steps of the process as a whole.
LEMMA ProcessGood ==
  ASSUME UnitCounting, SyncInv, LedgerInv,
         \/ snapshot \/ crash \/ restore
         \/ \E active \in SUBSET Ops :
              releaseOrphanReservations(active) \/ releaseOrphansFailed(active)
  PROVE  LedgerInv'
<1>1. CASE snapshot
  BY <1>1, Zenon DEF snapshot, LedgerInv
<1>2. CASE crash
  BY <1>2, EmptyGood, Zenon DEF crash, LedgerInv
<1>3. CASE restore
  BY <1>3, Zenon DEF restore, LedgerInv
<1>4. ASSUME NEW active \in SUBSET Ops,
             releaseOrphanReservations(active) \/ releaseOrphansFailed(active)
      PROVE  LedgerInv'
  <2> DEFINE gone == Orphans(active)
  <2>1. gone \in SUBSET Ops /\ \A o \in gone : mem.resv[o] # Absent /\ mem.resv[o].state = "Reserved"
    BY Zenon DEF Orphans
  <2>2. mem \in Ledgers /\ phase = "restoring"
    BY <1>4, Zenon DEF SyncInv, TypeOK, releaseOrphanReservations, releaseOrphansFailed
  <2> HIDE DEF gone
  <2>3. Good(Released(mem, gone))
    BY <2>1, <2>2, ReleasedGood, Zenon DEF LedgerInv
  <2>4. CASE releaseOrphanReservations(active)
    BY <2>3, <2>4, Zenon DEF releaseOrphanReservations, LedgerInv, gone
  <2>5. CASE releaseOrphansFailed(active)
    BY <2>3, <2>5, Zenon DEF releaseOrphansFailed, LedgerInv, gone
  <2> QED
    BY <1>4, <2>4, <2>5, Zenon
<1> QED
  BY <1>1, <1>2, <1>3, <1>4, Zenon

\* The empty store.
LEMMA InitGood == Init => LedgerInv
  BY EmptyGood, Zenon DEF Init, LedgerInv

\* LedgerInv is preserved, given SyncInv.
LEMMA NextGood ==
  ASSUME UnitCounting, Repairs = {}
  PROVE  SyncInv /\ LedgerInv /\ [Next]_vars => LedgerInv'
<1> SUFFICES ASSUME SyncInv, LedgerInv, [Next]_vars PROVE LedgerInv'
  BY Zenon
<1>1. CASE \E t \in Threads : Call(t) \/ appendWal(t) \/ persisted(t) \/ persistFailed(t)
  BY <1>1, CallGood, AppendGood, PersistedGood, FailedGood, Zenon
<1>2. CASE \/ snapshot \/ crash \/ restore
           \/ \E active \in SUBSET Ops :
                releaseOrphanReservations(active) \/ releaseOrphansFailed(active)
  BY <1>2, ProcessGood, Zenon
<1>3. CASE UNCHANGED vars
  BY <1>3, Zenon DEF vars, LedgerInv
<1> QED
  BY <1>1, <1>2, <1>3, Zenon DEF Next

\* What Good says, in the words of validateInvariants.
LEMMA GoodValid ==
  ASSUME UnitCounting, "rollbackRelease" \notin Kinds, NEW L \in Ledgers, Good(L)
  PROVE  validateInvariants(L) /\ Conserved(L)
<1>1. ASSUME NEW s \in Skus, L.stock[s] # Absent
      PROVE  /\ L.stock[s].available >= 0
             /\ L.stock[s].reserved = Cardinality(Units(L, s, "Reserved"))
             /\ L.stock[s].sold = Cardinality(Units(L, s, "Confirmed"))
             /\ L.stock[s].available + L.stock[s].reserved + L.stock[s].sold = Capacity[s]
  BY <1>1, Zenon DEF Good, GoodAt
<1>2. ASSUME NEW s \in Skus, L.stock[s] # Absent
      PROVE  L.stock[s].reserved >= 0 /\ L.stock[s].sold >= 0
  <2>1. /\ Units(L, s, "Reserved") \in SUBSET (Ops \X (1..MaxQty))
        /\ Units(L, s, "Confirmed") \in SUBSET (Ops \X (1..MaxQty))
    BY Zenon DEF Units
  <2>2. /\ Cardinality(Units(L, s, "Reserved")) \in Nat
        /\ Cardinality(Units(L, s, "Confirmed")) \in Nat
    BY <2>1, Zenon DEF UnitCounting
  <2> QED
    BY <1>1, <1>2, <2>2
<1>3. ASSUME NEW o \in Ops, L.resv[o] # Absent PROVE L.stock[L.resv[o].sku] # Absent
  <2>1. L.resv[o].sku \in Skus
    BY <1>3, Zenon DEF Ledgers, Reservation
  <2> QED
    BY <1>3, <2>1, Zenon DEF Good, GoodAt, InSku
<1> QED
  BY <1>1, <1>2, <1>3, Zenon DEF validateInvariants, NonNegative, TotalsMatch, Conserved

-----------------------------------------------------------------------------
(* The theorems.                                                           *)

INSTANCE FiniteSetTheorems

\* There are finitely many units, so that they can be counted.
LEMMA UnitsFinite ==
  ASSUME NEW T \in SUBSET (Ops \X (1..MaxQty))
  PROVE  IsFiniteSet(T) /\ Cardinality(T) \in Nat
<1>1. IsFiniteSet(1..MaxQty)
  BY FS_Interval, InventoryAssumption
<1>2. IsFiniteSet(Ops \X (1..MaxQty))
  BY <1>1, FS_Product, InventoryAssumption, Zenon
<1>3. IsFiniteSet(T)
  BY <1>2, FS_Subset, Zenon
<1> QED
  BY <1>3, FS_CardinalityType, Zenon

\* The facts about sets of units that the steps rest on.
LEMMA UnitsCount == UnitCounting
<1>1. Cardinality({}) = 0
  BY FS_EmptySet, Zenon
<1>2. ASSUME NEW S \in SUBSET (Ops \X (1..MaxQty)), NEW T \in SUBSET (Ops \X (1..MaxQty)),
             S \cap T = {}
      PROVE  Cardinality(S \cup T) = Cardinality(S) + Cardinality(T)
  <2>1. IsFiniteSet(S) /\ IsFiniteSet(T) /\ Cardinality(S) \in Nat /\ Cardinality(T) \in Nat
    BY UnitsFinite, Zenon
  <2>2. Cardinality(S \cup T) = Cardinality(S) + Cardinality(T) - Cardinality(S \cap T)
    BY <2>1, FS_Union, Zenon
  <2>3. Cardinality(S \cap T) = 0
    BY <1>1, <1>2, Zenon
  <2> QED
    BY <2>1, <2>2, <2>3
<1>3. ASSUME NEW o \in Ops, NEW q \in 1..MaxQty
      PROVE  Cardinality({o} \X (1..q)) = q
  <2>1. q \in Nat /\ q >= 1
    BY InventoryAssumption
  <2>2. IsFiniteSet(1..q) /\ Cardinality(1..q) = q
    BY <2>1, FS_Interval
  <2>3. IsFiniteSet({o}) /\ Cardinality({o}) = 1
    BY FS_Singleton, Zenon
  <2>4. Cardinality({o} \X (1..q)) = 1 * q
    BY <2>2, <2>3, FS_Product
  <2> QED
    BY <2>1, <2>4
<1> QED
  BY <1>1, <1>2, <1>3, UnitsFinite, Zenon DEF UnitCounting

\* The three ledgers stay in step, whatever fails and whenever the process dies.
THEOREM LedgersInStep == Spec => []SyncInv
<1>1. SyncInv /\ [Next]_vars => SyncInv'
  BY UnitsCount, NextSync, Zenon
<1> QED
  BY <1>1, InitSync, PTL DEF Spec

\* Type correctness of the inventory model.
THEOREM InventoryTypes == Spec => []TypeOK
<1>1. SyncInv => TypeOK
  BY Zenon DEF SyncInv
<1> QED
  BY <1>1, LedgersInStep, PTL

\* Every failed write has been undone completely when its lock is given back:
\* where no call is under way, memory says what the engine's table says.
THEOREM UndoIsComplete == Spec => []MemoryMatchesStore
  BY SyncUndone, LedgersInStep, PTL

\* A reservation that was answered Ok is in memory, in the table and in what a
\* restart rebuilds, with the SKU and the quantity it was made for.
THEOREM AckedIsKept == Spec => []AckedReservationKept
  BY SyncKeeps, LedgersInStep, PTL

\* Unless somebody rolls confirmations back, a sale whose confirmation was
\* answered Ok survives every crash, every failed write and every snapshot.
THEOREM SalesAreDurable ==
  ASSUME "rollbackConfirmation" \notin Kinds
  PROVE  Spec => []SaleSurvives
<1>1. Init => SaleInv
  BY Zenon DEF Init, SaleInv, Sold, EmptyLedger
<1>2. SyncInv /\ SaleInv /\ [Next]_vars => SaleInv'
  BY UnitsCount, NextSale, Zenon
<1>3. SyncInv /\ SaleInv => SaleSurvives
  BY Zenon DEF SaleInv, SaleSurvives, Sold
<1> QED
  BY <1>1, <1>2, <1>3, LedgersInStep, PTL DEF Spec

\* Whatever the interleaving of calls, failures of writes, snapshots and
\* crashes: as long as nobody calls rollbackRelease or repairs a stock, the
\* ledger in memory passes validateInvariants and no unit is created or lost.
THEOREM LedgerAlwaysValid ==
  ASSUME Repairs = {}, "rollbackRelease" \notin Kinds
  PROVE  Spec => []LedgerValid
<1>1. SyncInv /\ LedgerInv => LedgerValid
  BY UnitsCount, GoodValid, Zenon DEF SyncInv, TypeOK, LedgerInv, LedgerValid
<1>2. SyncInv /\ LedgerInv /\ [Next]_vars => LedgerInv'
  BY UnitsCount, NextGood, Zenon
<1> QED
  BY <1>1, <1>2, InitGood, LedgersInStep, PTL DEF Spec

\* Under the same conditions a restart never finds a ledger it must refuse.
THEOREM AlwaysRecoverable ==
  ASSUME Repairs = {}, "rollbackRelease" \notin Kinds
  PROVE  Spec => []RecoverableLedger
<1>1. SyncInv /\ LedgerInv => RecoverableLedger
  BY UnitsCount, GoodValid, Zenon DEF SyncInv, TypeOK, LedgerInv, RecoverableLedger
<1>2. SyncInv /\ LedgerInv /\ [Next]_vars => LedgerInv'
  BY UnitsCount, NextGood, Zenon
<1> QED
  BY <1>1, <1>2, InitGood, LedgersInStep, PTL DEF Spec

=============================================================================
