-------------------------- MODULE FlashSalePipeline --------------------------
(***************************************************************************)
(* The flash sale from the HTTP request to the sold unit, in the local     *)
(* configuration: admission gate, inventory, in-memory order queue,        *)
(* consumer workers, OrderService as the order repository, file outbox.    *)
(*                                                                         *)
(* One promotion over one SKU, as main sets up.  The order id is made of   *)
(* promotion and user, so a user stands for the order and the inventory    *)
(* operation as well.  The inventory and the orders live in one engine:    *)
(*   mem   reservations and orders of the services;                        *)
(*   disk  what a restart rebuilds them from.                              *)
(* InventoryService shows that the stock counters are the sums of the      *)
(* reservations and that each call takes effect at once or not at all; the *)
(* counters are therefore not kept here, and each call is one step.        *)
(***************************************************************************)
EXTENDS Integers, FiniteSets, Sequences

CONSTANTS
  Users, Keys,     \* who submits, with which idempotency keys
  Http, Workers,   \* the threads that serve requests, and the consumers
  MaxQty,          \* bound: the largest quantity of one request
  Capacity,        \* the stock of the SKU
  Quota,           \* participant_limit of the promotion
  QueueLimit,      \* of the order queue and of the dead-letter queue
  MaxAttempts,     \* of a consumer, for one message
  Absent

Message == [user: Users, key: Keys, qty: 1..MaxQty]

Order == [key: Keys, qty: 1..MaxQty]

Reservation == [qty: 1..MaxQty, state: {"Reserved", "Confirmed", "Released"}]

ASSUME PipelineAssumption ==
  /\ IsFiniteSet(Users)
  /\ {MaxQty, Capacity, Quota, QueueLimit, MaxAttempts} \subseteq Nat \ {0}
  /\ Absent \notin Order \cup Reservation \cup Message

VARIABLES
  phase,    \* of the process: up or down
  gate,     \* the promotion's gate: its state, its users, how many it admitted
  mem, disk,
  failed,   \* the engine's writer_error_
  outbox,   \* the users whose OrderCreated is in the outbox file
  queue, dead,   \* the order queue, and the length of the dead-letter queue
  http,     \* per thread: the request and the step submit is at
  work,     \* per worker: the message, the attempt and the step it is at
  done      \* history: users whose message was processed in this process

vars == <<phase, gate, mem, disk, failed, outbox, queue, dead, http, work, done>>

store == <<mem, disk, failed>>

Ledger == [resv: [Users -> Reservation \cup {Absent}],
           orders: [Users -> Order \cup {Absent}]]

NoMessage == [at |-> "idle", msg |-> Absent, attempt |-> 0]

State(L, u) == IF L.resv[u] = Absent THEN "none" ELSE L.resv[u].state

Reserve(L, u, r) == [L EXCEPT !.resv[u] = r]

PutOrder(L, u, o) == [L EXCEPT !.orders[u] = o]

\* available: what no reservation or sale holds.
Available(L) ==
  Capacity - Cardinality({x \in Users \X (1..MaxQty) :
                            /\ State(L, x[1]) \in {"Reserved", "Confirmed"}
                            /\ x[2] <= L.resv[x[1]].qty})

\* One write of a service to the engine, memory becoming m and the disk d.  A
\* failed write is undone in memory but may have reached the disk, and all the
\* writes after it are refused (local_kv_engine.cc submit, runWriter).
Persist(ok, m, d) ==
  \/ /\ ok /\ ~failed
     /\ mem' = m /\ disk' = d /\ failed' = failed
  \/ /\ ~ok
     /\ mem' = mem /\ failed' = TRUE
     /\ disk' \in IF failed THEN {disk} ELSE {disk, d}

-----------------------------------------------------------------------------
(* The gate.                                                               *)

Started == [state |-> "RUNNING", users |-> {}, admitted |-> 0]

Accepts(u) ==
  /\ gate.state = "RUNNING"
  /\ u \notin gate.users
  /\ gate.admitted < Quota

rollback(u) ==
  [gate EXCEPT !.users = @ \ {u},
               !.admitted = IF u \in gate.users /\ @ > 0 THEN @ - 1 ELSE @]

finish ==
  /\ phase = "up" /\ gate.state = "RUNNING"
  /\ gate' = [gate EXCEPT !.state = "FINISHED"]
  /\ UNCHANGED <<phase, store, outbox, queue, dead, http, work, done>>

-----------------------------------------------------------------------------
(* FlashSaleOrderService::submit, one step per component it calls.         *)

HttpAt(t, step) == phase = "up" /\ http[t].at = step

HttpTo(t, step) == http' = [http EXCEPT ![t].at = step]

HttpDone(t) == http' = [http EXCEPT ![t] = NoMessage]

\* tryAcquire.  A request that is not accepted is answered, nothing changes.
submit(t, m) ==
  /\ HttpAt(t, "idle")
  /\ Accepts(m.user)
  /\ gate' = [gate EXCEPT !.users = @ \cup {m.user}, !.admitted = @ + 1]
  /\ http' = [http EXCEPT ![t] = [at |-> "reserve", msg |-> m, attempt |-> 0]]
  /\ UNCHANGED <<phase, store, outbox, queue, dead, work, done>>

\* reserveStock of the order's operation: known with the same quantity it is Ok
\* in whatever state it is.
reserve(t) ==
  LET m == http[t].msg
      r == mem.resv[m.user]
      new == [qty |-> m.qty, state |-> "Reserved"]
  IN  /\ HttpAt(t, "reserve")
      /\ \/ /\ r # Absent
            /\ HttpTo(t, IF r.qty = m.qty THEN "push" ELSE "rollback")
            /\ UNCHANGED store
         \/ /\ r = Absent /\ Available(mem) < m.qty
            /\ HttpTo(t, "rollback")
            /\ UNCHANGED store
         \/ /\ r = Absent /\ Available(mem) >= m.qty
            /\ \E ok \in BOOLEAN :
                 /\ Persist(ok, Reserve(mem, m.user, new), Reserve(disk, m.user, new))
                 /\ HttpTo(t, IF ok THEN "push" ELSE "rollback")
      /\ UNCHANGED <<phase, gate, outbox, queue, dead, work, done>>

\* Mutant: a message that found no room gives back its place but not its stock.
PushUncompensated(t) ==
  /\ HttpAt(t, "push")
  /\ \/ /\ Len(queue) < QueueLimit
        /\ queue' = Append(queue, http[t].msg)
        /\ HttpDone(t)
     \/ /\ Len(queue) >= QueueLimit
        /\ HttpTo(t, "rollback")
        /\ UNCHANGED queue
  /\ UNCHANGED <<phase, gate, store, outbox, dead, work, done>>

push(t) ==
  /\ HttpAt(t, "push")
  /\ \/ /\ Len(queue) < QueueLimit
        /\ queue' = Append(queue, http[t].msg)
        /\ HttpDone(t)
     \/ /\ Len(queue) >= QueueLimit
        /\ HttpTo(t, "release")
        /\ UNCHANGED queue
  /\ UNCHANGED <<phase, gate, store, outbox, dead, work, done>>

\* releaseStock: a confirmed reservation stays, a reserved one is given back if
\* the write succeeds.  Both callers ignore the result.
releaseStock(u) ==
  LET new == [mem.resv[u] EXCEPT !.state = "Released"]
  IN  IF State(mem, u) = "Reserved"
      THEN \E ok \in BOOLEAN : Persist(ok, Reserve(mem, u, new), Reserve(disk, u, new))
      ELSE UNCHANGED store

release(t) ==
  /\ HttpAt(t, "release")
  /\ releaseStock(http[t].msg.user)
  /\ HttpTo(t, "rollback")
  /\ UNCHANGED <<phase, gate, outbox, queue, dead, work, done>>

reject(t) ==
  /\ HttpAt(t, "rollback")
  /\ gate' = rollback(http[t].msg.user)
  /\ HttpDone(t)
  /\ UNCHANGED <<phase, store, outbox, queue, dead, work, done>>

-----------------------------------------------------------------------------
(* FlashSaleOrderConsumer::processOnce.                                    *)

WorkAt(w, step) == phase = "up" /\ work[w].at = step

WorkTo(w, step) == work' = [work EXCEPT ![w].at = step]

pop(w) ==
  /\ WorkAt(w, "idle") /\ queue # <<>>
  /\ work' = [work EXCEPT ![w] = [at |-> "persist", msg |-> Head(queue), attempt |-> 1]]
  /\ queue' = Tail(queue)
  /\ UNCHANGED <<phase, gate, store, outbox, dead, http, done>>

\* Mutant: the loop does not count its attempts.
RetryForever(w) == WorkTo(w, "persist")

\* process failed: the next attempt, or compensation after the last one.
Retry(w) ==
  work' = [work EXCEPT ![w] =
    IF work[w].attempt < MaxAttempts THEN [work[w] EXCEPT !.at = "persist", !.attempt = @ + 1]
    ELSE [work[w] EXCEPT !.at = "release"]]

SameKey(m) == {u \in Users : mem.orders[u] # Absent /\ mem.orders[u].key = m.key}

\* The mutex of OrderService is held from the look-up to the end of publish.
OrdersFree == \A w \in Workers : work[w].at # "publish"

\* Mutant: orders are told apart by their ids alone.
PersistUnkeyed(w) ==
  LET m == work[w].msg
      new == [key |-> m.key, qty |-> m.qty]
  IN  /\ WorkAt(w, "persist") /\ OrdersFree
      /\ \/ /\ mem.orders[m.user] # Absent
            /\ WorkTo(w, "confirm") /\ UNCHANGED store
         \/ /\ mem.orders[m.user] = Absent
            /\ \E ok \in BOOLEAN :
                 /\ Persist(ok, PutOrder(mem, m.user, new), PutOrder(disk, m.user, new))
                 /\ IF ok THEN WorkTo(w, "publish") ELSE Retry(w)
      /\ UNCHANGED <<phase, gate, outbox, queue, dead, http, done>>

\* createOrderAfterReservation up to the write of the order.  A known key is Ok
\* when the order is the same, and an error when it is not; so is a known order
\* id under a new key.
persistOrder(w) ==
  LET m == work[w].msg
      new == [key |-> m.key, qty |-> m.qty]
  IN  /\ WorkAt(w, "persist") /\ OrdersFree
      /\ \/ /\ SameKey(m) # {}
            /\ IF m.user \in SameKey(m) /\ mem.orders[m.user].qty = m.qty
               THEN WorkTo(w, "confirm") ELSE Retry(w)
            /\ UNCHANGED store
         \/ /\ SameKey(m) = {} /\ mem.orders[m.user] # Absent
            /\ Retry(w)
            /\ UNCHANGED store
         \/ /\ SameKey(m) = {} /\ mem.orders[m.user] = Absent
            /\ \E ok \in BOOLEAN :
                 /\ Persist(ok, PutOrder(mem, m.user, new), PutOrder(disk, m.user, new))
                 /\ IF ok THEN WorkTo(w, "publish") ELSE Retry(w)
      /\ UNCHANGED <<phase, gate, outbox, queue, dead, http, done>>

\* The event is appended to the outbox.  If that fails (the record may be in the
\* file all the same) the order is erased from memory, and from the engine if
\* the engine takes the deletion: its status is ignored.
publish(w) ==
  LET u == work[w].msg.user
      m == PutOrder(mem, u, Absent)
      d == PutOrder(disk, u, Absent)
  IN  /\ WorkAt(w, "publish")
      /\ \/ /\ outbox' = outbox \cup {u}
            /\ WorkTo(w, "confirm")
            /\ UNCHANGED store
         \/ /\ outbox' \in {outbox, outbox \cup {u}}
            /\ Retry(w)
            /\ mem' = m
            /\ \/ ~failed /\ disk' = d /\ failed' = failed
               \/ failed' = TRUE /\ disk' \in IF failed THEN {disk} ELSE {disk, d}
      /\ UNCHANGED <<phase, gate, queue, dead, http, done>>

\* Mutant: any reservation that is no longer reserved counts as confirmed.
ConfirmSettled(w) ==
  LET u == work[w].msg.user
      new == [mem.resv[u] EXCEPT !.state = "Confirmed"]
  IN  /\ WorkAt(w, "confirm")
      /\ \/ State(mem, u) # "Reserved" /\ UNCHANGED store
         \/ /\ State(mem, u) = "Reserved"
            /\ Persist(TRUE, Reserve(mem, u, new), Reserve(disk, u, new))
      /\ work' = [work EXCEPT ![w] = NoMessage]
      /\ done' = done \cup {u}
      /\ UNCHANGED <<phase, gate, outbox, queue, dead, http>>

\* confirmStock: Ok if confirmed already, an error if released or unknown.
confirm(w) ==
  LET u == work[w].msg.user
      new == [mem.resv[u] EXCEPT !.state = "Confirmed"]
      Processed == /\ work' = [work EXCEPT ![w] = NoMessage]
                   /\ done' = done \cup {u}
  IN  /\ WorkAt(w, "confirm")
      /\ \/ State(mem, u) = "Confirmed" /\ Processed /\ UNCHANGED store
         \/ State(mem, u) \in {"Released", "none"} /\ Retry(w) /\ UNCHANGED <<store, done>>
         \/ /\ State(mem, u) = "Reserved"
            /\ \E ok \in BOOLEAN :
                 /\ Persist(ok, Reserve(mem, u, new), Reserve(disk, u, new))
                 /\ IF ok THEN Processed ELSE Retry(w) /\ UNCHANGED done
      /\ UNCHANGED <<phase, gate, outbox, queue, dead, http>>

\* The dead-letter queue takes the message unless it is full, nobody reads it;
\* then compensate gives the stock back ...
deadLetter(w) ==
  /\ WorkAt(w, "release")
  /\ dead' = IF dead < QueueLimit THEN dead + 1 ELSE dead
  /\ releaseStock(work[w].msg.user)
  /\ WorkTo(w, "rollback")
  /\ UNCHANGED <<phase, gate, outbox, queue, http, done>>

\* Mutant: compensation returns the stock and not the place in the gate.
CompensateStockOnly(w) ==
  /\ WorkAt(w, "rollback")
  /\ work' = [work EXCEPT ![w] = NoMessage]
  /\ UNCHANGED <<phase, gate, store, outbox, queue, dead, http, done>>

\* ... and the user's place in the gate.
compensate(w) ==
  /\ WorkAt(w, "rollback")
  /\ gate' = rollback(work[w].msg.user)
  /\ work' = [work EXCEPT ![w] = NoMessage]
  /\ UNCHANGED <<phase, store, outbox, queue, dead, http, done>>

-----------------------------------------------------------------------------
(* The end of the process, by a crash or by a shutdown, and its restart.   *)

crash ==
  /\ phase = "up"
  /\ phase' = "down"
  /\ gate' = Started /\ queue' = <<>> /\ dead' = 0 /\ done' = {}
  /\ http' = [t \in Http |-> NoMessage] /\ work' = [w \in Workers |-> NoMessage]
  /\ mem' = disk /\ failed' = FALSE
  /\ UNCHANGED <<disk, outbox>>

Released(L) ==
  [L EXCEPT !.resv = [u \in Users |->
     IF State(L, u) = "Reserved" /\ L.orders[u] = Absent
     THEN [L.resv[u] EXCEPT !.state = "Released"] ELSE L.resv[u]]]

\* Mutant: the restart leaves the reservations of the last process alone.
RestartUnreleased ==
  /\ phase = "down"
  /\ phase' = "up"
  /\ UNCHANGED <<gate, store, outbox, queue, dead, http, work, done>>

\* main: the services are restored, the reservations without an order released,
\* the promotion created, preheated and started.  A start that fails at the
\* release leaves a disk that a start followed by a crash leaves as well.
restart ==
  /\ phase = "down"
  /\ phase' = "up"
  /\ mem' = Released(disk) /\ disk' = Released(disk)
  /\ UNCHANGED <<gate, failed, outbox, queue, dead, http, work, done>>

-----------------------------------------------------------------------------
Init ==
  /\ phase = "down" /\ gate = Started
  /\ mem = [resv |-> [u \in Users |-> Absent], orders |-> [u \in Users |-> Absent]]
  /\ disk = mem /\ failed = FALSE
  /\ outbox = {} /\ queue = <<>> /\ dead = 0 /\ done = {}
  /\ http = [t \in Http |-> NoMessage] /\ work = [w \in Workers |-> NoMessage]

Serve(t) == reserve(t) \/ push(t) \/ release(t) \/ reject(t)

Consume(w) ==
  \/ pop(w) \/ persistOrder(w) \/ publish(w) \/ confirm(w)
  \/ deadLetter(w) \/ compensate(w)

Next ==
  \/ \E t \in Http : Serve(t) \/ \E m \in Message : submit(t, m)
  \/ \E w \in Workers : Consume(w)
  \/ finish \/ crash \/ restart

Spec == Init /\ [][Next]_vars

\* A request that was admitted is served to its end, the workers keep polling,
\* a worker that waits for the mutex of OrderService gets it in the end, and the
\* container restarts a process that ended (deploy/compose).  Nobody has to submit,
\* and nothing has to fail.
Fairness ==
  /\ \A t \in Http : WF_vars(Serve(t))
  /\ \A w \in Workers : WF_vars(Consume(w)) /\ SF_vars(persistOrder(w))
  /\ WF_vars(restart)

FairSpec == Spec /\ Fairness

-----------------------------------------------------------------------------
\* Where an admitted request of user u is: at a thread, in the queue, at a worker.
Carriers(u) ==
  {<<"http", t>> : t \in {x \in Http : http[x].at # "idle" /\ http[x].msg.user = u}} \cup
  {<<"queue", i>> : i \in {x \in DOMAIN queue : queue[x].user = u}} \cup
  {<<"work", w>> : w \in {x \in Workers : work[x].at # "idle" /\ work[x].msg.user = u}}

\* A place in the gate is held by exactly one request on its way, or by an order
\* that was processed: no failure, retry or compensation loses a place or gives
\* it to two requests of one user, and the count is right and within the quota
\* (flash_sale_gate.cc tryAcquire and rollback, with all their callers).
PlacesCarried ==
  /\ gate.admitted = Cardinality(gate.users) /\ gate.admitted <= Quota
  /\ \A u \in Users :
       /\ Cardinality(Carriers(u)) + (IF u \in done THEN 1 ELSE 0)
            = IF u \in gate.users THEN 1 ELSE 0

\* While the engine works, no stock is reserved without somebody who will confirm
\* or release it, or an order it is for (compensation in submit and processOnce,
\* releaseOrphanReservations at the restart).
StockOwned ==
  phase = "up" /\ ~failed =>
    \A u \in Users : State(mem, u) = "Reserved" =>
      Carriers(u) # {} \/ mem.orders[u] # Absent

Sold(L, u) ==
  /\ L.orders[u] # Absent /\ State(L, u) = "Confirmed"
  /\ L.orders[u].qty = L.resv[u].qty

\* A message that was processed left an order and its sold units, both durable and
\* of the same quantity (flash_sale_order_consumer.cc process).
ProcessedIsSold == \A u \in done : Sold(disk, u)

\* No two durable orders share an idempotency key, failed deletions and writes
\* that reached the disk although they failed included (business/order/README.md).
OneOrderPerKey ==
  \A u, v \in Users : disk.orders[u] # Absent /\ disk.orders[v] # Absent
    /\ disk.orders[u].key = disk.orders[v].key => u = v

\* Every admitted request comes to an end: answered with an error, processed,
\* or dead-lettered and compensated, unless the process ends first.
RequestsSettle == \A u \in Users : Carriers(u) # {} ~> Carriers(u) = {}

\* Reserved stock that is no order's is sold or given back in the end, over
\* crashes and restarts, unless the engine fails and the process lives on.
StockNotStranded ==
  \A u \in Users : (State(disk, u) = "Reserved" /\ disk.orders[u] = Absent)
    ~> (State(disk, u) # "Reserved" \/ disk.orders[u] # Absent \/ failed)

=============================================================================
