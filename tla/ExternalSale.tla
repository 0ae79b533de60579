---------------------------- MODULE ExternalSale ----------------------------
(***************************************************************************)
(* The flash sale with its state outside the process: the gate, the stock   *)
(* and the queue in Redis (RedisSale), the orders, their stock and their    *)
(* events in MySQL (src/storage/mysql/mysql_transaction_store.cc).  Request *)
(* threads submit, consumer workers persist and confirm, the outbox thread  *)
(* publishes the events and an administrator reconciles the two stocks.     *)
(*                                                                          *)
(* One step is one command to Redis or one transaction of MySQL, which runs *)
(* atomically.  Any of them may fail, with or without having taken effect   *)
(* (the reply was lost), and the process may die between any two; Redis and *)
(* MySQL keep their state.  Failures, crashes and reconciliations together  *)
(* are bounded.                                                             *)
(***************************************************************************)
EXTENDS RedisSale, Functions

CONSTANTS Workers,       \* consumer threads
          Keys,          \* idempotency keys the users choose from
          NoKey,         \* no order row
          Totals,        \* the stock the program may be configured with
          MaxTries,      \* max_attempts_ of the consumer, 5 in the program
          MaxTroubles    \* bound: failed calls, crashes and reconciliations

ASSUME SaleAssumption == NoKey \notin Keys /\ Totals \subseteq Nat /\ MaxTries \in Nat \ {0} /\ MaxTroubles \in Nat

VARIABLES
  units,       \* total stock of the SKU
  redis,       \* what Redis holds
  db,          \* what MySQL holds: available, reserved, the key of each user's
               \* order row, and its outbox row
  request,     \* each user's submit: pc and key
  worker,      \* each worker: pc, message and attempt
  drain,       \* the outbox thread: the event it has published and not marked
  handedOver,  \* events the outbox thread handed to the publisher
  admin,       \* the reconciler: pc and the durable stock it read
  up,          \* the process runs
  troubles,    \* failed calls, crashes and reconciliations so far
  repaired     \* a repair of the Redis stock was made

saleVars == <<units, redis, db, request, worker, drain, handedOver, admin, up, troubles, repaired>>

NoUser == "no user"
IdleRequest == [pc |-> "idle", key |-> NoKey]
IdleWorker == [pc |-> "pop", msg |-> [user |-> NoUser, key |-> NoKey], attempt |-> 0]
IdleAdmin == [pc |-> "idle", durable |-> [available |-> 0, reserved |-> 0, sold |-> 0]]

SaleInit ==
  /\ units \in Totals
  /\ redis = EmptyRedis(units)
  /\ db = [available |-> units, reserved |-> 0, key |-> [u \in Users |-> NoKey],
           event |-> [u \in Users |-> "none"]]
  /\ request = [u \in Users |-> IdleRequest]
  /\ worker = [w \in Workers |-> IdleWorker]
  /\ drain = NoUser /\ handedOver = {} /\ admin = IdleAdmin
  /\ up = FALSE /\ troubles = 0 /\ repaired = FALSE

-----------------------------------------------------------------------------
Trouble == troubles < MaxTroubles /\ troubles' = troubles + 1
NoTrouble == UNCHANGED troubles

\* evalInteger, listPush, ...: the command runs and its reply arrives.
Called(effect) == redis' = effect /\ NoTrouble
\* An error: the command never ran, or ran and its reply was lost.
CallLost(effect) == redis' \in {redis, effect} /\ Trouble

RequestAt(u, pc) == up /\ request[u].pc = pc
RequestTo(u, pc) == request' = [request EXCEPT ![u] = IF pc = "idle" THEN IdleRequest ELSE [@ EXCEPT !.pc = pc]]
RequestRest == UNCHANGED <<units, db, worker, drain, handedOver, admin, up, repaired>>

\* POST /flash-sale/orders: the authenticated user and a key of the user's choice.
Submitted == {[pc |-> "reserve", key |-> k] : k \in Keys}

\* submit: the place at the gate.
tryAcquire(u) ==
  /\ RequestAt(u, "idle") /\ RequestRest
  /\ \/ /\ Called(Acquired(redis, u)) /\ AcquireCode(redis, u) = 1
        /\ \E r \in Submitted : request' = [request EXCEPT ![u] = r]
     \/ /\ CallLost(Acquired(redis, u)) /\ UNCHANGED request

\* submit: the stock; anything but kSuccess gives the place back.
reserve(u) ==
  /\ RequestAt(u, "reserve") /\ RequestRest
  /\ \/ /\ Called(Reserved(redis, u))
        /\ RequestTo(u, IF ReserveCode(redis, u) = 1 THEN "push" ELSE "rollback")
     \/ CallLost(Reserved(redis, u)) /\ RequestTo(u, "rollback")

\* submit: the message.
push(u) ==
  LET m == [user |-> u, key |-> request[u].key] IN
  /\ RequestAt(u, "push") /\ RequestRest
  /\ \/ Called(Pushed(redis, m)) /\ RequestTo(u, "idle")
     \/ CallLost(Pushed(redis, m)) /\ RequestTo(u, "release")

\* submit, compensation: the outcome of neither call is looked at.
releaseStock(u) ==
  /\ RequestAt(u, "release") /\ RequestRest
  /\ Called(Released(redis, u)) \/ CallLost(Released(redis, u))
  /\ RequestTo(u, "rollback")

rollbackPlace(u) ==
  /\ RequestAt(u, "rollback") /\ RequestRest
  /\ Called(RolledBack(redis, u)) \/ CallLost(RolledBack(redis, u))
  /\ RequestTo(u, "idle")

-----------------------------------------------------------------------------
WorkerAt(w, pc) == up /\ worker[w].pc = pc
WorkerTo(w, pc) == worker' = [worker EXCEPT ![w] = IF pc = "pop" THEN IdleWorker ELSE [@ EXCEPT !.pc = pc]]
WorkerRest == UNCHANGED <<units, request, drain, handedOver, admin, up, repaired>>

\* BRPOP removes the message; when the reply is lost so is the message.
pop(w) ==
  /\ WorkerAt(w, "pop") /\ redis.queue # <<>> /\ WorkerRest /\ UNCHANGED db
  /\ \/ /\ Called(Popped(redis))
        /\ worker' = [worker EXCEPT ![w] = [pc |-> "persist", msg |-> Head(redis.queue), attempt |-> 1]]
     \/ CallLost(Popped(redis)) /\ UNCHANGED worker

\* Mutant: a failed attempt is not counted.
AgainUncounted(w) == worker' = [worker EXCEPT ![w].pc = "persist"]

\* processOnce: another attempt, or the dead-letter queue.
Again(w) ==
  worker' = [worker EXCEPT ![w] = IF worker[w].attempt < MaxTries
                                  THEN [worker[w] EXCEPT !.pc = "persist", !.attempt = @ + 1]
                                  ELSE [worker[w] EXCEPT !.pc = "dead"]]

\* persistQueuedOrder found the key: Ok when the row is this order.
KeyKnown(m) == \E u \in Users : db.key[u] = m.key
SameOrder(m) == db.key[m.user] = m.key
\* The INSERT violates the primary key, or the UPDATE finds no stock.
Refused(m) == db.key[m.user] # NoKey \/ db.available < 1
\* The new rows and the moved stock, in one transaction.
Inserted(m) ==
  [db EXCEPT !.available = @ - 1, !.reserved = @ + 1, !.key[m.user] = m.key, !.event[m.user] = "new"]

\* Mutant: a second insert of an order is stopped neither by a look-up of its
\* idempotency key nor by the keys of the table.
PersistBlindly(w) ==
  LET m == worker[w].msg IN
  /\ WorkerAt(w, "persist") /\ WorkerRest /\ UNCHANGED redis
  /\ \/ /\ NoTrouble
        /\ IF db.available >= 1 THEN db' = Inserted(m) /\ WorkerTo(w, "confirm")
                                ELSE UNCHANGED db /\ Again(w)
     \/ Trouble /\ db' \in (IF db.available < 1 THEN {db} ELSE {db, Inserted(m)}) /\ Again(w)

\* Mutant: the stock is confirmed without waiting for the row.
PersistLast(w) == WorkerAt(w, "persist") /\ WorkerRest /\ UNCHANGED <<redis, db>> /\ NoTrouble /\ WorkerTo(w, "confirm")

\* process: the transaction of persistQueuedOrder.  A failed COMMIT may have
\* committed.
persistQueuedOrder(w) ==
  LET m == worker[w].msg IN
  /\ WorkerAt(w, "persist") /\ WorkerRest /\ UNCHANGED redis
  /\ \/ /\ NoTrouble
        /\ CASE SameOrder(m) -> UNCHANGED db /\ WorkerTo(w, "confirm")
             [] ~SameOrder(m) /\ (KeyKnown(m) \/ Refused(m)) -> UNCHANGED db /\ Again(w)
             [] OTHER -> db' = Inserted(m) /\ WorkerTo(w, "confirm")
     \/ /\ Trouble /\ Again(w)
        /\ db' \in IF KeyKnown(m) \/ Refused(m) THEN {db} ELSE {db, Inserted(m)}

\* process: the reservation becomes a sale.
confirm(w) ==
  LET u == worker[w].msg.user IN
  /\ WorkerAt(w, "confirm") /\ WorkerRest /\ UNCHANGED db
  /\ \/ /\ Called(Confirmed(redis, u))
        /\ IF TransitionCode(redis, u, "confirmed") = 1 THEN WorkerTo(w, "pop") ELSE Again(w)
     \/ CallLost(Confirmed(redis, u)) /\ Again(w)

\* Mutant: the dead letter is all that is left of a message given up.
DeadLetterOnly(w) ==
  /\ WorkerAt(w, "dead") /\ WorkerRest /\ UNCHANGED db
  /\ LET dead == DeadLettered(redis, worker[w].msg) IN Called(dead) \/ CallLost(dead)
  /\ WorkerTo(w, "pop")

\* processOnce, after the last attempt: dead letter, stock, place; no outcome
\* changes what follows.
deadLetter(w) ==
  /\ WorkerAt(w, "dead") /\ WorkerRest /\ UNCHANGED db
  /\ LET dead == DeadLettered(redis, worker[w].msg) IN Called(dead) \/ CallLost(dead)
  /\ WorkerTo(w, "release")

compensateStock(w) ==
  /\ WorkerAt(w, "release") /\ WorkerRest /\ UNCHANGED db
  /\ LET free == Released(redis, worker[w].msg.user) IN Called(free) \/ CallLost(free)
  /\ WorkerTo(w, "rollback")

compensatePlace(w) ==
  /\ WorkerAt(w, "rollback") /\ WorkerRest /\ UNCHANGED db
  /\ LET free == RolledBack(redis, worker[w].msg.user) IN Called(free) \/ CallLost(free)
  /\ WorkerTo(w, "pop")

-----------------------------------------------------------------------------
\* drainOutbox publishes an event, then marks its row; a failure of the publisher
\* or of the UPDATE ends the call and the row is selected again.
DrainRest == UNCHANGED <<units, redis, request, worker, admin, up, repaired>>

\* Mutant: the failure of a publication is ignored.
PublishRegardless(u) ==
  /\ up /\ drain = NoUser /\ db.event[u] = "new" /\ DrainRest
  /\ drain' = u /\ UNCHANGED db
  /\ \/ handedOver' = handedOver \cup {u} /\ NoTrouble
     \/ UNCHANGED handedOver /\ Trouble

publishEvent(u) ==
  /\ up /\ drain = NoUser /\ db.event[u] = "new" /\ DrainRest
  /\ drain' = u /\ handedOver' = handedOver \cup {u} /\ NoTrouble /\ UNCHANGED db

markPublished ==
  LET marked == [db EXCEPT !.event[drain] = "published"] IN
  /\ up /\ drain # NoUser /\ DrainRest
  /\ drain' = NoUser /\ UNCHANGED handedOver
  /\ \/ db' = marked /\ NoTrouble
     \/ db' \in {db, marked} /\ Trouble

-----------------------------------------------------------------------------
\* InventoryReconciler::reconcile: the durable stock is read, then the cached one;
\* a difference is repaired with the durable values.
AdminRest == UNCHANGED <<units, db, request, worker, drain, handedOver, up>>

\* MySqlTransactionStore::queryStock: nothing ever moves stock to its column sold.
Durable == [available |-> db.available, reserved |-> db.reserved, sold |-> 0]

readDurable ==
  /\ up /\ admin.pc = "idle" /\ Trouble /\ AdminRest
  /\ admin' = [pc |-> "compare", durable |-> Durable]
  /\ UNCHANGED <<redis, repaired>>

compare ==
  /\ up /\ admin.pc = "compare" /\ NoTrouble /\ AdminRest
  /\ admin' = IF StockOf(redis) = admin.durable THEN IdleAdmin ELSE [admin EXCEPT !.pc = "repair"]
  /\ UNCHANGED <<redis, repaired>>

repair ==
  /\ up /\ admin.pc = "repair" /\ AdminRest
  /\ Called(Repaired(redis, admin.durable)) \/ CallLost(Repaired(redis, admin.durable))
  /\ repaired' = (repaired \/ RepairCode(redis, admin.durable) = 1)
  /\ admin' = IdleAdmin

-----------------------------------------------------------------------------
\* main: the SKU must have the configured total, then the promotion is started.
startUp ==
  /\ ~up /\ redis.total = units
  /\ up' = TRUE
  /\ redis' = GateTo(GateTo(redis, "created", "preheating"), "preheating", "running")
  /\ UNCHANGED <<units, db, request, worker, drain, handedOver, admin, troubles, repaired>>

die ==
  /\ up /\ Trouble
  /\ up' = FALSE
  /\ request' = [u \in Users |-> IdleRequest] /\ worker' = [w \in Workers |-> IdleWorker]
  /\ drain' = NoUser /\ admin' = IdleAdmin
  /\ UNCHANGED <<units, redis, db, handedOver, repaired>>

workerStep(w) ==
  pop(w) \/ persistQueuedOrder(w) \/ confirm(w) \/ deadLetter(w) \/ compensateStock(w) \/ compensatePlace(w)

SaleNext ==
  \/ \E u \in Users : \/ tryAcquire(u) \/ reserve(u) \/ push(u)
                      \/ releaseStock(u) \/ rollbackPlace(u) \/ publishEvent(u)
  \/ \E w \in Workers : workerStep(w)
  \/ markPublished \/ readDurable \/ compare \/ repair \/ startUp \/ die

\* The workers and the outbox thread loop for as long as the process runs, and a
\* dead process is started again.  No call has to fail for a worker to go on.
SaleSpec ==
  /\ SaleInit /\ [][SaleNext]_saleVars
  /\ WF_saleVars(startUp)
  /\ \A w \in Workers : WF_saleVars(workerStep(w) /\ NoTrouble)
  /\ WF_saleVars(markPublished)
  /\ \A u \in Users : SF_saleVars(publishEvent(u))

-----------------------------------------------------------------------------
Count(state) == Cardinality({u \in Users : redis.ops[u] = state})
Stored(u) == db.key[u] # NoKey

\* MySQL never sells a unit twice: its rows and its counters agree, one order per
\* key, and no more orders than units, although messages are retried after lost
\* COMMITs and two users may send the same key (mysql_transaction_store.cc:100-123).
\* Every row has its event, marked published only after it was handed to the
\* publisher (149).
DatabaseNeverOversells ==
  /\ db.reserved = Cardinality({u \in Users : Stored(u)})
  /\ db.available = units - db.reserved /\ db.available >= 0
  /\ \A u, v \in Users : (Stored(u) /\ db.key[u] = db.key[v]) => u = v
  /\ \A u \in Users : /\ (db.event[u] # "none") <=> Stored(u)
                     /\ db.event[u] = "published" => u \in handedOver

\* As long as no repair was made the counters in Redis are those of the operations
\* it remembers, no unit is offered twice, and the gate counts its users, whatever
\* calls were lost, repeated or interrupted by a crash
\* (redis_inventory_fast_path.cc:15-36, redis_flash_sale_gate.cc:22-32).  Repairs
\* do not change the SKU's total, so that initializeSku accepts it when the process
\* starts again (redis_inventory_fast_path.cc:11-14, 49-52).
RedisLedger ==
  /\ ~repaired => /\ redis.reserved = Count("reserved") /\ redis.sold = Count("confirmed")
                  /\ redis.available = units - Count("reserved") - Count("confirmed")
                  /\ redis.available >= 0
  /\ redis.total = units
  /\ redis.admitted = Cardinality(redis.users) /\ redis.admitted <= Quota

\* Redis calls stock sold only when MySQL holds the order, also across lost replies
\* and restarts (flash_sale_order_consumer.cc:12-18).
SoldIsStored == \A u \in Users : redis.ops[u] = "confirmed" => Stored(u)

\* Without failures, crashes and repairs no reservation is left without an owner:
\* a request about to push or release it, a message in the queue, or a worker
\* (flash_sale_order_service.cc:48-72, flash_sale_order_consumer.cc:32-51).
ReservationsAreOwned ==
  troubles = 0 => \A u \in Users : redis.ops[u] = "reserved" =>
     \/ request[u].pc \in {"push", "release"}
     \/ \E m \in Range(redis.queue) : m.user = u
     \/ \E w \in Workers : worker[w].msg.user = u

\* The event of every stored order is handed to the publisher in the end, across
\* restarts and failed UPDATEs, when the UPDATE can have a connection of its own
\* (mysql_transaction_store.cc:149).
OrdersAreAnnounced == \A u \in Users : Stored(u) ~> u \in handedOver

\* Every queued message is decided in the end: sold, or its stock no longer
\* reserved, or its handling was disturbed (flash_sale_order_consumer.cc:46-48,
\* "A poison message must not keep stock reserved forever").
QueuedIsDecided ==
  \A u \in Users : (\E m \in Range(redis.queue) : m.user = u) ~>
                     (redis.ops[u] # "reserved" \/ troubles > 0)

\* "an active flash sale reservation is never silently overwritten"
\* (inventory_reconciler.cc:18-20): while one exists, the units Redis offers are
\* neither reserved nor sold.
ReservationsAreNotOverwritten ==
  Count("reserved") > 0 => redis.available <= units - Count("reserved") - Count("confirmed")
=============================================================================
