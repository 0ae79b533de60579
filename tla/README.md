# Verification of the live-commerce platform

TLA+ models of the platform's components, the TLC runs that check them on small
instances, and TLAPS proofs of the safety of every part. `PROJECT.json`
relates every definition to the lines it models and lists the components, hazards, runs,
mutants, findings and theorems.

## The system

One process (`apps/ecommerce_api_main.cc`) serves HTTP with a reactor and a pool of
worker threads. It sells a limited stock in a flash sale:

1. `FlashSaleOrderService::submit` asks the **admission gate** for a place (one per
   user, limited by the promotion's quota), **reserves stock** under the operation id
   `flash-<promotion>-<user>`, and **queues** a message. Each failure compensates the
   steps before it.
2. The workers of `FlashSaleOrderConsumer` take messages, have the **repository** write
   the order and its `OrderCreated` event, and **confirm** the stock. A message that
   fails for its last attempt is dead-lettered, its stock released and its place given
   back.
3. The inventory, the orders, products and users persist through one **embedded
   key-value engine**: a writer thread groups writes, appends them to a WAL, syncs,
   applies and answers; snapshots empty the WAL.
4. Events leave through a **file outbox** and a dispatcher, to Kafka or to an in-memory
   broker.

Gate, stock, queue and repository are interfaces: Redis may hold gate, stock and queue,
MySQL the orders (with its own outbox), and a Kafka consumer may replace the queue. A
reconciler compares the MySQL and the fast-path stock. Products are read through a
sharded cache with single-flight loading; names, users and sessions may be shared
through Redis.

| Part | Sources | Modules |
|---|---|---|
| Local inventory | `business/inventory/inventory_service` | `InventoryService`; proofs in `InventoryProofs` |
| Local flash sale: gate, submit, queue, consumer, order service | `business/flash_sale`, `business/promotion`, `business/order`, `messaging/order_queue` | `FlashSalePipeline`; proofs in `FlashSaleProofs` |
| Engine, WAL, snapshots | `storage/local_engine`, `storage/wal`, `storage/snapshot` | `LocalKVEngine` over `KVTable`, abstractly `DurableStore`; proofs in `EngineProofs` |
| File outbox and dispatcher | `messaging/outbox.h`, `messaging/async_outbox_dispatcher` | `Outbox`; proofs in `MessagingProofs` |
| In-memory broker | `messaging/in_memory_broker` | `InMemoryBroker`; proofs in `MessagingProofs` |
| Orders over Kafka, dead letters, replay | `messaging/kafka_*` | `KafkaOrders`; proofs in `MessagingProofs` |
| External flash sale: Redis, MySQL, reconciler | `kv/redis_*`, `storage/mysql`, `inventory_reconciler` | `RedisSale`, `ExternalSale`; proofs in `ExternalSaleProofs` |
| Users and sessions | `business/user` | `UserService`; proofs in `UserProofs` |
| Products and cache | `business/product`, `cache` | `ProductCatalog`; proofs in `CatalogProofs` |
| Connection pools | `storage/mysql/mysql_connection_pool`, `kv/redis_kv_store` | `ConnectionPool`; proofs in `GatewayProofs` |
| HTTP server, event loop, thread pool, shutdown | `gateway/http`, `network/reactor`, `common/thread_pool.h` | `HttpServer`; proofs in `GatewayProofs` |

`MCInventory`, `MCPipeline` and `MCEngine` give the constants of their component values
for TLC. `MCMessaging`, `MCServices` and `MCGateway` each hold components that do not
interact: their variable `part` says which one runs in a behaviour while the others keep
their initial state, so that the state spaces add up. `ExternalSale` is run as it is.

## The modules

### InventoryService

State: three ledgers, each the stock counters of every SKU and the reservation of every
operation. `mem` is `stocks_` and `reservations_`, `data` the engine's table, `logged`
what snapshot and WAL give back. `write[t]` is the write thread `t` waits for, with what
its undo needs; `call[t]` is a transition that has read the SKU of its reservation and
not yet taken the SKU's lock. `failed` is the engine's `writer_error_`. `acked` and
`sales` are history: what callers were told.

A mutation is three steps, as in the code: the change in memory under the lock of the
SKU (`reserveStock`, `confirmStock`, ...), the record in the WAL (`appendWal`), and the
answer (`persisted`) or the failure with its undo (`persistFailed`), before or after the
record reached the disk. `lookUp` is the unlocked read at the head of the transitions; its
callers have the answer of `reserveStock` for the operation (`acked`), since all of them
run after it in the same process.
`crash`, `restore` (with `validateInvariants`) and `releaseOrphanReservations` are the
restart. The engine is seen as `DurableStore` describes it.

Counters are plain integers: quantities are at most the stock a SKU was added with, so
64 bits do not overflow. Sums over reservations are cardinalities of sets of units,
which is what makes them provable.

### FlashSalePipeline

The local configuration of `main`: one promotion over one SKU. An order id is made of
promotion and user, so a user stands for its order and its inventory operation. `gate` is
the admission gate, `queue` the order queue, `http[t]` and `work[w]` the request a thread
or worker has and the step it is at, `mem` and `disk` the reservations and orders in
memory and on disk, `outbox` the orders with a recorded event, `done` (history) the
messages processed. `outbox` is there because the handler writes it under the order's
mutex; no property relates it to the orders, since the two do part (see the facts below).

`submit`, `reserve`, `push`, `release`, `reject` are the calls of
`FlashSaleOrderService::submit`; `pop`, `persistOrder`, `publish`, `confirm`,
`deadLetter`, `compensate` those of `processOnce`. `OrdersFree` is the mutex of
`OrderService`, held over the append to the outbox. A write that fails (`Persist`) leaves
memory alone, may be on the disk, and makes all later ones fail. The inventory's calls
are one step each and its counters derived from the reservations: that is what
`InventoryService` shows (`MemoryMatchesStore`, `LedgerValid`).

### LocalKVEngine and DurableStore

`LocalKVEngine` has the callers' queue, the writer (`takeGroup`, `append`, `sync`,
`apply`, `answer`), the snapshot in three steps (`snapshot` keeps callers out, `save`
renames the file, `truncate` empties the WAL), `close`, `crash` and `open`. The WAL is a
sequence of records, of which one written in part is `Torn`; the constant `Tears` says
whether a failed append may leave one. `KVTable` has the table, the record of a write and
the replay of records, which both modules use.

`DurableStore` is the promise to the services above: a write is recorded, then visible
and answered; or it fails, recorded or not, and no new write is accepted. A restart finds
what was recorded. `LocalKVEngine` implements it under the mapping at the end of the
module (`disk` is the replay of the WAL over the snapshot).

### Outbox, InMemoryBroker, KafkaOrders

`Outbox`: `file` is the sequence of the file's records, `pending` is `pending_`; `batch`
and `failed` are the locals of a running drain. `append` is one step with its possible
leftovers (nothing, a whole record, a torn one). A drain is `wakeUp` or `idle`, one
`published` or `refused` per event, and `putBack` with the rewrite of the file, which
renames or fails. `stop` starts the last drain, `die` ends the process anywhere, `open`
reads the file and refuses a torn one.

`InMemoryBroker`: `beginDeliver` copies the oldest events and the subscriptions under the
mutex, `handlerOk` and `handlerFailed` are the calls of the handlers outside it with the
attempt counters, `endDeliver` removes what was delivered; several threads deliver at
once. In this repository `deliver` has no caller yet: events are only published to the
broker. An event keeps its place in the order of publication, so a queue is a set; the
subscriptions have the ids 1, 2, ... and are a number.

`KafkaOrders`: `push` into the producer's buffer, `transmit` to the topic, `poll`,
`persist`, `confirm`, the failed attempts, `compensate` with its dead letter, `commit`,
and `startReplay`, `replayOne`, `endReplay` of the dead-letter operator. The broker and
librdkafka are external: a topic is a log, a commit covers all earlier offsets. Calls of
the database and the inventory may take effect and report an error.

### RedisSale and ExternalSale

`RedisSale` has the scripts: each takes the record of what Redis holds and yields its code
and the record after it. `ExternalSale` runs them: `tryAcquire`, `reserve`, `push`,
`releaseStock`, `rollbackPlace` of a request; `pop`, `persistQueuedOrder` (one MySQL
transaction), `confirm`, `deadLetter`, `compensateStock`, `compensatePlace` of a worker;
`publishEvent` and `markPublished` of the MySQL outbox; `readDurable`, `compare`, `repair`
of the reconciler; `startUp` and `die`. `Called` is a command that answers, `CallLost` one
whose error leaves its effect unknown. Redis and MySQL keep their state when the process
dies. Every order has quantity one.

### UserService and ProductCatalog

`UserService`: one process, or two that share names, users and sessions. Registration is
`registerUser`, `claim` (SETNX of the name), `setUser`, `persistName`, `persistRecord`,
`persistDisk` and on failure `dropName`, `dropUser`; each write may fail with or without
effect. `login`, `authenticate`, `logout`, `expire`, `disable` and `restart` are the rest.

`ProductCatalog`: one shard of the cache as the list of its entries, most recently used
first. A reader is `get`, `joinOrLead` (single flight), `loadShared`, `loadMemory`,
`cacheLoaded`, `fulfil`, `leave`; a writer is `addProduct` or `setOnSale` with its writes
to storage and shared store and `eraseCached` at the end. The shared store belongs to
other processes too (`deploy/compose/docker-compose.multi.yml`) and outlives a local disk:
it holds anything at the start, and `otherProcess` writes it at any time, as often as it
likes. `theirs` (history) has the products whose shared value is another process's.

### ConnectionPool and HttpServer

`ConnectionPool`: both pools, told apart by `pool`. A condition variable is the set of
threads that sleep on it and the set of those notified; `acquire`, `sleep`, `wake`,
`timeOut`, `release` are a borrower, `connect`, `beginClose`, `endClose` the owner.
`Drainer` borrows a second connection while it holds one (`drainOutbox`).

`HttpServer`: the loop runs one callback at a time (`onRead`, `onWrite`, `onError`,
`onConnection`, `onAsyncResponse`, functors in order); workers `take` a task and `respond`
through `runInLoop`, and their `run` returns when the pool stops and the queue is empty
(`runReturns`), which `stopWorkers` joins; `requestShutdown`, `stopAcceptingInLoop`, `stopPool`, `stopWorkers`,
`stopInLoop` are the shutdown of `main`. A connection has a generation, so that a late
answer for a descriptor used again is told apart.

## The runs

| Run | Instance | Shows |
|---|---|---|
| `inventory` | 2 SKUs (2 and 1 units), 3 operations, 2 threads, quantities up to 2; confirm and release | `LedgerValid`: counters always equal the sums of the reservations; `RecoverableLedger`: a restart never finds a ledger it must refuse; `AckedReservationKept`; `SaleSurvives` |
| `inventory_all_calls` | 1 SKU, 2 operations, 2 threads; the roll backs and repairs too | `MemoryMatchesStore`: failed writes are undone completely |
| `pipeline` | 2 users, 2 keys, 2 request threads, 2 workers, stock 2, quota 2, queue of 1, 2 attempts | `PlacesCarried`: each place in the gate is held by exactly one request or one processed order; `StockOwned`: no stock reserved without somebody to settle it; `ProcessedIsSold`; `OneOrderPerKey` |
| `pipeline_live` | 2 users, 1 key, 1 request thread, 2 workers, stock 1 | `RequestsSettle`: every admitted request comes to an end; `StockNotStranded` |
| `engine` | 3 clients, 2 keys, 2 values, groups of 2, WAL of 3 records | `AlwaysOpens`; `ImplementsDurableStore` |
| `engine_pairs` | 2 clients that write both keys together, torn appends | `BatchesWhole`; `CallersAnswered` |
| `torn_write` | 2 clients, torn appends | violates `AlwaysOpens` |
| `messaging` | 2 events, drains of 1, 2 ends of the process; 2 messages, 2 subscriptions, 2 delivering threads, 2 attempts; 2 orders and a garbled record, 2 attempts, 3 pushes, replays and crashes | outbox: `AppendedIsKept`, `RedeliveredByRestartOnly`, `EventsArePublished`; broker: `DeliveredToAll`, `DeadAfterMaxAttempts`; Kafka: `CommittedIsSettled`, `StockFollowsOrder`, `RecordsAreLeftBehind` |
| `external_sale` | 2 users, 2 keys, 1 worker, stock 1 or 2, quota 2, 2 tries, 2 troubles (lost calls, crashes, reconciliations) | `DatabaseNeverOversells`; `RedisLedger`; `SoldIsStored`; `ReservationsAreOwned`; `OrdersAreAnnounced`; `QueuedIsDecided` |
| `reconcile` | the same with stock 2 and one trouble | violates `ReservationsAreNotOverwritten` |
| `services` | 2 processes, 1 name, 2 ids, 1 token, 2 failures or restarts; 1 product, 2 readers, 2 changes, failures or restarts, any writes of other processes | users: `NamesAreUnique`, `RefusedForGood`; products: `ReadsOwnChanges`: a reader sees the changes of its own process, `MemoryIsDurable`, `WaitersReturn` |
| `gateway` | a pool of 2, 3 borrowers, 2 connects; 2 descriptors, 2 workers, a queue of 1, 2 connections, 3 requests | pools: `LeasesAreOpen`, `CloseReturns`; server: `AnswersMatchRequests`, `CallbacksAreRun`, `RequestsAreAnswered`, `ShutdownEnds` |

**Bounds.** Two threads, workers, clients, processes or readers are the smallest number
for a race of two; three operations let two orphans of one SKU meet a third reservation,
three clients let one wait in the queue while a group of two is written, and three
borrowers let one wait while the pool of two is lent, one of the leases to the thread
that wants a second. The stocks are smaller than the demand, the quota, the queues and
the pool can all be full, the last attempt is reached, and a descriptor is used again, so
that every refusal and compensation happens. The cache has one product, because the free
shared store makes two too many for TLC: eviction is left to the proofs, and that an entry
is gone is reached by its expiry. Two failures per behaviour
let one happen during the handling of the other. Two subscriptions with two
attempts let one subscriber succeed while the other's event is dead-lettered. The counters
that bound a run (`MaxQty`, `MaxWal`, `MaxStops`, `MaxFailures`, `MaxInputs`, `MaxTroubles`,
`MaxBreaks`, `MaxEvents`, `MaxConnects`, `MaxAccepts`, `MaxRequests`, `MaxIds`) are
guards of the inputs and failures they count; no other step is cut off. The theorems below
have no such bounds for the properties they cover. Symmetry is used for sets of users,
keys, operations, threads and clients, in runs without liveness only.

**Deadlock** is checked in `inventory`, `pipeline`, `pipeline_live`, `engine`,
`engine_pairs`. `inventory_all_calls` does not check it: a repair may leave a ledger that
`validateInvariants` refuses, and then the process cannot start again. In the others the
inputs are bounded, so that the system comes to rest.

**Fairness.**

- `pipeline_live`: threads that have something to do go on (weak fairness per thread and
  worker), a worker waiting for the mutex of `OrderService` gets it in the end (strong
  fairness of `persistOrder`: the other workers may take it infinitely often in between),
  and the process is restarted after it ended (`restart: unless-stopped` in
  `deploy/compose/docker-compose.yml`).
- `engine_pairs`: the writer thread and a snapshot that has begun go on.
- `messaging`: the dispatcher, librdkafka and the consumer's thread go on, the process is
  restarted, and a publisher that is asked again and again does not refuse for ever
  (strong fairness of `published`): the in-memory broker never refuses, and a full Kafka
  buffer empties.
- `external_sale`: the process is restarted; workers go on and are not disturbed for ever
  (fairness of a step that succeeds: troubles are bounded, and the code retries); the
  outbox thread goes on, and the publisher does not refuse for ever.
- `services`: readers and the writer of a product go on, their calls return.
- `gateway`: a borrower's command ends, workers, loop and main go on, and a client reads
  the answers it gets (`onWrite`).

No client has to submit anything, and no failure has to happen.

**Mutants.** Each property is broken by a plausible bug in the mapped code: an unlocked
reservation, an undo that forgets the reservation, a compensation that forgets the place,
a snapshot that does not wait for the group in flight, a commit before the handler, a
release that wakes nobody, and so on. They stand before the definitions they change, and
are used by no specification.

## What is proved

Thirty theorems, for all values of the constants, under the named assumptions of the
modules: finitely many users or operations, positive limits, and default values
(`Absent`, `NoKey`) that are no others. TLC evaluates the assumptions on every run. What
the lemmas need to know of cardinalities is a formula, `Counting` (in the module of that
name) or, for the units of the inventory, `UnitCounting`; it is a hypothesis of the lemmas
and proved from the library's theorems before the theorems of each module.

**Inventory** (`InventoryAssumption`), any number of SKUs, operations and threads:

- `InventoryTypes`: `Spec => []TypeOK` (proved only, no run repeats it);
- `UndoIsComplete`: `Spec => []MemoryMatchesStore`;
- `AckedIsKept`: `Spec => []AckedReservationKept`;
- `SalesAreDurable`: `Spec => []SaleSurvives`, if nobody calls `rollbackConfirmation`;
- `LedgerAlwaysValid` and `AlwaysRecoverable`: `Spec => []LedgerValid` and
  `Spec => []RecoverableLedger`, if nobody calls `rollbackRelease` or repairs a stock.
  The condition is needed: `rollbackRelease` takes units that may be sold meanwhile.

None of these is inductive: what an undo restores is right only if the saved values are
still those of the table, and what a restart finds depends on which writes in flight are
in the WAL. `SyncInv` (in `InventoryProofs`) says how the three ledgers differ at any
moment: where a SKU is free, `mem` and `data` agree on it (`MemSync`); where a write is in
flight, `mem` is the table with the write applied and the write's saved values are the
table's (`WriteSync`, `WriteShape`); `logged` differs from `data` only by writes that are
logged or failed (`LogSync`, `WriteLogged`), and never loses a reservation (`LogKeeps`);
two writes never share a SKU (`Locks`). One lemma for each group of actions shows that it
is preserved. `LedgerInv` says that every ledger is `Good`: its counters are the sizes of
its sets of units; lemmas say how those sets change when one reservation does.

**Local flash sale** (`PipelineAssumption`), any number of users, keys, request threads,
workers and attempts, any stock, quota and queue limit:

- `PlacesAlwaysCarried`: `Spec => []PlacesCarried`;
- `StockAlwaysOwned`: `Spec => []StockOwned`;
- `ProcessedAlwaysSold`: `Spec => []ProcessedIsSold`;
- `KeysAlwaysUnique`: `Spec => []OneOrderPerKey`.

The four hold together or not at all. That a step touches no other request's stock needs
one request per user (`PlaceInv`); that the order a worker confirms is still there needs
that nobody else erased it; that a user who is admitted again starts clean needs that
those outside the gate have no reservation without an order (the last conjunct of
`ClaimInv`). `PipelineInv` joins them with `StoreInv` (memory and disk are one until a
write fails; after that memory only forgets orders) and `DownInv`; `GateInv`, that the
gate counts its users, is added for `PlacesCarried`. The store is treated first: each kind
of write is a `StoreStep(u)`, which touches nobody but `u`. Then the places: one lemma for
each way a request can move. Then one lemma per action.

**External flash sale** (`RedisAssumption`, `SaleAssumption`), any number of users,
workers, keys, units, attempts and troubles:

- `NeverOversold`: `SaleSpec => []DatabaseNeverOversells`;
- `LedgerHolds`: `SaleSpec => []RedisLedger`;
- `SoldHasRow`: `SaleSpec => []SoldIsStored`;
- `ReservationsAlwaysOwned`: `SaleSpec => []ReservationsAreOwned`.

`SaleInv` adds types (every queued message has a user and a key), that the event being
published has a row, that the reconciler's reading adds up to the stock, and that a worker
about to confirm has found or written the row (`SoldInv`). Each Redis script is shown
`Sound` once, as a function of the record it changes; a step applies one of them, perhaps
without an answer, or none. For the owners of reservations (`OwnedInv`) a worker counts
as an owner only until it has confirmed or released.

**Connection pools** (`PoolAssumption`), any size and any number of borrowers:
`LeasesAlwaysOpen`: `PoolSpec => []LeasesAreOpen`. `LeaseInv` adds types, that a closed
pool has no connections, and that the lent ones are finitely many, which is what makes
`in_use_ = 0` mean that none is lent.

**HTTP server** (`HttpAssumption`), any number of connections, workers and requests:

- `AnswersAlwaysMatchRequests`: `HttpSpec => []AnswersMatchRequests`;
- `NoCallbackLost`: `HttpSpec => []CallbacksAreRun`.

`AnswersInv` says that a task is in one place only (the queue, a worker or a functor), that
it belongs to the connection whose descriptor it carries, which then waits for it, or to
an earlier one of that descriptor, and that a connection has parsed one request more than
it has answers exactly while one is in flight. `ShutdownInv` adds the order of the stages
of `main`, that the functor that quits the loop is the last one ever queued, and that a
worker returned only from an empty queue to which nothing is added any more.

**Engine** (`EngineAssumption`), any number of keys, values and callers, any writes, group
size and length of the WAL:

- `BatchesWholeAlways`: `Spec => []BatchesWhole`, whatever fails or tears;
- `AlwaysOpensWhenSane`: `Spec => []AlwaysOpens`, and
- `EngineImplementsDurableStore`: `Spec => ImplementsDurableStore`, both if a failed append
  leaves nothing of its record and no write has more mutations than `apply` takes (`Sane`).
  `torn_write` shows that the first condition is needed.

`Replay` is a recursive function over the records. What it computes for a WAL of any length
is shown without an induction rule: a set of numbers has a least one (`Least`, from the
library's well-foundedness), so a set that has 0 and every successor has all numbers
(`Climb`), and the set is that of the lengths for which the claim holds. `EngineInv` is the
shape of the engine: every waiting caller is in the queue or in the writer's group, once,
and during a snapshot nobody waits. `EvenInv` says that what is in table, snapshot and WAL
is even; `WalInv` that a torn record is the last one, and there only while the engine is
closed; `TableInv` that the records appended for the group are in the WAL, and that table
and snapshot differ only in keys the WAL writes. The last one is what makes a crash
between the rename of a snapshot and the truncation harmless: replaying the old WAL over
the new snapshot changes nothing (`ReplayMeets`). Each step is then shown to be a step of
`DurableStore` or none.

**Outbox** (`OutboxAssumption`), any number of events and restarts, any size of a batch:

- `AppendedIsKeptAlways`: `OutboxSpec => []AppendedIsKept`;
- `RedeliveredByRestartOnlyAlways`: `OutboxSpec => []RedeliveredByRestartOnly`.

A rewrite replaces the file by what memory holds, so memory has to hold every event that
is not published. `OutboxInv` says so, that no event is twice in memory or in the file, and
that an event handed over in this life of the process has left memory.

**In-memory broker** (`BrokerAssumption`), any number of events, subscriptions, delivering
threads and attempts:

- `DeliveredToAllAlways`: `BrokerSpec => []DeliveredToAll`;
- `DeadAfterMaxAttemptsAlways`: `BrokerSpec => []DeadAfterMaxAttempts`.

`DeliverInv` says of a running delivery that what it calls delivered, and the part of the
event at hand that is done and not spoilt, is handled or dead-lettered, here or in the
thread's own list, and that no dead letter was made for what it has not called yet.
`AttemptInv` needs the latter: a failed call adds its thread to those that hold a dead
letter of the pair, and none is added twice.

**Orders over Kafka** (`KafkaAssumption`), any number of orders, garbled records, attempts
and replays:

- `CommittedIsSettledAlways`: `KafkaSpec => []CommittedIsSettled`;
- `StockFollowsOrderAlways`: `KafkaSpec => []StockFollowsOrder`.

`KafkaInv` says of every record the consumer has left behind what `CommittedIsSettled` says
of the committed ones, where the consumer is in the log, that failures are counted one for
each call, and what the steps before have done for the record at hand (`RecordInv`).

**Products** (`CatalogAssumption`), any number of products and readers, any shard size:

- `MemoryIsDurableAlways`: `CatalogSpec => []MemoryIsDurable`;
- `ReadsOwnChangesAlways`: `CatalogSpec => []ReadsOwnChanges`.

`DurableInv` follows a change through memory and storage. `FreshInv` says of every value in
the cache, in the shared store or in the hands of a reader that it is the product's, unless
another process wrote it, or a change of the product is under way or has ended since the
load began.

**Users** (`UserAssumption`), any number of processes, names, ids, tokens and failures,
with and without a shared store:

- `NamesAlwaysUnique`: `UserSpec => []NamesAreUnique`;
- `RefusedAlways`: `UserSpec => []RefusedForGood`.

`UserInv` says what a registration or disabling under way has written, what the processes
know of a user, and where a disabled user or an ended session may still be found.
`NamesInv` says that a name that is registered, or that a registration has claimed, is taken
in the shared store, or for the single process in its memory and on its disk, and that one
registration at most has claimed a name, and only one that is not registered. That a set
of ids has a highest one (`HasHighest`, for the next id after a restart) is a hypothesis of
the lemmas and proved before the theorems.

**Only model-checked**: all liveness (`RequestsSettle`, `CallersAnswered`, `WaitersReturn`
and the others above), which needs fairness and ENABLED.

## Findings

- `torn_write`: an append that failed half way leaves a torn record; writes queued before
  the error was set are appended behind it and acknowledged, and the WAL may then not be
  replayed (`local_kv_engine.cc:166`).
- `reconcile`: the repair of the Redis stock is made although a reservation is active,
  when the two `reserved` counts happen to agree (`inventory_reconciler.cc:21`): MySQL
  counts every stored order as reserved and never moves it to sold.

Facts met while modelling, which the models contain and no property contradicts:

- Inventory: `rollbackRelease` can drive `available` below zero (`inventory_service.cc:280`;
  nothing calls it). When the batch that releases the orphans fails, the counters of a SKU
  with two orphans are restored in the order they were saved and end up wrong (332-335;
  the process exits there). `reserveStock` answers Ok for an operation it knows in whatever
  state (108), so that a request repeated after its stock was released is queued, and its
  order is written before the confirmation fails.
- Local flash sale: if the engine fails while a message is given up, its order may be on
  the disk and its stock stays reserved after the restart
  (`flash_sale_order_consumer.cc:46-49`). The same is true of an order written just before
  a crash: only a new submission of the same user confirms its stock. A crash between the write of an order and the
  append of its event leaves an order without an event (`order_service.cc:58-61`).
- Engine: `apply` takes 100000 mutations per record and `writeBatch` many more; a larger
  batch would be in the WAL and make every later open fail. `AlwaysOpens` fails in the same
  way if `MaxMutations` is set below the size of the writes.
- Outbox: a torn last record makes `open` refuse the file; the events in it wait for an
  administrator.
- Kafka: a record whose dead letter is refused is passed over by a later commit; when a
  confirmation is refused and its dead letter too, `handle` returns Ok and the record is
  committed; dead letters still in the producer's buffer are lost with the process. The
  names of replay groups start again with the process, so that a later replay may continue
  an earlier one. A replayed order has released stock and becomes a dead letter again.
- Redis queue: a message that BRPOP handed out is gone if the process dies or the reply is
  lost; its stock stays reserved (`ReservationsAreOwned` is therefore stated without
  failures). A COMMIT that reports an error may have been made; the retry finds its row.
- MySQL outbox: with a pool of one connection the second lease of `drainOutbox` always
  times out, and the drain stops there: the oldest event is published by every drain and
  never marked, and the later ones are never published. `OrdersAreAnnounced` is about
  pools of two or more.
- Products: what another process changes is seen when the cached entry has expired, and
  the memory of a process never learns of it; a process that finds the shared entry
  expired puts back its own, perhaps older, state.
- Users: a claim of a name whose reply was lost blocks the name. A process that has learned
  a user whose registration failed and that then disables the user writes the name back;
  after a storage error two users of one name may be on a disk, and `restore` refuses them.
  A process that did not disable a user keeps its copy enabled.

## Not modelled

- A loss of power, as opposed to the end of the process: the rename of a snapshot or of the
  outbox file is not followed by a sync of its directory. File formats and checksums.
- The wire format of messages, which narrows the quantity to 32 bits
  (`order_message.cc:68`): the stock is reserved before a message is made, so this matters
  only for a stock of 2^32 units or more.
- MySQL as the repository with the local inventory, a configuration `main` allows
  (`ecommerce_api_main.cc:415`): the orphan release then looks only at local orders. The
  route for reading an order looks only at the local `OrderService`, also when the orders
  are in MySQL.
- Answers sent in part: the server's answers are sent whole in the model, so that an answer
  half sent and then cut off because the output buffer overflowed (`http_server.cc:119`) is
  not seen.
- The limits on the size of a key and of a value when the WAL is replayed (`wal.cc:136`).
- The HTTP parser, router, buffer and system calls: text and bytes handled by one thread.
  The rate limiter (real-valued tokens and a clock), metrics and logging (nothing reads
  them), hashing and checksums (pure functions).
- What the program does not use: `InMemoryOutbox`, `InMemoryKVStore`, the Redis roll-back
  scripts, `expire`, `hashGet`, `hashSet`. `disable` and `setOnSale` have no route but are
  modelled. The Kafka consumer is modelled although only a tool starts it.
- Cached script digests of the Redis client, the timers of the snapshot worker and the
  back-off of the dispatcher: when something is tried again, not what happens then.
