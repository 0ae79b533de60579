--------------------------- MODULE ProductCatalog ---------------------------
(***************************************************************************)
(* ProductService (src/business/product) over ShardedCache (src/cache): the  *)
(* readers of getProduct go through one shard of the cache, whose getOrLoad  *)
(* lets one reader load a missing product while the others wait for its      *)
(* result.  setOnSale and addProduct hold the service's mutex over memory,   *)
(* local storage and the shared store, and drop the cached value last.  Of a *)
(* product only on_sale is kept; nothing changes the rest.                   *)
(*                                                                           *)
(* The shared store may be used by other processes with storages of their    *)
(* own (deploy/compose/docker-compose.multi.yml), and outlives this one: it   *)
(* may hold anything at the start, and they may write it at any time.         *)
(***************************************************************************)
EXTENDS Integers, Sequences, Functions

CONSTANTS Products,      \* product ids
          Readers,       \* threads in getProduct
          Nobody,
          ShardCapacity,      \* entries of the cache's shard
          MaxEvents      \* bound: successful changes, failed writes and restarts

ASSUME CatalogAssumption ==
  ShardCapacity \in Nat \ {0} /\ MaxEvents \in Nat /\ Nobody \notin Readers

VARIABLES
  withStore,      \* store_ is configured
  products,       \* products_
  storage,        \* "products/" in the local storage
  kv,             \* "product:" in the shared store
  theirs,         \* history: products whose value in kv another process wrote
  cache,          \* entries of the shard, the most recently used first
  inflight,       \* by product: the loading reader and its result
  reader,         \* where each reader is
  writer,         \* the call that holds mutex_
  changes,        \* successful calls so far, by product
  storageFailed,  \* the local storage has reported an error
  failures        \* failed writes and restarts so far

catalogVars == <<withStore, products, storage, kv, theirs, cache, inflight, reader, writer,
                 changes, storageFailed, failures>>

Absent == "absent"
OnSale(b) == IF b THEN "on" ELSE "off"
NoCall == [pc |-> "idle"]
NoLoad == [by |-> Nobody, result |-> "none"]
NoReading == [pc |-> "idle"]

CatalogInit ==
  /\ withStore \in BOOLEAN
  /\ products = [k \in Products |-> Absent] /\ storage = products
  /\ kv \in IF withStore THEN [Products -> {Absent, OnSale(TRUE), OnSale(FALSE)}] ELSE {products}
  /\ theirs = {k \in Products : kv[k] # Absent}
  /\ cache = <<>> /\ inflight = [k \in Products |-> NoLoad]
  /\ reader = [r \in Readers |-> NoReading] /\ writer = NoCall
  /\ changes = [k \in Products |-> 0] /\ storageFailed = FALSE /\ failures = 0

-----------------------------------------------------------------------------
Events == failures + FoldFunction(+, 0, changes)
Works == UNCHANGED failures
Fails == Events < MaxEvents /\ failures' = failures + 1
StoreKept == UNCHANGED <<kv, theirs>>
Put(k, v) == kv' = [kv EXCEPT ![k] = v] /\ theirs' = theirs \ {k}
ReaderTo(r, pc) == reader' = [reader EXCEPT ![r].pc = pc]
ReaderRest == UNCHANGED <<withStore, products, storage, writer, changes, storageFailed>>

\* ShardedCache::get, set and erase; an expired entry is a missing one.
Hit(k) == \E i \in DOMAIN cache : cache[i].key = k
Place(k) == CHOOSE i \in DOMAIN cache : cache[i].key = k
Removed(i) == SubSeq(cache, 1, i - 1) \o SubSeq(cache, i + 1, Len(cache))
Without(k) == IF Hit(k) THEN Removed(Place(k)) ELSE cache
Touched(k) == <<cache[Place(k)]>> \o Without(k)
Shortened(c) == IF Len(c) > ShardCapacity THEN SubSeq(c, 1, Len(c) - 1) ELSE c
Set(e) == Shortened(<<e>> \o Without(e.key))

\* getOrLoad: a hit, or a miss.
get(r, k) ==
  /\ reader[r] = NoReading /\ ReaderRest /\ Works /\ StoreKept /\ UNCHANGED inflight
  /\ IF Hit(k) THEN cache' = Touched(k) /\ UNCHANGED reader
     ELSE reader' = [reader EXCEPT ![r] = [pc |-> "miss", key |-> k]] /\ UNCHANGED cache

\* The 30 s of an entry are over; the 24 h of a shared one are, or the store drops it.
expireEntry(k) ==
  /\ Hit(k) /\ cache' = Without(k)
  /\ Works /\ StoreKept /\ UNCHANGED <<inflight, reader>> /\ ReaderRest
expireShared(k) ==
  /\ kv[k] # Absent /\ Put(k, Absent)
  /\ Works /\ UNCHANGED <<cache, inflight, reader>> /\ ReaderRest

\* Another process sets the product in the shared store: its addProduct, setOnSale or
\* getProduct.  A deletion of its own is expireShared.
otherProcess(k, b) ==
  /\ withStore /\ kv' = [kv EXCEPT ![k] = OnSale(b)] /\ theirs' = theirs \cup {k}
  /\ Works /\ UNCHANGED <<cache, inflight, reader>> /\ ReaderRest

\* After the miss: lead the load, wait for the one under way, or take its result.
joinOrLead(r) ==
  LET k == reader[r].key IN
  /\ reader[r].pc = "miss" /\ ReaderRest /\ Works /\ StoreKept /\ UNCHANGED cache
  /\ \/ /\ inflight[k].by = Nobody
        /\ inflight' = [inflight EXCEPT ![k] = [by |-> r, result |-> "none"]]
        /\ reader' = [reader EXCEPT ![r] = [pc |-> "load", key |-> k, began |-> changes[k]]]
     \/ inflight[k].by # Nobody /\ inflight[k].result = "none" /\ ReaderTo(r, "wait") /\ UNCHANGED inflight
     \/ inflight[k].result # "none" /\ reader' = [reader EXCEPT ![r] = NoReading] /\ UNCHANGED inflight

Loads(r, v, foreign) ==
  reader' = [reader EXCEPT ![r] = [pc |-> "loaded", key |-> @.key, began |-> @.began,
                                   value |-> v, foreign |-> foreign]]

\* getProduct's loader: the shared store, and if it does not have the product ...
loadShared(r) ==
  LET k == reader[r].key IN
  /\ reader[r].pc = "load" /\ ReaderRest /\ StoreKept /\ UNCHANGED <<cache, inflight>>
  /\ \/ (~withStore \/ kv[k] = Absent) /\ ReaderTo(r, "memory") /\ Works
     \/ withStore /\ kv[k] # Absent /\ Loads(r, kv[k], k \in theirs) /\ Works
     \/ withStore /\ Loads(r, "failed", FALSE) /\ Fails

\* ... memory, under the mutex; the shared store learns what was found.
loadMemory(r) ==
  LET k == reader[r].key IN
  /\ reader[r].pc = "memory" /\ writer = NoCall /\ ReaderRest /\ UNCHANGED <<cache, inflight>>
  /\ \/ products[k] = Absent /\ Loads(r, "failed", FALSE) /\ Works /\ StoreKept
     \/ /\ products[k] # Absent /\ Loads(r, products[k], FALSE) /\ Works
        /\ IF withStore THEN Put(k, products[k]) ELSE StoreKept
     \/ /\ products[k] # Absent /\ withStore /\ Loads(r, "failed", FALSE) /\ Fails
        /\ StoreKept \/ Put(k, products[k])

\* The loaded product is cached.  The entry remembers, for ReadsOwnChanges, whether
\* a change of the product ended while it was being loaded, and whether the value was
\* another process's.
cacheLoaded(r) ==
  LET l == reader[r] IN
  /\ l.pc = "loaded" /\ ReaderTo(r, "fulfil") /\ Works /\ StoreKept /\ UNCHANGED inflight /\ ReaderRest
  /\ cache' = IF l.value = "failed" THEN cache
              ELSE Set([key |-> l.key, value |-> l.value, foreign |-> l.foreign,
                        overlapped |-> l.began # changes[l.key]])

\* Mutant: a failed load returns without its promise.
FulfilLoadedOnly(r) ==
  LET l == reader[r] IN
  /\ l.pc = "fulfil" /\ Works /\ StoreKept /\ UNCHANGED cache /\ ReaderRest
  /\ inflight' = [inflight EXCEPT ![l.key].result = l.value]
  /\ reader' = [q \in Readers |-> IF q = r THEN [l EXCEPT !.pc = "leave"]
                  ELSE IF l.value # "failed" /\ reader[q].pc = "wait" /\ reader[q].key = l.key
                  THEN NoReading ELSE reader[q]]

\* The promise is kept: those who wait have the result.
fulfil(r) ==
  LET l == reader[r] IN
  /\ l.pc = "fulfil" /\ Works /\ StoreKept /\ UNCHANGED cache /\ ReaderRest
  /\ inflight' = [inflight EXCEPT ![l.key].result = l.value]
  /\ reader' = [q \in Readers |-> IF q = r THEN [l EXCEPT !.pc = "leave"]
                  ELSE IF reader[q].pc = "wait" /\ reader[q].key = l.key THEN NoReading ELSE reader[q]]

leave(r) ==
  /\ reader[r].pc = "leave" /\ Works /\ StoreKept /\ UNCHANGED cache /\ ReaderRest
  /\ inflight' = [inflight EXCEPT ![reader[r].key] = NoLoad]
  /\ reader' = [reader EXCEPT ![r] = NoReading]

readerStep(r) ==
  joinOrLead(r) \/ loadShared(r) \/ loadMemory(r) \/ cacheLoaded(r) \/ fulfil(r) \/ leave(r)

-----------------------------------------------------------------------------
WriterTo(pc) == writer' = [writer EXCEPT !.pc = pc]
WriterRest == UNCHANGED <<withStore, inflight, reader>>

\* addProduct: memory and the shared store must not know it (a failed look-up counts
\* as not knowing); the shared store, then local storage, then memory.  The one caller
\* adds a product that is on sale.
addProduct(k) ==
  /\ writer = NoCall /\ products[k] = Absent /\ Events < MaxEvents
  /\ \/ (withStore => kv[k] = Absent) /\ Works
     \/ withStore /\ Fails
  /\ writer' = [pc |-> IF withStore THEN "addShared" ELSE "addLocal", key |-> k, to |-> OnSale(TRUE)]
  /\ StoreKept /\ UNCHANGED <<products, storage, cache, changes, storageFailed>> /\ WriterRest

addShared ==
  /\ writer.pc = "addShared" /\ WriterRest
  /\ \/ Put(writer.key, writer.to) /\ WriterTo("addLocal") /\ Works
     \/ (StoreKept \/ Put(writer.key, writer.to)) /\ writer' = NoCall /\ Fails
  /\ UNCHANGED <<products, storage, cache, changes, storageFailed>>

addLocal ==
  LET written == [storage EXCEPT ![writer.key] = writer.to] IN
  /\ writer.pc = "addLocal" /\ WriterRest
  /\ \/ /\ storage' = written /\ products' = [products EXCEPT ![writer.key] = writer.to]
        /\ changes' = [changes EXCEPT ![writer.key] = @ + 1]
        /\ writer' = NoCall /\ Works /\ StoreKept /\ UNCHANGED storageFailed
     \/ /\ storage' \in {storage, written} /\ storageFailed' = TRUE /\ Fails
        /\ StoreKept \/ (withStore /\ Put(writer.key, Absent))
        /\ writer' = NoCall /\ UNCHANGED <<products, changes>>
  /\ UNCHANGED cache

\* setOnSale of a product in memory, or else in the shared store.
setOnSale(k, b) ==
  LET now == IF products[k] # Absent THEN products[k] ELSE kv[k] IN
  /\ writer = NoCall /\ now # Absent /\ Events < MaxEvents
  /\ products' = [products EXCEPT ![k] = OnSale(b)]
  /\ writer' = [pc |-> "local", key |-> k, to |-> OnSale(b), from |-> now]
  /\ Works /\ StoreKept /\ UNCHANGED <<storage, cache, changes, storageFailed>> /\ WriterRest

BackInMemory == products' = [products EXCEPT ![writer.key] = writer.from]

changeLocal ==
  LET written == [storage EXCEPT ![writer.key] = writer.to] IN
  /\ writer.pc = "local" /\ WriterRest
  /\ \/ /\ storage' = written /\ WriterTo(IF withStore THEN "shared" ELSE "erase")
        /\ Works /\ UNCHANGED <<products, storageFailed>>
     \/ /\ storage' \in {storage, written} /\ storageFailed' = TRUE /\ Fails
        /\ BackInMemory /\ writer' = NoCall
  /\ StoreKept /\ UNCHANGED <<cache, changes>>

\* Mutant: memory is put back, the local storage is not.
ChangeSharedUndoesMemory ==
  /\ writer.pc = "shared" /\ WriterRest /\ UNCHANGED <<cache, changes, storage, storageFailed>>
  /\ \/ Put(writer.key, writer.to) /\ WriterTo("erase") /\ Works /\ UNCHANGED products
     \/ (StoreKept \/ Put(writer.key, writer.to)) /\ Fails /\ BackInMemory /\ writer' = NoCall

\* The shared store; when it fails memory and local storage are put back, whatever
\* the outcome of the latter.
changeShared ==
  /\ writer.pc = "shared" /\ WriterRest /\ UNCHANGED <<cache, changes>>
  /\ \/ Put(writer.key, writer.to) /\ WriterTo("erase") /\ Works /\ UNCHANGED <<products, storage, storageFailed>>
     \/ /\ (StoreKept \/ Put(writer.key, writer.to)) /\ Fails /\ BackInMemory /\ writer' = NoCall
        /\ \/ storage' = [storage EXCEPT ![writer.key] = writer.from] /\ UNCHANGED storageFailed
           \/ UNCHANGED storage /\ storageFailed' = TRUE

\* Mutant: the cached value stays.
ChangeEndsWithoutErase ==
  /\ writer.pc = "erase" /\ writer' = NoCall
  /\ changes' = [changes EXCEPT ![writer.key] = @ + 1]
  /\ Works /\ StoreKept /\ UNCHANGED <<products, storage, cache, storageFailed>> /\ WriterRest

\* The end of setOnSale: the cached value is dropped.
eraseCached ==
  /\ writer.pc = "erase" /\ writer' = NoCall /\ cache' = Without(writer.key)
  /\ changes' = [changes EXCEPT ![writer.key] = @ + 1]
  /\ Works /\ StoreKept /\ UNCHANGED <<products, storage, storageFailed>> /\ WriterRest

writerStep == addShared \/ addLocal \/ changeLocal \/ changeShared \/ eraseCached

\* The process dies and restores its products from the local storage.
restartCatalog ==
  /\ Fails /\ products' = storage /\ cache' = <<>> /\ writer' = NoCall
  /\ inflight' = [k \in Products |-> NoLoad] /\ reader' = [r \in Readers |-> NoReading]
  /\ StoreKept /\ UNCHANGED <<withStore, storage, changes, storageFailed>>

CatalogNext ==
  \/ \E r \in Readers : readerStep(r) \/ \E k \in Products : get(r, k)
  \/ \E k \in Products : \/ expireEntry(k) \/ expireShared(k) \/ addProduct(k)
                          \/ \E b \in BOOLEAN : setOnSale(k, b) \/ otherProcess(k, b)
  \/ writerStep
  \/ restartCatalog

CatalogSpec == CatalogInit /\ [][CatalogNext]_catalogVars

-----------------------------------------------------------------------------
\* While no write of this process has failed and none of its changes is under way, a
\* cached product that differs from its memory was put there by a load that one of its
\* changes overtook, or was read in the shared store where another process had written
\* it since.  A load that begins after setOnSale returned so caches the new state, or
\* a later one of another process (sharded_cache.cc:102-104, product_service.cc:54-66,
\* 103, 110).
ReadsOwnChanges ==
  (failures = 0 /\ writer = NoCall) =>
     \A i \in DOMAIN cache :
       cache[i].value # products[cache[i].key] => cache[i].overlapped \/ cache[i].foreign

\* Between calls memory is what a restart would restore, failed writes of the shared
\* store and restarts in the middle of a call included, unless the local storage
\* reported an error (product_service.cc:93-109).
MemoryIsDurable == (writer = NoCall /\ ~storageFailed) => products = storage

\* Every reader that waits for the load of another one returns (sharded_cache.cc:94-98).
WaitersReturn == \A r \in Readers : reader[r].pc = "wait" ~> reader[r].pc # "wait"
=============================================================================
