--------------------------- MODULE CatalogProofs ----------------------------
(***************************************************************************)
(* The product catalog and its cache, for any number of products, readers  *)
(* and changes, and any size of the cache.                                 *)
(*                                                                         *)
(* Neither promise is inductive.  DurableInv follows a change of a product *)
(* through memory and storage; FreshInv says of every cached or loaded     *)
(* value that it is the product's, unless a change of the product is under *)
(* way or has ended since the load began, or another process wrote it.     *)
(***************************************************************************)
EXTENDS ProductCatalog, TLAPS

-----------------------------------------------------------------------------
(* Products in memory and in storage.                                      *)

Values == {"on", "off"}
Kept == Values \cup {Absent}

AddCall == [pc : {"addShared", "addLocal"}, key : Products, to : Values]
ChangeCall == [pc : {"local", "shared", "erase"}, key : Products, to : Values, from : Values]

\* What a change has done so far.
DurableInv ==
  /\ products \in [Products -> Kept] /\ storage \in [Products -> Kept]
  /\ kv \in [Products -> Kept]
  /\ writer \in {NoCall} \cup AddCall \cup ChangeCall
  /\ ~storageFailed /\ writer.pc # "local" => products = storage
  /\ ~storageFailed /\ writer.pc = "local" =>
       \A k \in Products : k # writer.key => products[k] = storage[k]
  /\ writer \in ChangeCall => products[writer.key] = writer.to

\* No reader changes memory, storage or the writer's call.
LEMMA ReaderDurable ==
  ASSUME DurableInv, ReaderRest, kv' \in [Products -> Kept]
  PROVE  DurableInv'
  BY Zenon DEF DurableInv, ReaderRest

\* The shared store learns what memory has, or forgets, or another process writes it.
LEMMA ReaderStepDurable ==
  ASSUME DurableInv,
         \/ \E r \in Readers : readerStep(r) \/ \E k \in Products : get(r, k)
         \/ \E k \in Products : expireEntry(k) \/ expireShared(k)
         \/ \E k \in Products, b \in BOOLEAN : otherProcess(k, b)
  PROVE  DurableInv'
<1>1. ReaderRest
  BY Zenon DEF readerStep, joinOrLead, loadShared, loadMemory, cacheLoaded, fulfil, leave, get,
         expireEntry, expireShared, otherProcess
<1>2. \/ kv' = kv \/ (\E k \in Products : kv' = [kv EXCEPT ![k] = Absent])
      \/ (\E k : kv' = [kv EXCEPT ![k] = products[k]] /\ products[k] # Absent)
      \/ (\E k \in Products, b \in BOOLEAN : kv' = [kv EXCEPT ![k] = OnSale(b)])
  BY Zenon DEF readerStep, joinOrLead, loadShared, loadMemory, cacheLoaded, fulfil, leave, get,
         expireEntry, expireShared, otherProcess, StoreKept, Put
<1>3. kv' \in [Products -> Kept]
  <2>1. \A b \in BOOLEAN : OnSale(b) \in Values
    BY Zenon DEF OnSale, Values
  <2> QED
    BY <1>2, <2>1, Zenon DEF DurableInv, Kept
<1> QED
  BY <1>1, <1>3, ReaderDurable, Zenon

\* What a writer's call knows of its product.
LEMMA WriterTypes ==
  ASSUME DurableInv
  PROVE  /\ writer.pc \in {"addShared", "addLocal"} => writer \in AddCall
         /\ writer.pc \in {"local", "shared", "erase"} => writer \in ChangeCall
         /\ NoCall.pc = "idle" /\ NoCall \notin ChangeCall
         /\ \A w \in AddCall : w \notin ChangeCall /\ w.pc # "local"
  BY DEF DurableInv, NoCall, AddCall, ChangeCall

\* The beginning of a call.
LEMMA BeginDurable ==
  ASSUME DurableInv, NEW k \in Products, addProduct(k) \/ \E b \in BOOLEAN : setOnSale(k, b)
  PROVE  DurableInv'
<1>1. writer.pc = "idle"
  <2>1. writer = NoCall
    BY Zenon DEF addProduct, setOnSale
  <2> QED
    BY <2>1, Zenon DEF NoCall
<1>2. CASE addProduct(k)
  <2>1. /\ writer' \in AddCall /\ writer'.pc # "local" /\ writer' \notin ChangeCall
        /\ UNCHANGED <<products, storage, kv, storageFailed>>
    BY <1>2, Zenon DEF addProduct, AddCall, ChangeCall, OnSale, Values, StoreKept
  <2> QED
    BY <1>1, <2>1, Zenon DEF DurableInv
<1>3. ASSUME NEW b \in BOOLEAN, setOnSale(k, b) PROVE DurableInv'
  <2>1. PICK now \in Values :
          /\ writer' = [pc |-> "local", key |-> k, to |-> OnSale(b), from |-> now]
          /\ products' = [products EXCEPT ![k] = OnSale(b)]
          /\ UNCHANGED <<storage, kv, storageFailed>>
    BY <1>3, Zenon DEF setOnSale, DurableInv, Kept, StoreKept
  <2>2. OnSale(b) \in Values
    BY Zenon DEF OnSale, Values
  <2>3. /\ writer' \in ChangeCall /\ writer'.pc = "local" /\ writer'.key = k
        /\ writer'.to = OnSale(b)
    BY <2>1, <2>2, Zenon DEF ChangeCall
  <2>4. /\ products' \in [Products -> Kept] /\ products'[k] = OnSale(b)
        /\ \A j \in Products : j # k => products'[j] = products[j]
    BY <2>1, <2>2, Zenon DEF DurableInv, Kept
  <2> QED
    BY <1>1, <2>1, <2>3, <2>4, Zenon DEF DurableInv
<1> QED
  BY <1>2, <1>3, Zenon

\* A call that adds a product.
LEMMA AddDurable ==
  ASSUME DurableInv, addShared \/ addLocal
  PROVE  DurableInv'
<1>1. writer \in AddCall
  BY WriterTypes, Zenon DEF addShared, addLocal
<1>2. PICK k \in Products, v \in Values : writer.key = k /\ writer.to = v
  BY <1>1, Zenon DEF AddCall
<1>3. CASE addShared
  <2>1. /\ UNCHANGED <<products, storage, storageFailed>>
        /\ kv' = kv \/ kv' = [kv EXCEPT ![k] = v]
        /\ writer' = NoCall \/ writer' = [writer EXCEPT !.pc = "addLocal"]
    BY <1>2, <1>3, Zenon DEF addShared, WriterTo, StoreKept, Put
  <2>2. kv' \in [Products -> Kept]
    BY <2>1, Zenon DEF DurableInv, Kept
  <2>3. writer' \in {NoCall} \cup AddCall
    BY <1>1, <2>1, Zenon DEF AddCall
  <2>4. writer.pc # "local" /\ writer'.pc # "local" /\ writer' \notin ChangeCall
    BY <1>1, <2>3, WriterTypes, Zenon
  <2> QED
    BY <2>1, <2>2, <2>3, <2>4, Zenon DEF DurableInv
<1>4. CASE addLocal
  <2>1. /\ writer' = NoCall
        /\ \/ /\ storage' = [storage EXCEPT ![k] = v] /\ products' = [products EXCEPT ![k] = v]
              /\ UNCHANGED <<kv, storageFailed>>
           \/ /\ storage' = storage \/ storage' = [storage EXCEPT ![k] = v]
              /\ storageFailed' = TRUE /\ UNCHANGED products
              /\ kv' = kv \/ kv' = [kv EXCEPT ![k] = Absent]
    BY <1>2, <1>4, Zenon DEF addLocal, StoreKept, Put
  <2>2. /\ kv' \in [Products -> Kept] /\ products' \in [Products -> Kept]
        /\ storage' \in [Products -> Kept]
    BY <2>1 DEF DurableInv, Kept
  <2>3. writer.pc # "local" /\ writer'.pc # "local" /\ writer' \notin ChangeCall
    BY <1>1, <2>1, WriterTypes, Zenon
  <2> QED
    BY <2>1, <2>2, <2>3, Zenon DEF DurableInv
<1> QED
  BY <1>3, <1>4, Zenon

\* A call that changes a product: memory first, then storage, and both are put back.
LEMMA ChangeDurable ==
  ASSUME DurableInv, changeLocal \/ changeShared \/ eraseCached
  PROVE  DurableInv'
<1>1. writer \in ChangeCall
  BY WriterTypes, Zenon DEF changeLocal, changeShared, eraseCached
<1>2. PICK k \in Products, v \in Values, u \in Values :
        writer.key = k /\ writer.to = v /\ writer.from = u
  BY <1>1, Zenon DEF ChangeCall
<1>3. \A pc \in {"shared", "erase"} :
        LET w == [writer EXCEPT !.pc = pc]
        IN  w \in ChangeCall /\ w.pc = pc /\ w.key = k /\ w.to = v
  BY <1>1, <1>2, Zenon DEF ChangeCall
<1>4. NoCall.pc = "idle" /\ NoCall \notin ChangeCall
  BY WriterTypes, Zenon
<1>5. products[k] = v
  BY <1>1, <1>2, Zenon DEF DurableInv
<1>6. CASE changeLocal
  <2>1. CASE /\ storage' = [storage EXCEPT ![k] = v] /\ UNCHANGED <<products, kv, storageFailed>>
             /\ \E pc \in {"shared", "erase"} : writer' = [writer EXCEPT !.pc = pc]
    <3>1. /\ writer' \in ChangeCall /\ writer'.pc # "local" /\ writer'.key = k /\ writer'.to = v
      BY <1>3, <2>1, Zenon
    <3>2. writer.pc = "local"
      BY <1>6, Zenon DEF changeLocal
    <3>3. storage' \in [Products -> Kept]
      BY <2>1, Zenon DEF DurableInv, Kept
    <3>4. ~storageFailed => products = storage'
      <4>1. ~storageFailed => \A j \in Products : products[j] = storage'[j]
        BY <1>2, <1>5, <2>1, <3>2, Zenon DEF DurableInv
      <4> QED
        BY <3>3, <4>1 DEF DurableInv
    <3> QED
      BY <1>5, <2>1, <3>1, <3>3, <3>4, Zenon DEF DurableInv
  <2>2. CASE /\ storage' = storage \/ storage' = [storage EXCEPT ![k] = v]
             /\ products' = [products EXCEPT ![k] = u] /\ UNCHANGED kv
             /\ storageFailed' = TRUE /\ writer' = NoCall
    <3>1. storage' \in [Products -> Kept] /\ products' \in [Products -> Kept]
      BY <2>2, Zenon DEF DurableInv, Kept
    <3> QED
      BY <1>4, <2>2, <3>1, Zenon DEF DurableInv
  <2> QED
    BY <1>2, <1>6, <2>1, <2>2, Zenon DEF changeLocal, WriterTo, BackInMemory, StoreKept
<1>7. CASE changeShared
  <2>1. CASE /\ kv' = [kv EXCEPT ![k] = v] /\ writer' = [writer EXCEPT !.pc = "erase"]
             /\ UNCHANGED <<products, storage, storageFailed>>
    <3>1. /\ writer' \in ChangeCall /\ writer'.pc # "local" /\ writer'.key = k /\ writer'.to = v
      BY <1>3, <2>1, Zenon
    <3>2. writer.pc # "local" /\ kv' \in [Products -> Kept]
      BY <1>7, <2>1, Zenon DEF changeShared, DurableInv, Kept
    <3> QED
      BY <1>5, <2>1, <3>1, <3>2, Zenon DEF DurableInv
  <2>2. CASE /\ kv' = kv \/ kv' = [kv EXCEPT ![k] = v]
             /\ products' = [products EXCEPT ![k] = u] /\ writer' = NoCall
             /\ \/ storage' = [storage EXCEPT ![k] = u] /\ UNCHANGED storageFailed
                \/ UNCHANGED storage /\ storageFailed' = TRUE
    <3>1. /\ kv' \in [Products -> Kept] /\ storage' \in [Products -> Kept]
          /\ products' \in [Products -> Kept]
      BY <2>2 DEF DurableInv, Kept
    <3>2. writer.pc # "local"
      BY <1>7, Zenon DEF changeShared
    <3>3. ~storageFailed' => products' = storage'
      BY <2>2, <3>2 DEF DurableInv
    <3> QED
      BY <1>4, <2>2, <3>1, <3>3, Zenon DEF DurableInv
  <2> QED
    BY <1>2, <1>7, <2>1, <2>2, Zenon DEF changeShared, WriterTo, BackInMemory, StoreKept, Put
<1>8. CASE eraseCached
  BY <1>4, <1>8, Zenon DEF eraseCached, DurableInv, StoreKept
<1> QED
  BY <1>6, <1>7, <1>8, Zenon

\* DurableInv is inductive.
LEMMA DurableStep == DurableInv /\ [CatalogNext]_catalogVars => DurableInv'
<1> SUFFICES ASSUME DurableInv, [CatalogNext]_catalogVars PROVE DurableInv'
  BY Zenon
<1>1. CASE restartCatalog
  BY <1>1, WriterTypes, Zenon DEF restartCatalog, DurableInv, StoreKept
<1>2. CASE UNCHANGED catalogVars
  BY <1>2, Zenon DEF catalogVars, DurableInv
<1> QED
  BY <1>1, <1>2, ReaderStepDurable, BeginDurable, AddDurable, ChangeDurable, Zenon
     DEF CatalogNext, writerStep

\* At first memory and storage have no product; the shared store may have any.
LEMMA DurableInit == CatalogInit => DurableInv
  BY DEF CatalogInit, DurableInv, Kept, Values, OnSale, Absent, NoCall, ChangeCall

\* Between calls memory is what a restart would restore, as long as the local storage
\* has reported no error: failed writes of the shared store and restarts between two
\* writes of a call leave nothing behind (product_service.cc:93-109).
THEOREM MemoryIsDurableAlways == CatalogSpec => []MemoryIsDurable
<1>1. DurableInv => MemoryIsDurable
  BY DEF DurableInv, MemoryIsDurable, NoCall
<1> QED
  BY <1>1, DurableInit, DurableStep, PTL DEF CatalogSpec

-----------------------------------------------------------------------------
(* Cached and loaded products.                                             *)

Entry == [key : Products, value : Values, foreign : BOOLEAN, overlapped : BOOLEAN]
Reading == [pc : {"miss", "wait"}, key : Products]
Loading == [pc : {"load", "memory"}, key : Products, began : Nat]
Holding == [pc : {"loaded", "fulfil", "leave"}, key : Products, began : Nat,
           value : Values \cup {"failed"}, foreign : BOOLEAN]

\* No key is twice in the list of the shard.
OnePerKey(c) == \A i, j \in 1..Len(c) : c[i].key = c[j].key => i = j

Members(c) == {c[i] : i \in 1..Len(c)}

ReaderTypes ==
  /\ cache \in Seq(Entry) /\ OnePerKey(cache)
  /\ changes \in [Products -> Nat] /\ failures \in Nat
  /\ reader \in [Readers -> {NoReading} \cup Reading \cup Loading \cup Holding]

Changing(k) == writer \in ChangeCall /\ writer.key = k
Adding(k) == writer \in AddCall /\ writer.key = k

\* v is what the product is, or about to be; or the cached value will be dropped.
Fresh(k, v) == Changing(k) \/ v = products[k] \/ (Adding(k) /\ v = writer.to)

\* What the shared store may have.
SharedFresh ==
  /\ ~withStore => \A k \in Products : kv[k] = Absent
  /\ \A k \in Products :
       \/ k \in theirs \/ kv[k] \in {Absent, products[k]}
       \/ Adding(k) /\ kv[k] = writer.to
       \/ Changing(k) /\ writer.pc \in {"local", "shared"}
  /\ writer \in AddCall => products[writer.key] = Absent
  /\ writer.pc \in {"addShared", "shared"} => withStore

EntriesFresh(c) == \A e \in Members(c) : e.overlapped \/ e.foreign \/ Fresh(e.key, e.value)

\* A load that no change has overtaken has a value that may be cached.
LoadFresh(l) ==
  /\ l \in Loading \cup Holding => l.began <= changes[l.key]
  /\ l.pc = "loaded" =>
       l.value = "failed" \/ l.began # changes[l.key] \/ l.foreign \/ Fresh(l.key, l.value)

FreshInv ==
  /\ DurableInv /\ ReaderTypes
  /\ failures = 0 =>
       SharedFresh /\ EntriesFresh(cache) /\ \A r \in Readers : LoadFresh(reader[r])

\* Two sequences, one after the other.
LEMMA Joined ==
  ASSUME NEW S, NEW a \in Seq(S), NEW b \in Seq(S)
  PROVE  /\ a \o b \in Seq(S) /\ Len(a \o b) = Len(a) + Len(b)
         /\ \A j \in 1..Len(a \o b) : (a \o b)[j] = IF j <= Len(a) THEN a[j] ELSE b[j - Len(a)]
  OBVIOUS

\* A sequence without one of its elements.
LEMMA RemovedOne ==
  ASSUME NEW S, NEW c \in Seq(S), NEW i \in 1..Len(c)
  PROVE  \E d \in Seq(S) :
           /\ d = SubSeq(c, 1, i - 1) \o SubSeq(c, i + 1, Len(c)) /\ Len(d) = Len(c) - 1
           /\ \A j \in 1..Len(d) : d[j] = IF j < i THEN c[j] ELSE c[j + 1]
<1>1. PICK a \in Seq(S) : /\ a = SubSeq(c, 1, i - 1) /\ Len(a) = i - 1
                          /\ \A j \in 1..(i - 1) : a[j] = c[j]
  <2>1. /\ SubSeq(c, 1, i - 1) \in Seq(S) /\ Len(SubSeq(c, 1, i - 1)) = i - 1
        /\ \A j \in 1..(i - 1) : SubSeq(c, 1, i - 1)[j] = c[j]
    OBVIOUS
  <2> QED
    BY <2>1, Zenon
<1>2. PICK b \in Seq(S) : /\ b = SubSeq(c, i + 1, Len(c)) /\ Len(b) = Len(c) - i
                          /\ \A j \in 1..(Len(c) - i) : b[j] = c[i + j]
  <2>1. /\ SubSeq(c, i + 1, Len(c)) \in Seq(S) /\ Len(SubSeq(c, i + 1, Len(c))) = Len(c) - i
        /\ \A j \in 1..(Len(c) - i) : SubSeq(c, i + 1, Len(c))[j] = c[i + j]
    OBVIOUS
  <2> QED
    BY <2>1, Zenon
<1>3. PICK d \in Seq(S) :
        /\ d = a \o b /\ Len(d) = Len(a) + Len(b)
        /\ \A j \in 1..Len(d) : d[j] = IF j <= Len(a) THEN a[j] ELSE b[j - Len(a)]
  <2>1. /\ a \o b \in Seq(S) /\ Len(a \o b) = Len(a) + Len(b)
        /\ \A j \in 1..Len(a \o b) : (a \o b)[j] = IF j <= Len(a) THEN a[j] ELSE b[j - Len(a)]
    BY Joined, Zenon
  <2> QED
    BY <2>1, Zenon
<1>4. i \in Nat /\ Len(c) \in Nat /\ i <= Len(c) /\ i >= 1
  OBVIOUS
<1>5. Len(a) = i - 1 /\ Len(b) = Len(c) - i /\ Len(d) = Len(a) + Len(b)
  BY <1>1, <1>2, <1>3, Zenon
<1>6. Len(d) = Len(c) - 1
  BY <1>4, <1>5
<1>7. ASSUME NEW j \in 1..Len(d) PROVE d[j] = IF j < i THEN c[j] ELSE c[j + 1]
  <2>1. CASE j < i
    <3>1. j \in 1..(i - 1) /\ j <= Len(a)
      BY <1>4, <1>5, <2>1
    <3> QED
      BY <1>1, <1>3, <2>1, <3>1, Zenon
  <2>2. CASE ~(j < i)
    <3>1. /\ ~(j <= Len(a)) /\ j - Len(a) \in 1..(Len(c) - i) /\ i + (j - Len(a)) = j + 1
      BY <1>4, <1>5, <1>6, <2>2
    <3>2. d[j] = b[j - Len(a)] /\ b[j - Len(a)] = c[i + (j - Len(a))]
      BY <1>2, <1>3, <3>1, Zenon
    <3> QED
      BY <2>2, <3>1, <3>2, Zenon
  <2> QED
    BY <2>1, <2>2, Zenon
<1> QED
  BY <1>1, <1>2, <1>3, <1>6, <1>7, Zenon

\* The cache without product k.
LEMMA WithoutFacts ==
  ASSUME cache \in Seq(Entry), OnePerKey(cache), NEW k
  PROVE  /\ Without(k) \in Seq(Entry) /\ OnePerKey(Without(k))
         /\ Members(Without(k)) \subseteq Members(cache)
         /\ \A i \in 1..Len(Without(k)) : Without(k)[i].key # k
<1>0. DOMAIN cache = 1..Len(cache)
  OBVIOUS
<1>1. CASE ~Hit(k)
  BY <1>0, <1>1, Zenon DEF Without, Hit
<1>2. CASE Hit(k)
  <2>1. PICK i \in 1..Len(cache) : i = Place(k) /\ cache[i].key = k
    BY <1>0, <1>2, Zenon DEF Hit, Place
  <2>2. Without(k) = SubSeq(cache, 1, i - 1) \o SubSeq(cache, i + 1, Len(cache))
    BY <1>2, <2>1, Zenon DEF Without, Removed
  <2>3. PICK d \in Seq(Entry) :
          /\ d = SubSeq(cache, 1, i - 1) \o SubSeq(cache, i + 1, Len(cache))
          /\ Len(d) = Len(cache) - 1
          /\ \A j \in 1..Len(d) : d[j] = IF j < i THEN cache[j] ELSE cache[j + 1]
    BY RemovedOne, ZenonT(30)
  <2>4. /\ Len(d) = Len(cache) - 1
        /\ \A j \in 1..Len(d) : d[j] = IF j < i THEN cache[j] ELSE cache[j + 1]
    BY <2>3, Zenon
  <2>5. PICK n \in Nat : n = Len(cache) /\ i \in 1..n
    OBVIOUS
  <2>6. \A j \in 1..Len(d) :
          \E m \in 1..n : m # i /\ d[j] = cache[m] /\ m = IF j < i THEN j ELSE j + 1
    BY <2>4, <2>5
  <2>7. /\ Members(d) \subseteq Members(cache) /\ \A j \in 1..Len(d) : d[j].key # k
    BY <2>1, <2>5, <2>6 DEF Members, OnePerKey
  <2>8. OnePerKey(d)
    <3> SUFFICES ASSUME NEW a \in 1..Len(d), NEW b \in 1..Len(d), d[a].key = d[b].key
                 PROVE  a = b
      BY Zenon DEF OnePerKey
    <3>1. PICK l \in 1..n : l # i /\ d[a] = cache[l] /\ l = IF a < i THEN a ELSE a + 1
      BY <2>6, Zenon
    <3>2. PICK m \in 1..n : m # i /\ d[b] = cache[m] /\ m = IF b < i THEN b ELSE b + 1
      BY <2>6, Zenon
    <3>3. l = m
      BY <2>5, <3>1, <3>2, Zenon DEF OnePerKey
    <3> QED
      BY <2>4, <2>5, <3>1, <3>2, <3>3
  <2> QED
    BY <2>2, <2>3, <2>7, <2>8, Zenon
<1> QED
  BY <1>1, <1>2, Zenon

\* An entry in front of the others, and the list cut to the capacity of the shard.
LEMMA Prepended ==
  ASSUME NEW e \in Entry, NEW c \in Seq(Entry), OnePerKey(c),
         \A i \in 1..Len(c) : c[i].key # e.key
  PROVE  /\ <<e>> \o c \in Seq(Entry) /\ OnePerKey(<<e>> \o c)
         /\ Members(<<e>> \o c) \subseteq Members(c) \cup {e}
<1>1. PICK d : d = <<e>> \o c
  BY Zenon
<1>2. <<e>> \in Seq(Entry) /\ Len(<<e>>) = 1 /\ <<e>>[1] = e
  OBVIOUS
<1>3. /\ d \in Seq(Entry) /\ Len(d) = 1 + Len(c) /\ Len(c) \in Nat
      /\ \A i \in 1..Len(d) : d[i] = IF i = 1 THEN e ELSE c[i - 1]
  BY <1>1, <1>2
<1>4. \A i \in 1..Len(d) : i # 1 => i - 1 \in 1..Len(c)
  BY <1>3
<1>5. OnePerKey(d)
  <2> SUFFICES ASSUME NEW i \in 1..Len(d), NEW j \in 1..Len(d), d[i].key = d[j].key
               PROVE  i = j
    BY Zenon DEF OnePerKey
  <2>1. CASE i = 1 /\ j # 1
    BY <1>3, <1>4, <2>1, Zenon
  <2>2. CASE i # 1 /\ j = 1
    BY <1>3, <1>4, <2>2, Zenon
  <2>3. CASE i # 1 /\ j # 1
    <3>1. i - 1 = j - 1
      BY <1>3, <1>4, <2>3, SMTT(30) DEF OnePerKey
    <3> QED
      BY <1>3, <3>1
  <2> QED
    BY <2>1, <2>2, <2>3, Zenon
<1>6. Members(d) \subseteq Members(c) \cup {e}
  BY <1>3, <1>4 DEF Members
<1> QED
  BY <1>1, <1>3, <1>5, <1>6, Zenon

\* The first entries of a list.
LEMMA Beginning ==
  ASSUME NEW S, NEW c \in Seq(S), NEW n \in Nat, n <= Len(c)
  PROVE  /\ SubSeq(c, 1, n) \in Seq(S) /\ Len(SubSeq(c, 1, n)) = n
         /\ \A i \in 1..n : SubSeq(c, 1, n)[i] = c[i]
  OBVIOUS

\* Eviction drops the last entry of a list that grew too long.
LEMMA ShortenedFacts ==
  ASSUME NEW c \in Seq(Entry), OnePerKey(c)
  PROVE  /\ Shortened(c) \in Seq(Entry) /\ OnePerKey(Shortened(c))
         /\ Members(Shortened(c)) \subseteq Members(c)
<1>1. CASE Len(c) > ShardCapacity
  <2>1. Len(c) \in Nat /\ Len(c) - 1 \in Nat /\ Len(c) - 1 <= Len(c)
    BY <1>1, CatalogAssumption
  <2>2. PICK d \in Seq(Entry) : /\ d = SubSeq(c, 1, Len(c) - 1) /\ Len(d) = Len(c) - 1
                                /\ \A i \in 1..(Len(c) - 1) : d[i] = c[i]
    <3>1. /\ SubSeq(c, 1, Len(c) - 1) \in Seq(Entry)
          /\ Len(SubSeq(c, 1, Len(c) - 1)) = Len(c) - 1
          /\ \A i \in 1..(Len(c) - 1) : SubSeq(c, 1, Len(c) - 1)[i] = c[i]
      BY <2>1, Beginning, Zenon
    <3> QED
      BY <3>1, Zenon
  <2>3. \A i \in 1..Len(d) : d[i] = c[i] /\ i \in 1..Len(c)
    BY <2>1, <2>2
  <2>4. OnePerKey(d) /\ Members(d) \subseteq Members(c)
    BY <2>3, ZenonT(30) DEF OnePerKey, Members
  <2> QED
    BY <1>1, <2>2, <2>4, Zenon DEF Shortened
<1>2. CASE ~(Len(c) > ShardCapacity)
  BY <1>2, Zenon DEF Shortened
<1> QED
  BY <1>1, <1>2, Zenon

\* ShardedCache::set.
LEMMA SetFacts ==
  ASSUME cache \in Seq(Entry), OnePerKey(cache), NEW e \in Entry
  PROVE  /\ Set(e) \in Seq(Entry) /\ OnePerKey(Set(e))
         /\ Members(Set(e)) \subseteq Members(cache) \cup {e}
<1>1. PICK c : c = Without(e.key)
  BY Zenon
<1>2. /\ c \in Seq(Entry) /\ OnePerKey(c) /\ Members(c) \subseteq Members(cache)
      /\ \A i \in 1..Len(c) : c[i].key # e.key
  BY <1>1, WithoutFacts, Zenon
<1>3. PICK d : d = <<e>> \o c
  BY Zenon
<1>4. d \in Seq(Entry) /\ OnePerKey(d) /\ Members(d) \subseteq Members(c) \cup {e}
  BY <1>2, <1>3, Prepended, Zenon
<1>5. Set(e) = Shortened(d)
  BY <1>1, <1>3, Zenon DEF Set
<1> QED
  BY <1>2, <1>4, <1>5, ShortenedFacts, Zenon

\* ShardedCache::get of a product it has.
LEMMA TouchedFacts ==
  ASSUME cache \in Seq(Entry), OnePerKey(cache), NEW k, Hit(k)
  PROVE  /\ Touched(k) \in Seq(Entry) /\ OnePerKey(Touched(k))
         /\ Members(Touched(k)) \subseteq Members(cache)
<1>1. PICK i \in 1..Len(cache) : i = Place(k) /\ cache[i].key = k
  BY DEF Hit, Place
<1>2. PICK e : e = cache[i]
  BY Zenon
<1>3. e \in Entry /\ e.key = k /\ e \in Members(cache)
  BY <1>1, <1>2 DEF Members
<1>4. PICK c : c = Without(k)
  BY Zenon
<1>5. /\ c \in Seq(Entry) /\ OnePerKey(c) /\ Members(c) \subseteq Members(cache)
      /\ \A j \in 1..Len(c) : c[j].key # k
  BY <1>4, WithoutFacts, Zenon
<1>6. Touched(k) = <<e>> \o c
  BY <1>1, <1>2, <1>4, Zenon DEF Touched
<1>7. /\ <<e>> \o c \in Seq(Entry) /\ OnePerKey(<<e>> \o c)
      /\ Members(<<e>> \o c) \subseteq Members(c) \cup {e}
  BY <1>3, <1>5, Prepended, Zenon
<1>8. Members(c) \cup {e} \subseteq Members(cache)
  BY <1>3, <1>5, Zenon
<1> QED
  BY <1>6, <1>7, <1>8, Zenon

\* What a step of a reader, the clock or another process does to the shared store.
StoreStep(k) ==
  \/ kv'[k] = kv[k] /\ (k \in theirs => k \in theirs')
  \/ kv'[k] = Absent
  \/ withStore /\ (kv'[k] = products[k] \/ k \in theirs')

\* Nothing, most of the time.
LEMMA StoreStays ==
  ASSUME UNCHANGED <<kv, theirs>>
  PROVE  \A k \in Products : StoreStep(k)
  BY Zenon DEF StoreStep

\* A step of a reader, or of the clock: memory, the writer's call and the changes stay.
LEMMA ReaderFresh ==
  ASSUME FreshInv, DurableInv', ReaderTypes', ReaderRest,
         failures' = failures \/ failures' = failures + 1,
         failures' = 0 =>
           /\ \A k \in Products : StoreStep(k)
           /\ \A e \in Members(cache') :
                e \in Members(cache) \/ e.overlapped \/ e.foreign \/ Fresh(e.key, e.value)
           /\ \A q \in Readers : reader'[q] = reader[q] \/ LoadFresh(reader'[q])
  PROVE  FreshInv'
<1>1. UNCHANGED <<withStore, products, writer, changes>>
  BY Zenon DEF ReaderRest
<1>2. \A k, v : Fresh(k, v)' <=> Fresh(k, v)
  BY <1>1, Zenon DEF Fresh, Changing, Adding
<1>3. ASSUME failures' = 0 PROVE failures = 0
  BY <1>3 DEF FreshInv, ReaderTypes
<1>4. ASSUME failures' = 0 PROVE SharedFresh'
  BY <1>1, <1>3, <1>4, Zenon DEF FreshInv, SharedFresh, StoreStep, Changing, Adding
<1>5. ASSUME failures' = 0 PROVE EntriesFresh(cache)'
  BY <1>2, <1>3, <1>5, Zenon DEF FreshInv, EntriesFresh
<1>6. ASSUME failures' = 0, NEW q \in Readers PROVE LoadFresh(reader[q])'
  <2>1. LoadFresh(reader'[q])
    BY <1>3, <1>6, Zenon DEF FreshInv
  <2> QED
    BY <1>1, <1>2, <2>1, Zenon DEF LoadFresh
<1> QED
  BY <1>4, <1>5, <1>6, Zenon DEF FreshInv

\* The four kinds of readers.
LEMMA ReaderKinds ==
  ASSUME ReaderTypes, NEW r \in Readers
  PROVE  /\ reader[r].pc \in {"miss", "wait"} => reader[r] \in Reading
         /\ reader[r].pc \in {"load", "memory"} => reader[r] \in Loading
         /\ reader[r].pc \in {"loaded", "fulfil", "leave"} => reader[r] \in Holding
  BY DEF ReaderTypes, NoReading, Reading, Loading, Holding

\* A reader that has not begun to load, or has cached its value, promises nothing.
LEMMA NothingHeld ==
  /\ LoadFresh(NoReading)
  /\ \A l \in Reading : LoadFresh(l)
  BY Zenon DEF LoadFresh, NoReading, Reading, Loading, Holding

\* A reader that moves from one state to another.
LEMMA ReaderMoves ==
  ASSUME ReaderTypes, NEW r \in Readers, NEW l \in {NoReading} \cup Reading \cup Loading \cup Holding,
         reader' = [reader EXCEPT ![r] = l]
  PROVE  /\ reader' \in [Readers -> {NoReading} \cup Reading \cup Loading \cup Holding]
         /\ reader'[r] = l /\ \A q \in Readers : q # r => reader'[q] = reader[q]
  BY Zenon DEF ReaderTypes

\* getOrLoad looks the product up.
LEMMA GetFresh ==
  ASSUME FreshInv, DurableInv', NEW r \in Readers, NEW k \in Products, get(r, k)
  PROVE  FreshInv'
<1>1. ReaderRest /\ UNCHANGED <<kv, theirs, changes, failures>> /\ ReaderTypes
  BY Zenon DEF get, Works, StoreKept, ReaderRest, FreshInv
<1>2. CASE Hit(k)
  <2>1. cache' = Touched(k) /\ UNCHANGED reader
    BY <1>2, Zenon DEF get
  <2>2. /\ Touched(k) \in Seq(Entry) /\ OnePerKey(Touched(k))
        /\ Members(Touched(k)) \subseteq Members(cache)
    BY <1>1, <1>2, TouchedFacts, Zenon DEF ReaderTypes
  <2>3. ReaderTypes'
    BY <1>1, <2>1, <2>2, Zenon DEF ReaderTypes
  <2> QED
    BY <1>1, <2>1, <2>2, <2>3, StoreStays, ReaderFresh, Zenon
<1>3. CASE ~Hit(k)
  <2>1. PICK l \in Reading : reader' = [reader EXCEPT ![r] = l] /\ UNCHANGED cache
    BY <1>3, Zenon DEF get, Reading
  <2>2. /\ reader' \in [Readers -> {NoReading} \cup Reading \cup Loading \cup Holding]
        /\ reader'[r] = l /\ \A q \in Readers : q # r => reader'[q] = reader[q]
    BY <1>1, <2>1, ReaderMoves, Zenon
  <2>3. ReaderTypes'
    BY <1>1, <2>1, <2>2, Zenon DEF ReaderTypes
  <2>4. \A q \in Readers : reader'[q] = reader[q] \/ LoadFresh(reader'[q])
    BY <2>2, NothingHeld, Zenon
  <2> QED
    BY <1>1, <2>1, <2>3, <2>4, StoreStays, ReaderFresh, Zenon
<1> QED
  BY <1>2, <1>3, Zenon

\* Entries expire, here and in the shared store, and another process writes.
LEMMA ExpireFresh ==
  ASSUME FreshInv, DurableInv', NEW k \in Products,
         expireEntry(k) \/ expireShared(k) \/ \E b \in BOOLEAN : otherProcess(k, b)
  PROVE  FreshInv'
<1>1. ReaderRest /\ UNCHANGED <<inflight, reader, changes, failures>> /\ ReaderTypes
  BY Zenon DEF expireEntry, expireShared, otherProcess, Works, ReaderRest, FreshInv
<1>2. CASE expireEntry(k)
  <2>1. cache' = Without(k) /\ UNCHANGED <<kv, theirs>>
    BY <1>2, Zenon DEF expireEntry, StoreKept
  <2>2. /\ Without(k) \in Seq(Entry) /\ OnePerKey(Without(k))
        /\ Members(Without(k)) \subseteq Members(cache)
    BY <1>1, WithoutFacts, Zenon DEF ReaderTypes
  <2>3. ReaderTypes'
    BY <1>1, <2>1, <2>2, Zenon DEF ReaderTypes
  <2> QED
    BY <1>1, <2>1, <2>2, <2>3, StoreStays, ReaderFresh, Zenon
<1>3. CASE expireShared(k)
  <2>1. UNCHANGED cache /\ kv' = [kv EXCEPT ![k] = Absent] /\ theirs' = theirs \ {k}
    BY <1>3, Zenon DEF expireShared, Put
  <2>2. \A j \in Products : StoreStep(j)
    BY <2>1, Zenon DEF FreshInv, DurableInv, StoreStep
  <2>3. ReaderTypes'
    BY <1>1, <2>1, Zenon DEF ReaderTypes
  <2> QED
    BY <1>1, <2>1, <2>2, <2>3, ReaderFresh, Zenon
<1>4. ASSUME NEW b \in BOOLEAN, otherProcess(k, b) PROVE FreshInv'
  <2>1. /\ UNCHANGED cache /\ withStore
        /\ kv' = [kv EXCEPT ![k] = OnSale(b)] /\ theirs' = theirs \cup {k}
    BY <1>4, Zenon DEF otherProcess
  <2>2. \A j \in Products : StoreStep(j)
    BY <2>1, Zenon DEF FreshInv, DurableInv, StoreStep
  <2>3. ReaderTypes'
    BY <1>1, <2>1, Zenon DEF ReaderTypes
  <2> QED
    BY <1>1, <2>1, <2>2, <2>3, ReaderFresh, Zenon
<1> QED
  BY <1>2, <1>3, <1>4, Zenon

\* After the miss.
LEMMA JoinFresh ==
  ASSUME FreshInv, DurableInv', NEW r \in Readers, joinOrLead(r)
  PROVE  FreshInv'
<1>1. ReaderRest /\ UNCHANGED <<kv, theirs, cache, changes, failures>> /\ ReaderTypes
  BY Zenon DEF joinOrLead, Works, StoreKept, ReaderRest, FreshInv
<1>2. PICK k \in Products : reader[r].key = k /\ reader[r] \in Reading
  BY <1>1, ReaderKinds, Zenon DEF joinOrLead, Reading
<1>3. PICK l \in {NoReading} \cup Reading \cup Loading :
        reader' = [reader EXCEPT ![r] = l] /\ (l \in Loading => l.began = changes[l.key] /\ l.pc = "load")
  <2>1. CASE reader' = [reader EXCEPT ![r] = [pc |-> "load", key |-> k, began |-> changes[k]]]
    <3>1. PICK l : l = [pc |-> "load", key |-> k, began |-> changes[k]]
      BY Zenon
    <3>2. l \in Loading /\ l.began = changes[l.key] /\ l.pc = "load"
      BY <1>1, <3>1, Zenon DEF ReaderTypes, Loading
    <3> QED
      BY <2>1, <3>1, <3>2, Zenon
  <2>2. CASE reader' = [reader EXCEPT ![r].pc = "wait"]
    <3>1. /\ [reader[r] EXCEPT !.pc = "wait"] \in Reading
          /\ [reader[r] EXCEPT !.pc = "wait"] \notin Loading
      BY <1>2, Zenon DEF Reading, Loading
    <3> QED
      BY <2>2, <3>1, Zenon
  <2>3. CASE reader' = [reader EXCEPT ![r] = NoReading]
    <3>1. NoReading \notin Loading
      BY Zenon DEF NoReading, Loading
    <3> QED
      BY <2>3, <3>1, Zenon
  <2> QED
    BY <1>2, <2>1, <2>2, <2>3, Zenon DEF joinOrLead, ReaderTo
<1>4. /\ reader' \in [Readers -> {NoReading} \cup Reading \cup Loading \cup Holding]
      /\ reader'[r] = l /\ \A q \in Readers : q # r => reader'[q] = reader[q]
  BY <1>1, <1>3, ReaderMoves, Zenon
<1>5. ReaderTypes'
  BY <1>1, <1>4, Zenon DEF ReaderTypes
<1>6. LoadFresh(l)
  <2>1. CASE l \in Loading
    <3>1. l.began = changes[l.key] /\ l.key \in Products /\ l.pc # "loaded"
      BY <1>3, <2>1, Zenon DEF Loading
    <3>2. changes[l.key] \in Nat
      BY <1>1, <3>1, Zenon DEF ReaderTypes
    <3> QED
      BY <3>1, <3>2 DEF LoadFresh
  <2> QED
    BY <2>1, NothingHeld, Zenon
<1>7. \A q \in Readers : reader'[q] = reader[q] \/ LoadFresh(reader'[q])
  BY <1>4, <1>6, Zenon
<1> QED
  BY <1>1, <1>5, <1>7, StoreStays, ReaderFresh, Zenon

\* A load that ends with value v, another process's if f, or goes on in memory.
LEMMA LoadedFresh ==
  ASSUME FreshInv, DurableInv', NEW r \in Readers, reader[r] \in Loading, ReaderRest,
         UNCHANGED cache, failures' = failures \/ failures' = failures + 1,
         NEW v \in Values \cup {"failed"}, NEW f \in BOOLEAN,
         ReaderTo(r, "memory") \/ Loads(r, v, f),
         failures' = 0 =>
           /\ \A k \in Products : StoreStep(k)
           /\ v = "failed" \/ f \/ Fresh(reader[r].key, v)
  PROVE  FreshInv'
<1>1. ReaderTypes /\ changes' = changes
  BY Zenon DEF FreshInv, ReaderRest
<1>2. PICK l \in Loading \cup Holding :
        /\ reader' = [reader EXCEPT ![r] = l] /\ l.key = reader[r].key /\ l.began = reader[r].began
        /\ l.pc = "loaded" => l.value = v /\ l.foreign = f
  <2>1. CASE ReaderTo(r, "memory")
    <3>1. PICK l : l = [reader[r] EXCEPT !.pc = "memory"]
      BY Zenon
    <3>2. l \in Loading /\ l.key = reader[r].key /\ l.began = reader[r].began /\ l.pc = "memory"
      BY <3>1, Zenon DEF Loading
    <3>3. reader' = [reader EXCEPT ![r] = l]
      BY <2>1, <3>1, Zenon DEF ReaderTo
    <3> QED
      BY <3>2, <3>3, Zenon
  <2>2. CASE Loads(r, v, f)
    <3>1. PICK l : l = [pc |-> "loaded", key |-> reader[r].key, began |-> reader[r].began,
                        value |-> v, foreign |-> f]
      BY Zenon
    <3>2. /\ l \in Holding /\ l.key = reader[r].key /\ l.began = reader[r].began
          /\ l.value = v /\ l.foreign = f
      BY <3>1, Zenon DEF Loading, Holding
    <3>3. reader' = [reader EXCEPT ![r] = l]
      BY <2>2, <3>1, Zenon DEF Loads
    <3> QED
      BY <3>2, <3>3, Zenon
  <2> QED
    BY <2>1, <2>2, Zenon
<1>3. /\ reader' \in [Readers -> {NoReading} \cup Reading \cup Loading \cup Holding]
      /\ reader'[r] = l /\ \A q \in Readers : q # r => reader'[q] = reader[q]
  BY <1>1, <1>2, ReaderMoves, Zenon
<1>4. ReaderTypes'
  BY <1>1, <1>3 DEF ReaderTypes
<1>5. failures' = 0 => failures = 0
  BY <1>1 DEF ReaderTypes
<1>6. failures' = 0 => LoadFresh(l)
  <2>1. failures' = 0 => reader[r].began <= changes[reader[r].key]
    BY <1>5, Zenon DEF FreshInv, LoadFresh
  <2> QED
    BY <1>2, <2>1, Zenon DEF LoadFresh
<1>7. failures' = 0 => \A q \in Readers : reader'[q] = reader[q] \/ LoadFresh(reader'[q])
  BY <1>3, <1>6, Zenon
<1> QED
  BY <1>4, <1>7, ReaderFresh, Zenon

\* getProduct's loader: what this process wrote to the shared store is the product, or
\* about to be ...
LEMMA LoadSharedFresh ==
  ASSUME FreshInv, DurableInv', NEW r \in Readers, loadShared(r)
  PROVE  FreshInv'
<1>1. ReaderRest /\ UNCHANGED <<kv, theirs, cache>> /\ ReaderTypes /\ DurableInv
  BY Zenon DEF loadShared, StoreKept, FreshInv
<1>2. PICK k \in Products : k = reader[r].key /\ reader[r] \in Loading
  BY <1>1, ReaderKinds, Zenon DEF loadShared, Loading
<1>3. CASE ReaderTo(r, "memory") /\ Works
  <2>1. "failed" \in Values \cup {"failed"} /\ FALSE \in BOOLEAN
    BY Zenon
  <2> QED
    BY <1>1, <1>2, <1>3, <2>1, StoreStays, LoadedFresh, Zenon DEF Works
<1>4. CASE withStore /\ kv[k] # Absent /\ Loads(r, kv[k], k \in theirs) /\ Works
  <2>1. kv[k] \in Values
    BY <1>1, <1>4, Zenon DEF DurableInv, Kept
  <2>2. PICK f \in BOOLEAN : f = (k \in theirs)
    <3>1. (k \in theirs) \in BOOLEAN
      OBVIOUS
    <3> QED
      BY <3>1, Zenon
  <2>3. failures = 0 => f \/ Fresh(k, kv[k])
    BY <1>2, <1>4, <2>2, Zenon DEF FreshInv, SharedFresh, Fresh
  <2> QED
    BY <1>1, <1>2, <1>4, <2>1, <2>2, <2>3, StoreStays, LoadedFresh, Zenon DEF Works
<1>5. CASE Loads(r, "failed", FALSE) /\ Fails
  BY <1>1, <1>2, <1>5, StoreStays, LoadedFresh, Zenon DEF Fails
<1> QED
  BY <1>2, <1>3, <1>4, <1>5, Zenon DEF loadShared

\* ... and memory, read under the mutex, has the product.
LEMMA LoadMemoryFresh ==
  ASSUME FreshInv, DurableInv', NEW r \in Readers, loadMemory(r)
  PROVE  FreshInv'
<1>1. ReaderRest /\ UNCHANGED cache /\ ReaderTypes /\ DurableInv
  BY Zenon DEF loadMemory, FreshInv
<1>2. PICK k \in Products : k = reader[r].key /\ reader[r] \in Loading
  BY <1>1, ReaderKinds, Zenon DEF loadMemory, Loading
<1>3. CASE Loads(r, "failed", FALSE) /\ Works /\ StoreKept
  BY <1>1, <1>2, <1>3, StoreStays, LoadedFresh, Zenon DEF Works, StoreKept
<1>4. CASE /\ products[k] # Absent /\ Loads(r, products[k], FALSE) /\ Works
           /\ IF withStore THEN Put(k, products[k]) ELSE StoreKept
  <2>1. products[k] \in Values
    BY <1>1, <1>4 DEF DurableInv, Kept
  <2>2. Fresh(k, products[k])
    BY Zenon DEF Fresh
  <2>3. \A j \in Products : StoreStep(j)
    <3>1. CASE ~withStore
      BY <1>4, <3>1, StoreStays, Zenon DEF StoreKept
    <3>2. CASE withStore
      <4>1. kv' = [kv EXCEPT ![k] = products[k]] /\ theirs' = theirs \ {k}
        BY <1>4, <3>2, Zenon DEF Put
      <4> QED
        BY <1>1, <3>2, <4>1, Zenon DEF DurableInv, StoreStep
    <3> QED
      BY <3>1, <3>2, Zenon
  <2> QED
    BY <1>1, <1>2, <1>4, <2>1, <2>2, <2>3, LoadedFresh, Zenon DEF Works
<1>5. CASE Loads(r, "failed", FALSE) /\ Fails
  <2>1. failures' # 0 /\ failures' = failures + 1
    BY <1>1, <1>5 DEF Fails, ReaderTypes
  <2> QED
    BY <1>1, <1>2, <1>5, <2>1, LoadedFresh, Zenon
<1> QED
  BY <1>2, <1>3, <1>4, <1>5, Zenon DEF loadMemory

\* The loaded value is cached, as overlapped if a change has ended since.
LEMMA CacheLoadedFresh ==
  ASSUME FreshInv, DurableInv', NEW r \in Readers, cacheLoaded(r)
  PROVE  FreshInv'
<1>1. ReaderRest /\ UNCHANGED <<kv, theirs, changes, failures>> /\ ReaderTypes
  BY Zenon DEF cacheLoaded, Works, StoreKept, ReaderRest, FreshInv
<1>2. PICK l \in Holding : l = reader[r] /\ l.pc = "loaded"
  BY <1>1, ReaderKinds, Zenon DEF cacheLoaded
<1>3. PICK m \in Holding : reader' = [reader EXCEPT ![r] = m] /\ m.pc = "fulfil"
                           /\ m.key = l.key /\ m.began = l.began
  <2>1. PICK m : m = [l EXCEPT !.pc = "fulfil"]
    BY Zenon
  <2>2. m \in Holding /\ m.pc = "fulfil" /\ m.key = l.key /\ m.began = l.began
    BY <2>1, Zenon DEF Holding
  <2>3. reader' = [reader EXCEPT ![r] = m]
    BY <1>2, <2>1, Zenon DEF cacheLoaded, ReaderTo
  <2> QED
    BY <2>2, <2>3, Zenon
<1>4. /\ reader' \in [Readers -> {NoReading} \cup Reading \cup Loading \cup Holding]
      /\ reader'[r] = m /\ \A q \in Readers : q # r => reader'[q] = reader[q]
  BY <1>1, <1>3, ReaderMoves, Zenon
<1>5. failures = 0 => \A q \in Readers : reader'[q] = reader[q] \/ LoadFresh(reader'[q])
  <2>1. failures = 0 => l.began <= changes[l.key]
    BY <1>2, Zenon DEF FreshInv, LoadFresh
  <2>2. failures = 0 => LoadFresh(m)
    BY <1>3, <2>1, Zenon DEF LoadFresh
  <2> QED
    BY <1>4, <2>2, Zenon
<1>6. CASE l.value = "failed"
  <2>1. UNCHANGED cache
    BY <1>2, <1>6, Zenon DEF cacheLoaded
  <2>2. ReaderTypes'
    BY <1>1, <1>4, <2>1, Zenon DEF ReaderTypes
  <2> QED
    BY <1>1, <1>5, <2>1, <2>2, StoreStays, ReaderFresh, Zenon
<1>7. CASE l.value # "failed"
  <2>1. PICK e : e = [key |-> l.key, value |-> l.value, foreign |-> l.foreign,
                      overlapped |-> l.began # changes[l.key]]
    BY Zenon
  <2>2. e \in Entry /\ e.key = l.key /\ e.value = l.value /\ e.foreign = l.foreign
        /\ (l.began # changes[l.key] => e.overlapped)
    BY <1>2, <1>7, <2>1, Zenon DEF Holding, Entry
  <2>3. cache' = Set(e)
    BY <1>2, <1>7, <2>1, Zenon DEF cacheLoaded
  <2>4. /\ Set(e) \in Seq(Entry) /\ OnePerKey(Set(e))
        /\ Members(Set(e)) \subseteq Members(cache) \cup {e}
    BY <1>1, <2>2, SetFacts, Zenon DEF ReaderTypes
  <2>5. failures = 0 => e.overlapped \/ e.foreign \/ Fresh(e.key, e.value)
    BY <1>2, <1>7, <2>2, Zenon DEF FreshInv, LoadFresh
  <2>6. ReaderTypes'
    BY <1>1, <1>4, <2>3, <2>4, Zenon DEF ReaderTypes
  <2>7. failures = 0 => \A d \in Members(cache') :
                          d \in Members(cache) \/ d.overlapped \/ d.foreign \/ Fresh(d.key, d.value)
    BY <2>3, <2>4, <2>5, Zenon
  <2> QED
    BY <1>1, <1>5, <2>6, <2>7, StoreStays, ReaderFresh, Zenon
<1> QED
  BY <1>6, <1>7, Zenon

\* The result is handed to those who wait, and the load is over.
LEMMA FulfilFresh ==
  ASSUME FreshInv, DurableInv', NEW r \in Readers, fulfil(r) \/ leave(r)
  PROVE  FreshInv'
<1>1. ReaderRest /\ UNCHANGED <<kv, theirs, cache, changes, failures>> /\ ReaderTypes
  BY Zenon DEF fulfil, leave, Works, StoreKept, ReaderRest, FreshInv
<1>2. PICK l \in Holding : l = reader[r]
  BY <1>1, ReaderKinds, Zenon DEF fulfil, leave
<1>3. PICK m \in Holding : m = [l EXCEPT !.pc = "leave"] /\ m.pc = "leave"
                           /\ m.key = l.key /\ m.began = l.began
  <2>1. PICK m : m = [l EXCEPT !.pc = "leave"]
    BY Zenon
  <2> QED
    BY <2>1 DEF Holding
<1>4. /\ reader' = [q \in Readers |-> reader'[q]]
      /\ \A q \in Readers : reader'[q] \in {reader[q], NoReading} \/ (q = r /\ reader'[q] = m)
  <2>1. CASE fulfil(r)
    BY <1>2, <1>3, <2>1, Zenon DEF fulfil
  <2>2. CASE leave(r)
    BY <1>1, <2>2, Zenon DEF leave, ReaderTypes
  <2> QED
    BY <2>1, <2>2, Zenon
<1>5. ReaderTypes'
  <2>1. \A q \in Readers : reader'[q] \in {NoReading} \cup Reading \cup Loading \cup Holding
    BY <1>1, <1>4, Zenon DEF ReaderTypes
  <2>2. reader' \in [Readers -> {NoReading} \cup Reading \cup Loading \cup Holding]
    BY <1>4, <2>1, Zenon
  <2> QED
    BY <1>1, <2>2, Zenon DEF ReaderTypes
<1>6. failures = 0 => LoadFresh(m)
  <2>1. failures = 0 => l.began <= changes[l.key]
    BY <1>2, Zenon DEF FreshInv, LoadFresh
  <2> QED
    BY <1>3, <2>1, Zenon DEF LoadFresh
<1>7. failures = 0 => \A q \in Readers : reader'[q] = reader[q] \/ LoadFresh(reader'[q])
  BY <1>4, <1>6, NothingHeld, Zenon
<1> QED
  BY <1>1, <1>5, <1>7, StoreStays, ReaderFresh, Zenon

\* A step of the writer that ends no change: what was fresh stays fresh.
LEMMA WriterFresh ==
  ASSUME FreshInv, DurableInv', UNCHANGED <<cache, changes, reader>>,
         failures' = failures \/ failures' = failures + 1,
         failures' = 0 => /\ SharedFresh'
                          /\ \A k \in Products, v \in Values : Fresh(k, v) => Fresh(k, v)'
  PROVE  FreshInv'
<1>1. ReaderTypes /\ (failures' = 0 => failures = 0)
  BY DEF FreshInv, ReaderTypes
<1>2. ReaderTypes'
  BY <1>1 DEF ReaderTypes
<1>3. \A e \in Members(cache) : e \in Entry
  BY <1>1 DEF ReaderTypes, Members
<1>4. ASSUME failures' = 0 PROVE EntriesFresh(cache)'
  <2>1. \A e \in Members(cache) : e.key \in Products /\ e.value \in Values
    BY <1>3, Zenon DEF Entry
  <2> QED
    BY <1>1, <1>4, <2>1, Zenon DEF FreshInv, EntriesFresh
<1>5. ASSUME failures' = 0, NEW q \in Readers PROVE LoadFresh(reader[q])'
  <2>1. LoadFresh(reader[q])
    BY <1>1, <1>5, Zenon DEF FreshInv
  <2>2. reader[q].pc = "loaded" => /\ reader[q].key \in Products
                                   /\ reader[q].value # "failed" => reader[q].value \in Values
    BY <1>1, ReaderKinds, Zenon DEF Holding
  <2> QED
    BY <1>5, <2>1, <2>2, Zenon DEF LoadFresh
<1> QED
  BY <1>2, <1>4, <1>5, Zenon DEF FreshInv

\* What a call that ends leaves behind.
LEMMA EndFresh ==
  ASSUME FreshInv, DurableInv', UNCHANGED <<reader, failures>>, writer' = NoCall,
         NEW k \in Products, changes' = [changes EXCEPT ![k] = @ + 1],
         cache' \in Seq(Entry), OnePerKey(cache'), Members(cache') \subseteq Members(cache),
         failures = 0 =>
           /\ SharedFresh'
           /\ \A e \in Members(cache') : Fresh(e.key, e.value) => e.value = products'[e.key]
           /\ \A j \in Products, v \in Values : j # k /\ Fresh(j, v) => v = products'[j]
  PROVE  FreshInv'
<1>1. ReaderTypes
  BY Zenon DEF FreshInv
<1>2. /\ changes' \in [Products -> Nat] /\ changes'[k] = changes[k] + 1 /\ changes[k] \in Nat
      /\ \A j \in Products : j # k => changes'[j] = changes[j]
  BY <1>1 DEF ReaderTypes
<1>3. ReaderTypes'
  BY <1>1, <1>2, Zenon DEF ReaderTypes
<1>4. ASSUME failures = 0 PROVE EntriesFresh(cache)'
  BY <1>4, Zenon DEF FreshInv, EntriesFresh, Fresh
<1>5. ASSUME failures = 0, NEW q \in Readers PROVE LoadFresh(reader[q])'
  <2>1. LoadFresh(reader[q])
    BY <1>5, Zenon DEF FreshInv
  <2>2. reader[q].pc = "loaded" => reader[q] \in Holding
    BY <1>1, ReaderKinds, Zenon
  <2>3. \A l \in Loading \cup Holding : l.key \in Products /\ l.began \in Nat
    BY Zenon DEF Loading, Holding
  <2>4. \A l \in Holding : l.value # "failed" => l.value \in Values
    BY Zenon DEF Holding
  <2>5. CASE reader[q] \in Loading \cup Holding /\ reader[q].key = k
    <3>1. reader[q].began <= changes[k] /\ reader[q].began \in Nat
      BY <2>1, <2>3, <2>5, Zenon DEF LoadFresh
    <3>2. reader[q].began <= changes'[k] /\ reader[q].began # changes'[k]
      BY <1>2, <3>1
    <3> QED
      BY <2>5, <3>2, Zenon DEF LoadFresh
  <2>6. CASE reader[q] \in Loading \cup Holding /\ reader[q].key # k
    <3>1. PICK j \in Products : j = reader[q].key /\ j # k /\ changes'[j] = changes[j]
      BY <1>2, <2>3, <2>6, Zenon
    <3>2. reader[q].began <= changes'[j]
      BY <2>1, <2>6, <3>1, Zenon DEF LoadFresh
    <3>3. reader[q].pc = "loaded" => \/ reader[q].value = "failed" \/ reader[q].began # changes'[j]
                                     \/ reader[q].foreign \/ reader[q].value = products'[j]
      BY <1>5, <2>1, <2>2, <2>4, <3>1, Zenon DEF LoadFresh
    <3> QED
      BY <3>1, <3>2, <3>3, Zenon DEF LoadFresh, Fresh
  <2>7. CASE reader[q] \notin Loading \cup Holding
    BY <2>2, <2>7, Zenon DEF LoadFresh
  <2> QED
    BY <2>5, <2>6, <2>7, Zenon
<1> QED
  BY <1>3, <1>4, <1>5, Zenon DEF FreshInv

\* addProduct and setOnSale begin.
LEMMA BeginFresh ==
  ASSUME FreshInv, DurableInv', NEW k \in Products, addProduct(k) \/ \E b \in BOOLEAN : setOnSale(k, b)
  PROVE  FreshInv'
<1>1. /\ writer = NoCall /\ DurableInv /\ failures \in Nat
      /\ UNCHANGED <<withStore, kv, theirs, cache, changes, reader>>
  BY Zenon DEF addProduct, setOnSale, StoreKept, WriterRest, FreshInv, ReaderTypes
<1>2. NoCall \notin AddCall /\ NoCall \notin ChangeCall
  BY Zenon DEF NoCall, AddCall, ChangeCall
<1>3. \A j, v : Fresh(j, v) => v = products[j]
  BY <1>1, <1>2, Zenon DEF Fresh, Changing, Adding
<1>4. failures = 0 => /\ ~withStore => \A j \in Products : kv[j] = Absent
                      /\ \A j \in Products : j \in theirs \/ kv[j] \in {Absent, products[j]}
  BY <1>1, <1>2, Zenon DEF FreshInv, SharedFresh, Changing, Adding
<1>5. CASE addProduct(k)
  <2>1. /\ writer' \in AddCall /\ writer'.key = k /\ products[k] = Absent /\ products' = products
        /\ writer'.pc = (IF withStore THEN "addShared" ELSE "addLocal")
    BY <1>5, Zenon DEF addProduct, AddCall, OnSale, Values
  <2>2. failures' = failures \/ failures' = failures + 1
    BY <1>5, Zenon DEF addProduct, Works, Fails
  <2>3. failures' = 0 => SharedFresh'
    <3>1. failures' = 0 => failures = 0
      BY <1>1, <2>2
    <3>2. writer'.pc \in {"addShared", "shared"} => withStore
      BY <2>1, Zenon
    <3> QED
      BY <1>1, <1>4, <2>1, <3>1, <3>2, Zenon DEF SharedFresh
  <2>4. \A j \in Products, v \in Values : Fresh(j, v) => Fresh(j, v)'
    BY <1>3, <2>1, Zenon DEF Fresh
  <2> QED
    BY <1>1, <2>2, <2>3, <2>4, WriterFresh, Zenon
<1>6. ASSUME NEW b \in BOOLEAN, setOnSale(k, b) PROVE FreshInv'
  <2>1. /\ products' = [products EXCEPT ![k] = OnSale(b)] /\ failures' = failures
        /\ writer'.pc = "local" /\ writer'.key = k
    BY <1>6, Zenon DEF setOnSale, Works
  <2>2. writer' \in ChangeCall /\ writer' \notin AddCall
    BY <2>1 DEF DurableInv, NoCall, AddCall, ChangeCall
  <2>3. \A j \in Products : j # k => products'[j] = products[j]
    BY <1>1, <2>1, Zenon DEF DurableInv
  <2>4. failures' = 0 => SharedFresh'
    <3>1. writer'.pc \notin {"addShared", "shared"} /\ writer'.pc \in {"local", "shared"}
      BY <2>1, Zenon
    <3> QED
      BY <1>1, <1>4, <2>1, <2>2, <2>3, <3>1, Zenon DEF SharedFresh, Changing
  <2>5. \A j \in Products, v \in Values : Fresh(j, v) => Fresh(j, v)'
    BY <1>3, <2>1, <2>2, <2>3, Zenon DEF Fresh, Changing
  <2> QED
    BY <1>1, <2>1, <2>4, <2>5, WriterFresh, Zenon
<1> QED
  BY <1>5, <1>6, Zenon

\* addProduct: what it writes to the shared store is what memory will have.
LEMMA AddFresh ==
  ASSUME FreshInv, DurableInv', addShared \/ addLocal
  PROVE  FreshInv'
<1>1. DurableInv /\ ReaderTypes /\ UNCHANGED <<withStore, cache, reader>>
  BY Zenon DEF FreshInv, addShared, addLocal, WriterRest
<1>2. writer \in AddCall /\ writer \notin ChangeCall /\ NoCall \notin AddCall /\ NoCall \notin ChangeCall
      /\ NoCall.pc = "idle"
  BY <1>1, WriterTypes, Zenon DEF addShared, addLocal, NoCall, AddCall
<1>3. PICK k \in Products, v \in Values : writer.key = k /\ writer.to = v
  BY <1>2, Zenon DEF AddCall
<1>4. failures \in Nat
  BY <1>1, Zenon DEF ReaderTypes
<1>5. CASE Fails /\ UNCHANGED changes
  <2>1. failures' = failures + 1 /\ failures' # 0
    BY <1>4, <1>5 DEF Fails
  <2> QED
    BY <1>1, <1>5, <2>1, WriterFresh, Zenon
<1>6. CASE addShared /\ Put(k, v) /\ WriterTo("addLocal") /\ Works
  <2>1. UNCHANGED <<products, changes, failures>>
    BY <1>6, Zenon DEF addShared, Works
  <2>2. writer' = [writer EXCEPT !.pc = "addLocal"]
    BY <1>6, Zenon DEF WriterTo
  <2>3. writer' \in AddCall /\ writer' \notin ChangeCall /\ writer'.key = k /\ writer'.to = v
        /\ writer'.pc = "addLocal"
    BY <1>2, <1>3, <2>2, Zenon DEF AddCall, ChangeCall
  <2>4. /\ kv'[k] = v /\ \A j \in Products : j # k => kv'[j] = kv[j]
        /\ theirs' = theirs \ {k}
    BY <1>1, <1>6, Zenon DEF DurableInv, Put
  <2>5. failures = 0 => SharedFresh'
    <3>1. failures = 0 => withStore
      BY <1>6, Zenon DEF addShared, FreshInv, SharedFresh
    <3>2. failures = 0 => \A j \in Products : j # k => j \in theirs \/ kv[j] \in {Absent, products[j]}
      BY <1>2, <1>3, Zenon DEF FreshInv, SharedFresh, Changing, Adding
    <3>3. failures = 0 => products[k] = Absent
      BY <1>2, <1>3, Zenon DEF FreshInv, SharedFresh
    <3> QED
      BY <1>1, <2>1, <2>3, <2>4, <3>1, <3>2, <3>3, Zenon DEF SharedFresh, Adding
  <2>6. \A j \in Products, u \in Values : Fresh(j, u) => Fresh(j, u)'
    BY <1>2, <1>3, <2>1, <2>3, Zenon DEF Fresh, Changing, Adding
  <2> QED
    BY <1>1, <2>1, <2>5, <2>6, WriterFresh, Zenon
<1>7. CASE /\ products' = [products EXCEPT ![k] = v] /\ changes' = [changes EXCEPT ![k] = @ + 1]
           /\ writer' = NoCall /\ Works /\ StoreKept
  <2>1. products'[k] = v /\ \A j \in Products : j # k => products'[j] = products[j]
    BY <1>1, <1>7, Zenon DEF DurableInv
  <2>2. failures = 0 => products[k] = Absent
    BY <1>2, <1>3, Zenon DEF FreshInv, SharedFresh
  <2>3. failures = 0 => \A j \in Products, u \in Values : Fresh(j, u) => u = products'[j]
    <3>1. Absent \notin Values
      BY Zenon DEF Absent, Values
    <3> QED
      BY <1>2, <1>3, <2>1, <2>2, <3>1, Zenon DEF Fresh, Changing, Adding
  <2>4. failures = 0 => SharedFresh'
    <3>1. failures = 0 => \A j \in Products : j \in theirs \/ kv[j] \in {Absent, products'[j]}
      BY <1>2, <1>3, <2>1, <2>2, Zenon DEF FreshInv, SharedFresh, Changing, Adding
    <3>2. failures = 0 /\ ~withStore => \A j \in Products : kv[j] = Absent
      BY Zenon DEF FreshInv, SharedFresh
    <3>3. writer'.pc \notin {"addShared", "shared"} /\ writer' \notin AddCall
      BY <1>2, <1>7, Zenon
    <3> QED
      BY <1>1, <1>7, <3>1, <3>2, <3>3, Zenon DEF SharedFresh, StoreKept
  <2>5. \A e \in Members(cache) : e.key \in Products /\ e.value \in Values
    <3>1. \A e \in Members(cache) : e \in Entry
      BY <1>1 DEF ReaderTypes, Members
    <3> QED
      BY <3>1, Zenon DEF Entry
  <2>6. cache' \in Seq(Entry) /\ OnePerKey(cache') /\ Members(cache') \subseteq Members(cache)
    BY <1>1, Zenon DEF ReaderTypes
  <2>7. UNCHANGED <<reader, failures>>
    BY <1>1, <1>7, Zenon DEF Works
  <2>8. failures = 0 => \A e \in Members(cache') : Fresh(e.key, e.value) => e.value = products'[e.key]
    BY <2>3, <2>5, <2>6, Zenon
  <2> QED
    BY <1>7, <2>3, <2>4, <2>6, <2>7, <2>8, EndFresh, Zenon
<1> QED
  BY <1>3, <1>5, <1>6, <1>7, Zenon DEF addShared, addLocal

\* setOnSale: until the cached value is dropped, what is cached does not matter.
LEMMA ChangeFresh ==
  ASSUME FreshInv, DurableInv', changeLocal \/ changeShared
  PROVE  FreshInv'
<1>1. DurableInv /\ ReaderTypes /\ UNCHANGED <<withStore, cache, reader, changes>>
  BY Zenon DEF FreshInv, changeLocal, changeShared, WriterRest
<1>2. writer \in ChangeCall /\ writer \notin AddCall
  BY <1>1, WriterTypes, Zenon DEF changeLocal, changeShared
<1>3. PICK k \in Products, v \in Values : writer.key = k /\ writer.to = v /\ products[k] = v
  BY <1>1, <1>2, Zenon DEF ChangeCall, DurableInv
<1>4. failures \in Nat
  BY <1>1, Zenon DEF ReaderTypes
<1>5. \A pc \in {"shared", "erase"} :
        LET w == [writer EXCEPT !.pc = pc]
        IN  w \in ChangeCall /\ w \notin AddCall /\ w.pc = pc /\ w.key = k
  BY <1>2, <1>3, Zenon DEF ChangeCall, AddCall
<1>6. failures = 0 => /\ ~withStore => \A j \in Products : kv[j] = Absent
                      /\ \A j \in Products : j # k => j \in theirs \/ kv[j] \in {Absent, products[j]}
                      /\ writer.pc = "shared" => withStore
  BY <1>2, <1>3, Zenon DEF FreshInv, SharedFresh, Changing, Adding
<1>7. ASSUME writer' \in ChangeCall, writer'.key = k, products' = products
      PROVE  \A j \in Products, u \in Values : Fresh(j, u) => Fresh(j, u)'
  BY <1>2, <1>3, <1>7, Zenon DEF Fresh, Changing, Adding
<1>8. CASE Fails
  <2>1. failures' = failures + 1 /\ failures' # 0
    BY <1>4, <1>8 DEF Fails
  <2> QED
    BY <1>1, <2>1, WriterFresh, Zenon
<1>9. CASE changeLocal /\ WriterTo(IF withStore THEN "shared" ELSE "erase") /\ Works /\ UNCHANGED products
  <2>1. UNCHANGED <<kv, theirs, failures>>
    BY <1>9, Zenon DEF changeLocal, Works, StoreKept
  <2>2. /\ writer' \in ChangeCall /\ writer' \notin AddCall /\ writer'.key = k
        /\ writer'.pc = (IF withStore THEN "shared" ELSE "erase")
    BY <1>5, <1>9, Zenon DEF WriterTo
  <2>3. failures = 0 => SharedFresh'
    <3>1. /\ writer'.pc \in {"addShared", "shared"} => withStore
          /\ withStore => writer'.pc \in {"local", "shared"}
      BY <2>2, Zenon
    <3> QED
      BY <1>1, <1>6, <1>9, <2>1, <2>2, <3>1, Zenon DEF SharedFresh, Changing
  <2> QED
    BY <1>1, <1>7, <1>9, <2>1, <2>2, <2>3, WriterFresh, Zenon
<1>10. CASE changeShared /\ Put(k, v) /\ WriterTo("erase") /\ Works /\ UNCHANGED products
  <2>1. UNCHANGED failures /\ writer.pc = "shared"
    BY <1>10, Zenon DEF changeShared, Works
  <2>2. /\ writer' \in ChangeCall /\ writer' \notin AddCall /\ writer'.key = k
        /\ writer'.pc = "erase"
    BY <1>5, <1>10, Zenon DEF WriterTo
  <2>3. /\ kv'[k] = v /\ \A j \in Products : j # k => kv'[j] = kv[j]
        /\ theirs' = theirs \ {k}
    BY <1>1, <1>10, Zenon DEF DurableInv, Put
  <2>4. failures = 0 => SharedFresh'
    BY <1>1, <1>3, <1>6, <1>10, <2>1, <2>2, <2>3, Zenon DEF SharedFresh
  <2> QED
    BY <1>1, <1>7, <1>10, <2>1, <2>2, <2>4, WriterFresh, Zenon
<1> QED
  BY <1>3, <1>8, <1>9, <1>10, Zenon DEF changeLocal, changeShared

\* setOnSale ends: nothing is cached for its product.
LEMMA EraseFresh ==
  ASSUME FreshInv, DurableInv', eraseCached
  PROVE  FreshInv'
<1>1. DurableInv /\ ReaderTypes /\ UNCHANGED <<withStore, reader, products, kv, theirs, failures>>
  BY Zenon DEF FreshInv, eraseCached, StoreKept, WriterRest, Works
<1>2. writer \in ChangeCall /\ writer \notin AddCall /\ writer.pc = "erase"
      /\ NoCall \notin AddCall /\ NoCall.pc = "idle"
  BY <1>1, WriterTypes, Zenon DEF eraseCached, NoCall, AddCall
<1>3. PICK k \in Products : writer.key = k
  BY <1>2, Zenon DEF ChangeCall
<1>4. writer' = NoCall /\ cache' = Without(k) /\ changes' = [changes EXCEPT ![k] = @ + 1]
  BY <1>3, Zenon DEF eraseCached
<1>5. /\ cache' \in Seq(Entry) /\ OnePerKey(cache') /\ Members(cache') \subseteq Members(cache)
      /\ \A i \in 1..Len(cache') : cache'[i].key # k
  BY <1>1, <1>4, WithoutFacts, Zenon DEF ReaderTypes
<1>6. \A e \in Members(cache') : e.key # k
  BY <1>5, Zenon DEF Members
<1>7. \A j, u : j # k /\ Fresh(j, u) => u = products'[j]
  BY <1>1, <1>2, <1>3, Zenon DEF Fresh, Changing, Adding
<1>8. failures = 0 => SharedFresh'
  <2>1. failures = 0 => \A j \in Products : j \in theirs \/ kv[j] \in {Absent, products[j]}
    <3>1. writer.pc \notin {"local", "shared"}
      BY <1>2, Zenon
    <3> QED
      BY <1>2, <3>1, Zenon DEF FreshInv, SharedFresh, Adding
  <2>2. failures = 0 /\ ~withStore => \A j \in Products : kv[j] = Absent
    BY Zenon DEF FreshInv, SharedFresh
  <2>3. writer'.pc \notin {"addShared", "shared"} /\ writer' \notin AddCall
    BY <1>2, <1>4, Zenon
  <2> QED
    BY <1>1, <2>1, <2>2, <2>3, Zenon DEF SharedFresh
<1> QED
  BY <1>1, <1>4, <1>5, <1>6, <1>7, <1>8, EndFresh, Zenon

\* A restart counts as a failure; it leaves an empty cache and no load.
LEMMA RestartFresh ==
  ASSUME FreshInv, DurableInv', restartCatalog
  PROVE  FreshInv'
<1>1. ReaderTypes /\ UNCHANGED changes
  BY Zenon DEF FreshInv, restartCatalog
<1>2. failures' \in Nat /\ failures' # 0
  BY <1>1 DEF restartCatalog, Fails, ReaderTypes
<1>3. cache' = <<>> /\ cache' \in Seq(Entry) /\ OnePerKey(cache')
  BY DEF restartCatalog, OnePerKey
<1>4. ReaderTypes'
  BY <1>1, <1>2, <1>3, Zenon DEF restartCatalog, ReaderTypes
<1> QED
  BY <1>2, <1>4, Zenon DEF FreshInv

\* Every step keeps what is cached fresh.
LEMMA FreshStep == FreshInv /\ [CatalogNext]_catalogVars => FreshInv'
<1> SUFFICES ASSUME FreshInv, [CatalogNext]_catalogVars PROVE FreshInv'
  BY Zenon
<1>1. DurableInv'
  BY DurableStep, Zenon DEF FreshInv
<1>2. CASE UNCHANGED catalogVars
  <2>1. UNCHANGED <<withStore, products, kv, theirs, cache, writer, reader, changes, failures>>
    BY <1>2, Zenon DEF catalogVars
  <2>2. FreshInv => (failures = 0 => SharedFresh)
    BY Zenon DEF FreshInv
  <2>3. SharedFresh => SharedFresh'
    BY <2>1, Zenon DEF SharedFresh, Adding, Changing
  <2>4. \A k \in Products, v \in Values : Fresh(k, v) => Fresh(k, v)'
    BY <2>1, Zenon DEF Fresh, Adding, Changing
  <2> QED
    BY <1>1, <2>1, <2>2, <2>3, <2>4, WriterFresh, Zenon
<1> QED
  BY <1>1, <1>2, GetFresh, ExpireFresh, JoinFresh, LoadSharedFresh, LoadMemoryFresh,
     CacheLoadedFresh, FulfilFresh, BeginFresh, AddFresh, ChangeFresh, EraseFresh, RestartFresh, Zenon
     DEF CatalogNext, writerStep, readerStep

\* At first nothing is cached, and what the shared store has is others'.
LEMMA FreshInit == CatalogInit => FreshInv
<1> SUFFICES ASSUME CatalogInit PROVE FreshInv
  BY Zenon
<1>1. DurableInv
  BY DurableInit, Zenon
<1>2. cache \in Seq(Entry) /\ OnePerKey(cache) /\ Members(cache) = {}
  BY DEF CatalogInit, OnePerKey, Members
<1>3. ReaderTypes
  BY <1>2, Zenon DEF CatalogInit, ReaderTypes
<1>4. SharedFresh
  BY Zenon DEF CatalogInit, SharedFresh, NoCall, AddCall
<1>5. \A r \in Readers : LoadFresh(reader[r])
  BY Zenon DEF CatalogInit, LoadFresh, NoReading, Loading, Holding
<1> QED
  BY <1>1, <1>2, <1>3, <1>4, <1>5, Zenon DEF FreshInv, EntriesFresh

\* While no write of this process has failed and none of its changes is under way, a
\* cached product that differs from its memory was put there by a load that one of its
\* changes overtook, or is what another process wrote to the shared store after this one:
\* whatever the interleaving of readers, expiry, eviction, the writer and the writes of
\* others, and whatever the shared store held at the start (sharded_cache.cc:102-104,
\* product_service.cc:54-66, 103, 110).
THEOREM ReadsOwnChangesAlways == CatalogSpec => []ReadsOwnChanges
<1>1. FreshInv => ReadsOwnChanges
  <2> SUFFICES ASSUME FreshInv, failures = 0, writer = NoCall, NEW i \in DOMAIN cache,
                      cache[i].value # products[cache[i].key]
               PROVE  cache[i].overlapped \/ cache[i].foreign
    BY Zenon DEF ReadsOwnChanges
  <2>1. NoCall \notin AddCall /\ NoCall \notin ChangeCall
    BY Zenon DEF NoCall, AddCall, ChangeCall
  <2>2. cache[i] \in Members(cache)
    BY DEF FreshInv, ReaderTypes, Members
  <2>3. EntriesFresh(cache)
    BY Zenon DEF FreshInv
  <2> QED
    BY <2>1, <2>2, <2>3, Zenon DEF EntriesFresh, Fresh, Changing, Adding
<1> QED
  BY <1>1, FreshInit, FreshStep, PTL DEF CatalogSpec
=============================================================================
