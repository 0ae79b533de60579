-------------------------- MODULE FlashSaleProofs ---------------------------
(***************************************************************************)
(* The local flash sale, for any number of users, keys, request threads,   *)
(* workers and attempts, any stock, quota and queue limit.                 *)
(*                                                                         *)
(* First the store: what one write does to memory and disk (StoreStep).    *)
(* Then the places: a user has one request on its way at most, and only    *)
(* that request touches the user's reservation and order.  From both       *)
(* follow, step by step, the four invariants of the pipeline.  Last the    *)
(* gate, which counts its users.                                           *)
(***************************************************************************)
EXTENDS FlashSalePipeline, TLAPS

-----------------------------------------------------------------------------
(* The store.                                                              *)

\* Memory and disk are one as long as no write failed.  After that the disk does
\* not change, and memory only forgets orders.
StoreInv ==
  /\ mem \in Ledger /\ disk \in Ledger
  /\ ~failed => disk = mem
  /\ \A u \in Users : mem.orders[u] # Absent => disk.orders[u] = mem.orders[u]
  /\ \A u \in Users : State(mem, u) = "Confirmed" => disk.resv[u] = mem.resv[u]
  /\ OneOrderPerKey

\* A reservation once made keeps its quantity, a sale is final.
Lasting ==
  \A v \in Users : mem.resv[v] # Absent =>
    /\ mem'.resv[v] # Absent /\ mem'.resv[v].qty = mem.resv[v].qty
    /\ mem.resv[v].state = "Confirmed" => mem'.resv[v] = mem.resv[v]

\* A step that touches nobody but u.
StoreStep(u) ==
  /\ StoreInv' /\ Lasting
  /\ failed => failed'
  /\ \A v \in Users \ {u} : mem'.resv[v] = mem.resv[v] /\ mem'.orders[v] = mem.orders[v]

\* The value of a missing entry is no reservation, order or message.
LEMMA AbsentApart == Absent \notin Reservation /\ Absent \notin Order /\ Absent \notin Message
  BY PipelineAssumption, Zenon

\* The fields of a ledger.
LEMMA LedgerFields ==
  ASSUME NEW L \in Ledger
  PROVE  L.resv \in [Users -> Reservation \cup {Absent}] /\ L.orders \in [Users -> Order \cup {Absent}]
  BY Zenon DEF Ledger

\* What Reserve does to a ledger ...
LEMMA ReserveFields ==
  ASSUME NEW L \in Ledger, NEW u \in Users, NEW r \in Reservation
  PROVE  /\ Reserve(L, u, r) \in Ledger
         /\ Reserve(L, u, r).resv = [L.resv EXCEPT ![u] = r]
         /\ Reserve(L, u, r).orders = L.orders
<1>1. [L.resv EXCEPT ![u] = r] \in [Users -> Reservation \cup {Absent}]
  BY LedgerFields, Zenon
<1>2. Reserve(L, u, r) = [L EXCEPT !.resv = [L.resv EXCEPT ![u] = r]]
  BY Zenon DEF Reserve, Ledger
<1> QED
  BY <1>1, <1>2, Zenon DEF Ledger

\* ... what PutOrder does ...
LEMMA OrderFields ==
  ASSUME NEW L \in Ledger, NEW u \in Users, NEW o \in Order \cup {Absent}
  PROVE  /\ PutOrder(L, u, o) \in Ledger
         /\ PutOrder(L, u, o).orders = [L.orders EXCEPT ![u] = o]
         /\ PutOrder(L, u, o).resv = L.resv
<1>1. [L.orders EXCEPT ![u] = o] \in [Users -> Order \cup {Absent}]
  BY LedgerFields, Zenon
<1>2. PutOrder(L, u, o) = [L EXCEPT !.orders = [L.orders EXCEPT ![u] = o]]
  BY Zenon DEF PutOrder, Ledger
<1> QED
  BY <1>1, <1>2, Zenon DEF Ledger

\* ... and what it does when it erases.
LEMMA EraseFields ==
  ASSUME NEW L \in Ledger, NEW u \in Users
  PROVE  /\ PutOrder(L, u, Absent) \in Ledger
         /\ PutOrder(L, u, Absent).orders = [L.orders EXCEPT ![u] = Absent]
         /\ PutOrder(L, u, Absent).resv = L.resv
<1> DEFINE o == Absent
<1>1. o \in Order \cup {Absent}
  BY Zenon
<1> HIDE DEF o
<1>2. /\ PutOrder(L, u, o) \in Ledger
      /\ PutOrder(L, u, o).orders = [L.orders EXCEPT ![u] = o]
      /\ PutOrder(L, u, o).resv = L.resv
  BY <1>1, OrderFields, Zenon
<1> QED
  BY <1>2, Zenon DEF o

\* A step that leaves the store alone touches nobody.
LEMMA StoreSame ==
  ASSUME StoreInv, UNCHANGED store, NEW u
  PROVE  StoreStep(u)
  BY Zenon DEF StoreInv, StoreStep, Lasting, OneOrderPerKey, store, State

\* A write of a reservation that is new, or that was reserved and keeps its quantity.
LEMMA ReserveWrite ==
  ASSUME StoreInv, NEW u \in Users, NEW r \in Reservation, NEW ok \in BOOLEAN,
         Persist(ok, Reserve(mem, u, r), Reserve(disk, u, r)),
         mem.resv[u] = Absent \/ (mem.resv[u].state = "Reserved" /\ mem.resv[u].qty = r.qty)
  PROVE  /\ StoreStep(u)
         /\ mem'.orders = mem.orders
         /\ ok => mem'.resv[u] = r /\ failed' = failed
         /\ ~ok => mem' = mem /\ failed'
<1>0. /\ mem \in Ledger /\ disk \in Ledger
      /\ mem.resv \in [Users -> Reservation \cup {Absent}]
      /\ disk.resv \in [Users -> Reservation \cup {Absent}]
      /\ r # Absent
  BY LedgerFields, AbsentApart, Zenon DEF StoreInv
<1>1. /\ Reserve(mem, u, r) \in Ledger /\ Reserve(disk, u, r) \in Ledger
      /\ Reserve(mem, u, r).resv = [mem.resv EXCEPT ![u] = r] /\ Reserve(mem, u, r).orders = mem.orders
      /\ Reserve(disk, u, r).resv = [disk.resv EXCEPT ![u] = r] /\ Reserve(disk, u, r).orders = disk.orders
  BY <1>0, ReserveFields
<1>2. CASE ok
  <2>1. mem' = Reserve(mem, u, r) /\ disk' = Reserve(disk, u, r) /\ failed' = failed /\ ~failed
    BY <1>2, Zenon DEF Persist
  <2>2. disk = mem
    BY <2>1, Zenon DEF StoreInv
  <2>3. StoreInv'
    BY <1>0, <1>1, <2>1, <2>2 DEF StoreInv, OneOrderPerKey, State
  <2>4. Lasting
    BY <1>0, <1>1, <2>1, Zenon DEF Lasting
  <2> QED
    BY <1>0, <1>1, <1>2, <2>1, <2>3, <2>4, Zenon DEF StoreStep
<1>3. CASE ~ok
  <2>1. mem' = mem /\ failed' /\ (disk' = disk \/ (~failed /\ disk' = Reserve(disk, u, r)))
    BY <1>3, Zenon DEF Persist
  <2>2. Lasting
    BY <2>1, Zenon DEF Lasting
  <2>3. CASE disk' = disk
    BY <1>3, <2>1, <2>2, <2>3, Zenon DEF StoreInv, OneOrderPerKey, State, StoreStep
  <2>4. CASE ~failed /\ disk' = Reserve(disk, u, r)
    <3>1. disk = mem /\ disk' \in Ledger /\ disk'.orders = disk.orders
      BY <1>1, <2>4, Zenon DEF StoreInv
    <3>2. \A v \in Users : State(mem, v)' = "Confirmed" => disk'.resv[v] = mem'.resv[v]
      BY <1>0, <1>1, <2>1, <2>4, <3>1, Zenon DEF State
    <3>3. StoreInv'
      BY <1>0, <2>1, <3>1, <3>2 DEF StoreInv, OneOrderPerKey
    <3> QED
      BY <1>3, <2>1, <2>2, <3>3, Zenon DEF StoreStep
  <2> QED
    BY <2>1, <2>3, <2>4, Zenon
<1> QED
  BY <1>2, <1>3, Zenon

\* The write of an order whose user has none and whose key nobody has.
LEMMA OrderWrite ==
  ASSUME StoreInv, NEW u \in Users, NEW o \in Order, NEW ok \in BOOLEAN,
         Persist(ok, PutOrder(mem, u, o), PutOrder(disk, u, o)),
         mem.orders[u] = Absent,
         \A v \in Users : mem.orders[v] # Absent => mem.orders[v].key # o.key
  PROVE  /\ StoreStep(u)
         /\ mem'.resv = mem.resv
         /\ ok => mem'.orders[u] = o /\ failed' = failed
         /\ ~ok => mem' = mem /\ failed'
<1>0. /\ mem \in Ledger /\ disk \in Ledger
      /\ mem.orders \in [Users -> Order \cup {Absent}] /\ disk.orders \in [Users -> Order \cup {Absent}]
      /\ o # Absent /\ o \in Order \cup {Absent}
  BY LedgerFields, AbsentApart, Zenon DEF StoreInv
<1>1. /\ PutOrder(mem, u, o) \in Ledger /\ PutOrder(disk, u, o) \in Ledger
      /\ PutOrder(mem, u, o).orders = [mem.orders EXCEPT ![u] = o] /\ PutOrder(mem, u, o).resv = mem.resv
      /\ PutOrder(disk, u, o).orders = [disk.orders EXCEPT ![u] = o] /\ PutOrder(disk, u, o).resv = disk.resv
  BY <1>0, OrderFields
<1>2. ASSUME ~failed, disk' = PutOrder(disk, u, o) PROVE disk = mem /\ OneOrderPerKey'
  <2>1. disk = mem
    BY <1>2, Zenon DEF StoreInv
  <2>2. \A v, w \in Users : (disk.orders[v] # Absent /\ disk.orders[w] # Absent
                             /\ disk.orders[v].key = disk.orders[w].key) => v = w
    BY Zenon DEF StoreInv, OneOrderPerKey
  <2>3. disk'.orders = [disk.orders EXCEPT ![u] = o]
    BY <1>1, <1>2, Zenon
  <2> QED
    BY <1>0, <2>1, <2>2, <2>3 DEF OneOrderPerKey
<1>3. CASE ok
  <2>1. mem' = PutOrder(mem, u, o) /\ disk' = PutOrder(disk, u, o) /\ failed' = failed /\ ~failed
    BY <1>3, Zenon DEF Persist
  <2>2. disk = mem /\ OneOrderPerKey'
    BY <1>2, <2>1, Zenon
  <2>3. StoreInv'
    BY <1>1, <2>1, <2>2, Zenon DEF StoreInv
  <2>4. Lasting
    BY <1>1, <2>1, Zenon DEF Lasting
  <2> QED
    BY <1>0, <1>1, <1>3, <2>1, <2>3, <2>4, Zenon DEF StoreStep
<1>4. CASE ~ok
  <2>1. mem' = mem /\ failed' /\ (disk' = disk \/ (~failed /\ disk' = PutOrder(disk, u, o)))
    BY <1>4, Zenon DEF Persist
  <2>2. Lasting
    BY <2>1, Zenon DEF Lasting
  <2>3. CASE disk' = disk
    BY <1>4, <2>1, <2>2, <2>3, Zenon DEF StoreInv, OneOrderPerKey, State, StoreStep
  <2>4. CASE ~failed /\ disk' = PutOrder(disk, u, o)
    <3>1. disk = mem /\ OneOrderPerKey' /\ disk' \in Ledger /\ disk'.resv = mem.resv
      BY <1>1, <1>2, <2>4, Zenon
    <3>2. \A v \in Users : mem'.orders[v] # Absent => disk'.orders[v] = mem'.orders[v]
      BY <1>0, <1>1, <2>1, <2>4, <3>1, Zenon
    <3>3. StoreInv'
      BY <1>0, <2>1, <3>1, <3>2, Zenon DEF StoreInv
    <3> QED
      BY <1>4, <2>1, <2>2, <3>3, Zenon DEF StoreStep
  <2> QED
    BY <2>1, <2>3, <2>4, Zenon
<1> QED
  BY <1>3, <1>4, Zenon

\* The order whose event could not be appended is erased; the deletion may fail.
LEMMA OrderErase ==
  ASSUME StoreInv, NEW u \in Users, mem' = PutOrder(mem, u, Absent),
         \/ ~failed /\ disk' = PutOrder(disk, u, Absent) /\ failed' = failed
         \/ failed' = TRUE /\ disk' \in IF failed THEN {disk} ELSE {disk, PutOrder(disk, u, Absent)}
  PROVE  StoreStep(u) /\ mem'.resv = mem.resv
<1>0. /\ mem \in Ledger /\ disk \in Ledger
      /\ mem.orders \in [Users -> Order \cup {Absent}] /\ disk.orders \in [Users -> Order \cup {Absent}]
      /\ Absent \in Order \cup {Absent}
  BY LedgerFields, Zenon DEF StoreInv
<1>1. /\ PutOrder(mem, u, Absent) \in Ledger /\ PutOrder(mem, u, Absent).resv = mem.resv
      /\ PutOrder(mem, u, Absent).orders = [mem.orders EXCEPT ![u] = Absent]
  BY <1>0, EraseFields, Zenon
<1>2. /\ PutOrder(disk, u, Absent) \in Ledger /\ PutOrder(disk, u, Absent).resv = disk.resv
      /\ PutOrder(disk, u, Absent).orders = [disk.orders EXCEPT ![u] = Absent]
  BY <1>0, EraseFields, Zenon
<1>3. Lasting
  BY <1>1, <1>2, Zenon DEF Lasting
<1>4. disk' = disk \/ disk' = PutOrder(disk, u, Absent)
  BY Zenon
<1>5. /\ disk' \in Ledger /\ disk'.resv = disk.resv
      /\ \A v \in Users : disk'.orders[v] # Absent => disk'.orders[v] = disk.orders[v]
      /\ \A v \in Users \ {u} : disk'.orders[v] = disk.orders[v]
  BY <1>0, <1>1, <1>2, <1>4, Zenon
<1>6. OneOrderPerKey'
  BY <1>5 DEF StoreInv, OneOrderPerKey
<1>7. mem'.orders[u] = Absent /\ \A v \in Users \ {u} : mem'.orders[v] = mem.orders[v]
  BY <1>0, <1>1, <1>2, Zenon
<1>8. \A v \in Users : mem'.orders[v] # Absent => disk'.orders[v] = mem'.orders[v]
  BY <1>5, <1>7, Zenon DEF StoreInv
<1>9. \A v \in Users : State(mem, v)' = "Confirmed" => disk'.resv[v] = mem'.resv[v]
  BY <1>1, <1>2, <1>5, Zenon DEF StoreInv, State
<1>10. (~failed' => disk' = mem') /\ (failed => failed')
  BY Zenon DEF StoreInv
<1>11. StoreInv'
  BY <1>1, <1>2, <1>5, <1>6, <1>8, <1>9, <1>10, Zenon DEF StoreInv
<1> QED
  BY <1>1, <1>2, <1>3, <1>7, <1>10, <1>11, Zenon DEF StoreStep

\* releaseStock, of the request or of the worker.
LEMMA ReleaseStep ==
  ASSUME StoreInv, NEW u \in Users, releaseStock(u)
  PROVE  /\ StoreStep(u) /\ mem'.orders = mem.orders
         /\ ~failed' => State(mem', u) # "Reserved"
<1> DEFINE new == [mem.resv[u] EXCEPT !.state = "Released"]
<1>0. mem.resv \in [Users -> Reservation \cup {Absent}]
  BY LedgerFields, Zenon DEF StoreInv
<1>1. CASE State(mem, u) # "Reserved"
  <2>1. UNCHANGED store
    BY <1>1, Zenon DEF releaseStock
  <2> QED
    BY <1>1, <2>1, StoreSame, Zenon DEF store, State
<1>2. CASE State(mem, u) = "Reserved"
  <2>1. mem.resv[u] \in Reservation /\ mem.resv[u].state = "Reserved"
    BY <1>0, <1>2, Zenon DEF State
  <2>2. new \in Reservation /\ new.qty = mem.resv[u].qty /\ new.state = "Released"
    BY <2>1, Zenon DEF Reservation
  <2>3. PICK ok \in BOOLEAN : Persist(ok, Reserve(mem, u, new), Reserve(disk, u, new))
    BY <1>2, Zenon DEF releaseStock
  <2> HIDE DEF new
  <2>4. /\ StoreStep(u) /\ mem'.orders = mem.orders
        /\ ok => mem'.resv[u] = new /\ failed' = failed
        /\ ~ok => mem' = mem /\ failed'
    BY <2>1, <2>2, <2>3, ReserveWrite
  <2> QED
    BY <2>2, <2>4, AbsentApart, Zenon DEF State
<1> QED
  BY <1>1, <1>2, Zenon

\* The two steps that replace the process: memory is lost, and then the
\* reservations without an order are released.
LEMMA CrashStore == ASSUME StoreInv, crash PROVE StoreInv'
  BY Zenon DEF StoreInv, crash, OneOrderPerKey, State

\* After a restart every reserved unit belongs to an order.
LEMMA RestartStore ==
  ASSUME StoreInv, restart, ~failed
  PROVE  /\ StoreInv'
         /\ \A u \in Users : State(mem, u)' = "Reserved" => mem'.orders[u] # Absent
<1> DEFINE r == [u \in Users |->
                   IF State(disk, u) = "Reserved" /\ disk.orders[u] = Absent
                   THEN [disk.resv[u] EXCEPT !.state = "Released"] ELSE disk.resv[u]]
<1>1. disk \in Ledger /\ disk.resv \in [Users -> Reservation \cup {Absent}]
  BY LedgerFields, Zenon DEF StoreInv
<1>2. \A u \in Users : State(disk, u) = "Reserved" =>
        /\ [disk.resv[u] EXCEPT !.state = "Released"] \in Reservation
        /\ [disk.resv[u] EXCEPT !.state = "Released"].state = "Released"
  BY <1>1, Zenon DEF State, Reservation
<1>3. \A u \in Users : /\ r[u] \in Reservation \cup {Absent}
                       /\ (r[u] # Absent /\ r[u].state = "Reserved") => disk.orders[u] # Absent
  BY <1>1, <1>2, AbsentApart, Zenon DEF State
<1>4. r \in [Users -> Reservation \cup {Absent}]
  BY <1>3, Zenon
<1>5. mem' = [disk EXCEPT !.resv = r] /\ disk' = [disk EXCEPT !.resv = r] /\ failed' = failed
  BY Zenon DEF restart, Released
<1> HIDE DEF r
<1>6. mem' \in Ledger /\ mem'.resv = r /\ mem'.orders = disk.orders /\ disk' = mem'
  BY <1>1, <1>4, <1>5, Zenon DEF Ledger
<1>7. StoreInv'
  BY <1>6 DEF StoreInv, OneOrderPerKey, State
<1> QED
  BY <1>3, <1>6, <1>7, Zenon DEF State

-----------------------------------------------------------------------------
(* Types.                                                                  *)

HttpSteps == {"idle", "reserve", "push", "release", "rollback"}

WorkSteps == {"idle", "persist", "publish", "confirm", "release", "rollback"}

Slot(steps) == [at: steps, msg: Message \cup {Absent}, attempt: Nat]

GateType == [state: {"RUNNING", "FINISHED"}, users: SUBSET Users, admitted: Nat]

\* A thread and a worker that are not idle have a message.
TypeInv ==
  /\ phase \in {"up", "down"}
  /\ gate \in GateType
  /\ http \in [Http -> Slot(HttpSteps)]
  /\ \A t \in Http : http[t].at # "idle" => http[t].msg \in Message
  /\ queue \in Seq(Message) /\ done \in SUBSET Users
  /\ work \in [Workers -> Slot(WorkSteps)]
  /\ \A w \in Workers : work[w].at # "idle" => work[w].msg \in Message

\* A free thread and a free worker have their type.
LEMMA Idle == NoMessage \in Slot(HttpSteps) /\ NoMessage \in Slot(WorkSteps) /\ NoMessage.at = "idle"
  BY Zenon DEF NoMessage, Slot, HttpSteps, WorkSteps

\* A thread goes to another step of its request.
LEMMA HttpStepTypes ==
  ASSUME TypeInv, NEW t \in Http, NEW step \in HttpSteps \ {"idle"}, http[t].at # "idle", HttpTo(t, step)
  PROVE  /\ http' \in [Http -> Slot(HttpSteps)]
         /\ http'[t].at = step /\ http'[t].msg = http[t].msg
         /\ \A s \in Http \ {t} : http'[s] = http[s]
<1>1. http \in [Http -> Slot(HttpSteps)] /\ http[t] \in Slot(HttpSteps)
  BY Zenon DEF TypeInv
<1>2. http' = [http EXCEPT ![t] = [http[t] EXCEPT !.at = step]]
  BY <1>1, Zenon DEF HttpTo
<1>3. [http[t] EXCEPT !.at = step] \in Slot(HttpSteps)
  BY <1>1, Zenon DEF Slot
<1>4. [http[t] EXCEPT !.at = step].at = step /\ [http[t] EXCEPT !.at = step].msg = http[t].msg
  BY <1>1, Zenon DEF Slot
<1> QED
  BY <1>1, <1>2, <1>3, <1>4, Zenon

\* A thread is free again.
LEMMA HttpDoneTypes ==
  ASSUME TypeInv, NEW t \in Http, HttpDone(t)
  PROVE  /\ http' \in [Http -> Slot(HttpSteps)] /\ http'[t].at = "idle"
         /\ \A s \in Http \ {t} : http'[s] = http[s]
  BY Idle, Zenon DEF TypeInv, HttpDone

\* A worker goes to another step of its message ...
LEMMA WorkStepTypes ==
  ASSUME TypeInv, NEW w \in Workers, NEW step \in WorkSteps \ {"idle"}, work[w].at # "idle", WorkTo(w, step)
  PROVE  /\ work' \in [Workers -> Slot(WorkSteps)]
         /\ work'[w].at = step /\ work'[w].msg = work[w].msg
         /\ \A x \in Workers \ {w} : work'[x] = work[x]
<1>1. work \in [Workers -> Slot(WorkSteps)] /\ work[w] \in Slot(WorkSteps)
  BY Zenon DEF TypeInv
<1>2. work' = [work EXCEPT ![w] = [work[w] EXCEPT !.at = step]]
  BY <1>1, Zenon DEF WorkTo
<1>3. [work[w] EXCEPT !.at = step] \in Slot(WorkSteps)
  BY <1>1, Zenon DEF Slot
<1>4. [work[w] EXCEPT !.at = step].at = step /\ [work[w] EXCEPT !.at = step].msg = work[w].msg
  BY <1>1, Zenon DEF Slot
<1> QED
  BY <1>1, <1>2, <1>3, <1>4, Zenon

\* ... or to the next attempt, or to compensation after the last.
LEMMA RetryTypes ==
  ASSUME TypeInv, NEW w \in Workers, work[w].at # "idle", Retry(w)
  PROVE  /\ work' \in [Workers -> Slot(WorkSteps)]
         /\ work'[w].at \in {"persist", "release"} /\ work'[w].msg = work[w].msg
         /\ \A x \in Workers \ {w} : work'[x] = work[x]
<1> DEFINE again == [work[w] EXCEPT !.at = "persist", !.attempt = @ + 1]
           last == [work[w] EXCEPT !.at = "release"]
<1>1. work \in [Workers -> Slot(WorkSteps)] /\ work[w] \in Slot(WorkSteps) /\ work[w].attempt \in Nat
  BY Zenon DEF TypeInv, Slot
<1>2. work' = [work EXCEPT ![w] = IF work[w].attempt < MaxAttempts THEN again ELSE last]
  BY Zenon DEF Retry
<1>3. again.at = "persist" /\ again.msg = work[w].msg /\ again.attempt = work[w].attempt + 1
  BY <1>1, Zenon DEF Slot
<1>4. last.at = "release" /\ last.msg = work[w].msg /\ last.attempt = work[w].attempt
  BY <1>1, Zenon DEF Slot
<1>5. again \in Slot(WorkSteps)
  <2>1. "persist" \in WorkSteps /\ work[w].attempt + 1 \in Nat
    BY <1>1 DEF WorkSteps
  <2> QED
    BY <1>1, <2>1, Zenon DEF Slot
<1>6. last \in Slot(WorkSteps)
  BY <1>1, Zenon DEF Slot, WorkSteps
<1> HIDE DEF again, last
<1> QED
  BY <1>1, <1>2, <1>3, <1>4, <1>5, <1>6, Zenon

-----------------------------------------------------------------------------
(* Places.                                                                 *)

AtHttp(t, u) == http[t].at # "idle" /\ http[t].msg.user = u

InQueue(i, u) == i \in 1..Len(queue) /\ queue[i].user = u

AtWork(w, u) == work[w].at # "idle" /\ work[w].msg.user = u

\* One place for each user in the gate: at one thread, at one position of the
\* queue, at one worker, or processed.
OnePlace(u) ==
  /\ \A s, t \in Http : AtHttp(s, u) /\ AtHttp(t, u) => s = t
  /\ \A i, j \in Nat : InQueue(i, u) /\ InQueue(j, u) => i = j
  /\ \A w, x \in Workers : AtWork(w, u) /\ AtWork(x, u) => w = x
  /\ \A t \in Http, i \in Nat : ~(AtHttp(t, u) /\ InQueue(i, u))
  /\ \A t \in Http, w \in Workers : ~(AtHttp(t, u) /\ AtWork(w, u))
  /\ \A i \in Nat, w \in Workers : ~(InQueue(i, u) /\ AtWork(w, u))

Held(u) ==
  \/ \E t \in Http : AtHttp(t, u)
  \/ \E i \in Nat : InQueue(i, u)
  \/ \E w \in Workers : AtWork(w, u)

PlaceOk(u) ==
  /\ OnePlace(u)
  /\ Held(u) => u \notin done
  /\ u \in gate.users <=> (Held(u) \/ u \in done)

PlaceInv == \A u \in Users : PlaceOk(u)

HttpSame == \A t \in Http, u \in Users : AtHttp(t, u)' <=> AtHttp(t, u)

QueueSame == \A i \in Nat, u \in Users : InQueue(i, u)' <=> InQueue(i, u)

WorkSame == \A w \in Workers, u \in Users : AtWork(w, u)' <=> AtWork(w, u)

\* Nobody moves.
LEMMA PlacesStay ==
  ASSUME PlaceInv, HttpSame, QueueSame, WorkSame, gate'.users = gate.users, done' = done
  PROVE  PlaceInv'
<1> SUFFICES ASSUME NEW u \in Users PROVE PlaceOk(u)'
  BY Zenon DEF PlaceInv
<1> USE DEF PlaceOk
<1>1. PlaceOk(u)
  BY Zenon DEF PlaceInv
<1>2. Held(u)' <=> Held(u)
  BY Zenon DEF Held, HttpSame, QueueSame, WorkSame
<1>3. OnePlace(u)'
  BY <1>1, Zenon DEF OnePlace, HttpSame, QueueSame, WorkSame
<1> QED
  BY <1>1, <1>2, <1>3, Zenon

\* A request is admitted at thread t.
LEMMA PlaceTaken ==
  ASSUME PlaceInv, NEW t \in Http, NEW u \in Users, u \notin gate.users,
         \A s \in Http, v \in Users : AtHttp(s, v)' <=> (s = t /\ v = u) \/ (s # t /\ AtHttp(s, v)),
         \A v \in Users : ~AtHttp(t, v),
         QueueSame, WorkSame, gate'.users = gate.users \cup {u}, done' = done
  PROVE  PlaceInv'
<1> SUFFICES ASSUME NEW v \in Users PROVE PlaceOk(v)'
  BY Zenon DEF PlaceInv
<1> USE DEF PlaceOk
<1>1. PlaceOk(v)
  BY Zenon DEF PlaceInv
<1>2. Held(v)' <=> (v = u \/ Held(v))
  BY Zenon DEF Held, QueueSame, WorkSame
<1>3. v = u => ~Held(v)
  BY <1>1, Zenon
<1>4. OnePlace(v)'
  <2>1. CASE v = u
    BY <1>3, <2>1, Zenon DEF OnePlace, Held, QueueSame, WorkSame
  <2>2. CASE v # u
    BY <1>1, <2>2, Zenon DEF OnePlace, QueueSame, WorkSame
  <2> QED
    BY <2>1, <2>2, Zenon
<1> QED
  BY <1>1, <1>2, <1>3, <1>4, Zenon

\* The request of thread t goes to the end of the queue, place n.
LEMMA PlaceQueued ==
  ASSUME PlaceInv, NEW t \in Http, NEW u \in Users, NEW n \in Nat, AtHttp(t, u),
         \A s \in Http, v \in Users : AtHttp(s, v)' <=> s # t /\ AtHttp(s, v),
         \A i \in Nat, v \in Users : InQueue(i, v)' <=> (i = n /\ v = u) \/ (i # n /\ InQueue(i, v)),
         \A v \in Users : ~InQueue(n, v) /\ (v # u => ~AtHttp(t, v)),
         WorkSame, gate'.users = gate.users, done' = done
  PROVE  PlaceInv'
<1> SUFFICES ASSUME NEW v \in Users PROVE PlaceOk(v)'
  BY Zenon DEF PlaceInv
<1> USE DEF PlaceOk
<1>1. PlaceOk(v)
  BY Zenon DEF PlaceInv
<1>2. Held(v)' <=> Held(v)
  BY Zenon DEF Held, WorkSame
<1>3. OnePlace(v)'
  <2>1. CASE v = u
    BY <1>1, <2>1, Zenon DEF OnePlace, WorkSame
  <2>2. CASE v # u
    BY <1>1, <2>2, Zenon DEF OnePlace, WorkSame
  <2> QED
    BY <2>1, <2>2, Zenon
<1> QED
  BY <1>1, <1>2, <1>3, Zenon

\* The head of the queue goes to worker w, everybody behind it moves up.
LEMMA PlacePopped ==
  ASSUME PlaceInv, NEW w \in Workers, NEW u \in Users, InQueue(1, u),
         \A v \in Users : v # u => ~InQueue(1, v),
         \A v \in Users : ~AtWork(w, v) /\ ~InQueue(0, v),
         \A i \in Nat, v \in Users : InQueue(i, v)' <=> i # 0 /\ InQueue(i + 1, v),
         \A x \in Workers, v \in Users : AtWork(x, v)' <=> (x = w /\ v = u) \/ (x # w /\ AtWork(x, v)),
         HttpSame, gate'.users = gate.users, done' = done
  PROVE  PlaceInv'
<1> SUFFICES ASSUME NEW v \in Users PROVE PlaceOk(v)'
  BY Zenon DEF PlaceInv
<1> USE DEF PlaceOk
<1>1. PlaceOk(v)
  BY Zenon DEF PlaceInv
<1>2. \A i \in Nat : InQueue(i, v) => i # 0 /\ (v # u => i - 1 \in Nat \ {0} /\ InQueue(i - 1, v)')
  <2> SUFFICES ASSUME NEW i \in Nat, InQueue(i, v)
               PROVE  i # 0 /\ (v # u => i - 1 \in Nat \ {0} /\ InQueue(i - 1, v)')
    BY Zenon
  <2>1. i # 0 /\ (v # u => i # 1)
    BY Zenon
  <2>2. v # u => i - 1 \in Nat \ {0} /\ (i - 1) + 1 = i
    BY <2>1
  <2> QED
    BY <2>1, <2>2, Zenon
<1>3. CASE v = u
  <2>1. \A i \in Nat : InQueue(i, v) => i = 1
    BY <1>1, <1>3, Zenon DEF OnePlace
  <2>2. \A i \in Nat : ~InQueue(i, v)'
    <3> SUFFICES ASSUME NEW i \in Nat, InQueue(i, v)' PROVE FALSE
      BY Zenon
    <3>1. i # 0 /\ InQueue(i + 1, v) /\ i + 1 \in Nat
      OBVIOUS
    <3> QED
      BY <2>1, <3>1
  <2>3. OnePlace(v)'
    BY <1>1, <1>3, <2>2, Zenon DEF OnePlace, HttpSame
  <2>4. Held(v) /\ Held(v)'
    BY <1>3, Zenon DEF Held
  <2> QED
    BY <1>1, <2>3, <2>4, Zenon
<1>4. CASE v # u
  <2>1. (\E i \in Nat : InQueue(i, v)') <=> (\E i \in Nat : InQueue(i, v))
    <3>1. ASSUME NEW i \in Nat, InQueue(i, v)' PROVE i + 1 \in Nat /\ InQueue(i + 1, v)
      BY <3>1
    <3> QED
      BY <1>2, <1>4, <3>1, Zenon
  <2>2. Held(v)' <=> Held(v)
    BY <1>4, <2>1, Zenon DEF Held, HttpSame
  <2>3. \A i, j \in Nat : InQueue(i, v)' /\ InQueue(j, v)' => i = j
    <3> SUFFICES ASSUME NEW i \in Nat, NEW j \in Nat, InQueue(i, v)', InQueue(j, v)' PROVE i = j
      BY Zenon
    <3>1. InQueue(i + 1, v) /\ InQueue(j + 1, v) /\ i + 1 \in Nat /\ j + 1 \in Nat
      OBVIOUS
    <3>2. i + 1 = j + 1
      BY <1>1, <3>1, Zenon DEF OnePlace
    <3> QED
      BY <3>2
  <2>4. \A i \in Nat : InQueue(i, v)' => \E j \in Nat : InQueue(j, v)
    BY <2>1, Zenon
  <2>5. OnePlace(v)'
    BY <1>1, <1>4, <2>3, <2>4 DEF OnePlace, HttpSame
  <2> QED
    BY <1>1, <2>2, <2>5, Zenon
<1> QED
  BY <1>3, <1>4, Zenon

\* The request of thread t is rejected and its place given back.
LEMMA PlaceRejected ==
  ASSUME PlaceInv, NEW t \in Http, NEW u \in Users, AtHttp(t, u),
         \A s \in Http, v \in Users : AtHttp(s, v)' <=> s # t /\ AtHttp(s, v),
         \A v \in Users : v # u => ~AtHttp(t, v),
         QueueSame, WorkSame, gate'.users = gate.users \ {u}, done' = done
  PROVE  PlaceInv'
<1> SUFFICES ASSUME NEW v \in Users PROVE PlaceOk(v)'
  BY Zenon DEF PlaceInv
<1> USE DEF PlaceOk
<1>1. PlaceOk(v)
  BY Zenon DEF PlaceInv
<1>2. OnePlace(v)'
  BY <1>1, Zenon DEF OnePlace, QueueSame, WorkSame
<1>3. v = u => Held(v) /\ ~Held(v)'
  BY <1>1, Zenon DEF OnePlace, Held, QueueSame, WorkSame
<1>4. v # u => (Held(v)' <=> Held(v))
  BY Zenon DEF Held, QueueSame, WorkSame
<1> QED
  BY <1>1, <1>2, <1>3, <1>4, Zenon

\* Worker w is free again: its message was processed, or compensated.
LEMMA PlaceSettled ==
  ASSUME PlaceInv, NEW w \in Workers, NEW u \in Users, AtWork(w, u),
         \A x \in Workers, v \in Users : AtWork(x, v)' <=> x # w /\ AtWork(x, v),
         \A v \in Users : v # u => ~AtWork(w, v),
         HttpSame, QueueSame,
         \/ gate'.users = gate.users /\ done' = done \cup {u}
         \/ gate'.users = gate.users \ {u} /\ done' = done
  PROVE  PlaceInv'
<1> SUFFICES ASSUME NEW v \in Users PROVE PlaceOk(v)'
  BY Zenon DEF PlaceInv
<1> USE DEF PlaceOk
<1>1. PlaceOk(v)
  BY Zenon DEF PlaceInv
<1>2. OnePlace(v)'
  BY <1>1, Zenon DEF OnePlace, HttpSame, QueueSame
<1>3. v = u => Held(v) /\ ~Held(v)'
  BY <1>1, Zenon DEF OnePlace, Held, HttpSame, QueueSame
<1>4. v # u => (Held(v)' <=> Held(v))
  BY Zenon DEF Held, HttpSame, QueueSame
<1> QED
  BY <1>1, <1>2, <1>3, <1>4, Zenon

\* A process that has just started, or has just ended.
LEMMA PlacesEmpty ==
  ASSUME \A t \in Http : http[t].at = "idle", queue = <<>>, \A w \in Workers : work[w].at = "idle",
         gate.users = {}, done = {}
  PROVE  PlaceInv
<1>1. \A u \in Users, i \in Nat : ~InQueue(i, u)
  BY DEF InQueue
<1> QED
  BY <1>1, Zenon DEF PlaceInv, PlaceOk, OnePlace, Held, AtHttp, AtWork

-----------------------------------------------------------------------------
(* The gate.                                                               *)

\* tryAcquire.
LEMMA GateTakes ==
  ASSUME TypeInv, NEW u \in Users, gate' = [gate EXCEPT !.users = @ \cup {u}, !.admitted = @ + 1]
  PROVE  /\ gate' \in GateType /\ gate'.users = gate.users \cup {u}
         /\ gate'.admitted = gate.admitted + 1
<1>1. gate \in GateType
  BY Zenon DEF TypeInv
<1>2. gate'.users = gate.users \cup {u} /\ gate'.admitted = gate.admitted + 1
  BY <1>1, Zenon DEF GateType
<1>3. gate.users \cup {u} \in SUBSET Users /\ gate.admitted + 1 \in Nat
  BY <1>1 DEF GateType
<1>4. gate' \in GateType
  BY <1>1, <1>3, Zenon DEF GateType
<1> QED
  BY <1>2, <1>4, Zenon

\* rollback.
LEMMA GateReturns ==
  ASSUME TypeInv, NEW u \in Users, gate' = rollback(u)
  PROVE  /\ gate' \in GateType /\ gate'.users = gate.users \ {u}
         /\ gate'.admitted = IF u \in gate.users /\ gate.admitted > 0 THEN gate.admitted - 1 ELSE gate.admitted
<1> DEFINE n == IF u \in gate.users /\ gate.admitted > 0 THEN gate.admitted - 1 ELSE gate.admitted
<1>1. gate \in GateType
  BY Zenon DEF TypeInv
<1>2. n \in Nat
  BY <1>1 DEF GateType
<1>3. gate' = [gate EXCEPT !.users = @ \ {u}, !.admitted = n]
  BY Zenon DEF rollback
<1> HIDE DEF n
<1>4. gate'.users = gate.users \ {u} /\ gate'.admitted = n
  BY <1>1, <1>3, Zenon DEF GateType
<1>5. gate.users \ {u} \in SUBSET Users
  BY <1>1, Zenon DEF GateType
<1>6. gate' \in GateType
  BY <1>1, <1>2, <1>3, <1>5, Zenon DEF GateType
<1> QED
  BY <1>4, <1>6, Zenon DEF n

-----------------------------------------------------------------------------
(* What a request may rely on at each step.                                *)

Backed(L, m) == L.resv[m.user] # Absent /\ L.resv[m.user].qty = m.qty

Ordered(L, m) == L.orders[m.user] # Absent /\ L.orders[m.user].qty = m.qty

Covered(L, u) == State(L, u) = "Reserved" => L.orders[u] # Absent

HttpGood(s, L, f) ==
  /\ s.at \in {"push", "release"} => Backed(L, s.msg)
  /\ (s.at \in {"reserve", "rollback"} /\ ~f) => Covered(L, s.msg.user)

WorkGood(s, L, f) ==
  s.at # "idle" =>
    /\ Backed(L, s.msg)
    /\ s.at \in {"publish", "confirm"} => Ordered(L, s.msg)
    /\ (s.at = "rollback" /\ ~f) => Covered(L, s.msg.user)

\* A user who has no place in the gate has no reservation without an order: this
\* is what gives the next request of the user a clean start.
ClaimInv ==
  /\ \A t \in Http : HttpGood(http[t], mem, failed)
  /\ \A i \in 1..Len(queue) : Backed(mem, queue[i])
  /\ \A w \in Workers : WorkGood(work[w], mem, failed)
  /\ \A u \in done : Sold(mem, u)
  /\ (phase = "up" /\ ~failed) => \A u \in Users \ gate.users : Covered(mem, u)

DownInv ==
  phase = "down" =>
    /\ ~failed /\ queue = <<>> /\ done = {}
    /\ \A t \in Http : http[t].at = "idle"
    /\ \A w \in Workers : work[w].at = "idle"

PipelineInv == TypeInv /\ StoreInv /\ PlaceInv /\ ClaimInv /\ DownInv

\* A step that touches nobody but u disturbs nobody but u.
LEMMA Others ==
  ASSUME TypeInv, ClaimInv, NEW u \in Users, StoreStep(u)
  PROVE  /\ \A t \in Http : (http[t].at = "idle" \/ http[t].msg.user # u) => HttpGood(http[t], mem', failed')
         /\ \A i \in 1..Len(queue) : Backed(mem', queue[i])
         /\ \A w \in Workers : (work[w].at = "idle" \/ work[w].msg.user # u) => WorkGood(work[w], mem', failed')
         /\ \A v \in Users : (v \in done /\ v # u) => Sold(mem', v)
         /\ (phase = "up" /\ ~failed') => \A v \in Users \ gate.users : v # u => Covered(mem', v)
<1>1. \A v \in Users : v # u => mem'.resv[v] = mem.resv[v] /\ mem'.orders[v] = mem.orders[v]
  BY Zenon DEF StoreStep
<1>2. ~failed' => ~failed
  BY Zenon DEF StoreStep
<1>3. \A v \in Users : v # u => /\ Covered(mem, v) => Covered(mem', v)
                                /\ Sold(mem, v) => Sold(mem', v)
  BY <1>1, Zenon DEF Covered, Sold, State
<1>4. \A m \in Message : /\ m.user # u => (Ordered(mem, m) => Ordered(mem', m))
                         /\ Backed(mem, m) => Backed(mem', m)
  BY <1>1, Zenon DEF Ordered, Backed, Message, StoreStep, Lasting
<1>5. \A m \in Message : m.user \in Users
  BY Zenon DEF Message
<1>6. \A t \in Http : (http[t].at = "idle" \/ http[t].msg.user # u) => HttpGood(http[t], mem', failed')
  <2> SUFFICES ASSUME NEW t \in Http, http[t].at = "idle" \/ http[t].msg.user # u
               PROVE  HttpGood(http[t], mem', failed')
    BY Zenon
  <2>1. CASE http[t].at = "idle"
    BY <2>1, Zenon DEF HttpGood
  <2>2. CASE http[t].at # "idle"
    <3>1. http[t].msg \in Message /\ http[t].msg.user # u /\ HttpGood(http[t], mem, failed)
      BY <2>2, Zenon DEF TypeInv, ClaimInv
    <3> QED
      BY <1>2, <1>3, <1>4, <1>5, <3>1, Zenon DEF HttpGood
  <2> QED
    BY <2>1, <2>2, Zenon
<1>7. \A w \in Workers : (work[w].at = "idle" \/ work[w].msg.user # u) => WorkGood(work[w], mem', failed')
  <2> SUFFICES ASSUME NEW w \in Workers, work[w].at # "idle", work[w].msg.user # u
               PROVE  WorkGood(work[w], mem', failed')
    BY Zenon DEF WorkGood
  <2>1. work[w].msg \in Message /\ WorkGood(work[w], mem, failed)
    BY Zenon DEF TypeInv, ClaimInv
  <2> QED
    BY <1>2, <1>3, <1>4, <1>5, <2>1, Zenon DEF WorkGood
<1>8. \A i \in 1..Len(queue) : Backed(mem', queue[i])
  <2> SUFFICES ASSUME NEW i \in 1..Len(queue) PROVE Backed(mem', queue[i])
    BY Zenon
  <2>1. queue[i] \in Message /\ Backed(mem, queue[i])
    BY DEF TypeInv, ClaimInv
  <2> QED
    BY <1>4, <2>1, Zenon
<1>9. \A v \in Users : (v \in done /\ v # u) => Sold(mem', v)
  BY <1>3, Zenon DEF ClaimInv
<1>10. (phase = "up" /\ ~failed') => \A v \in Users \ gate.users : v # u => Covered(mem', v)
  BY <1>2, <1>3, Zenon DEF ClaimInv
<1> QED
  BY <1>6, <1>7, <1>8, <1>9, <1>10, Zenon

\* Thread t goes to another step, its user's part of the store changing.
LEMMA HttpMoves ==
  ASSUME PipelineInv, NEW t \in Http, NEW step \in HttpSteps \ {"idle"}, NEW u \in Users,
         http[t].at # "idle", http[t].msg.user = u, phase = "up",
         HttpTo(t, step), StoreStep(u), UNCHANGED <<phase, gate, queue, work, done>>,
         step \in {"push", "release"} => Backed(mem', http[t].msg),
         (step \in {"reserve", "rollback"} /\ ~failed') => Covered(mem', u)
  PROVE  PipelineInv'
<1> USE DEF PipelineInv
<1>1. /\ http' \in [Http -> Slot(HttpSteps)]
      /\ http'[t].at = step /\ http'[t].msg = http[t].msg /\ step # "idle"
      /\ \A s \in Http \ {t} : http'[s] = http[s]
  BY HttpStepTypes, Zenon
<1>2. TypeInv'
  BY <1>1, Zenon DEF TypeInv
<1>3. StoreInv' /\ DownInv'
  BY Zenon DEF StoreStep, DownInv
<1>4. HttpSame
  BY <1>1, Zenon DEF HttpSame, AtHttp
<1>5. QueueSame /\ WorkSame
  BY Zenon DEF QueueSame, WorkSame, InQueue, AtWork
<1>6. PlaceInv'
  BY <1>4, <1>5, PlacesStay, Zenon
<1>7. OnePlace(u) /\ AtHttp(t, u) /\ Held(u) /\ u \notin done /\ u \in gate.users
  BY Zenon DEF PlaceInv, PlaceOk, AtHttp, Held
<1>8. \A s \in Http \ {t} : HttpGood(http[s], mem', failed')
  BY <1>7, Others, Zenon DEF OnePlace, AtHttp
<1>9. \A w \in Workers : WorkGood(work[w], mem', failed')
  BY <1>7, Others, Zenon DEF OnePlace, AtWork
<1>10. HttpGood(http'[t], mem', failed')
  BY <1>1, Zenon DEF HttpGood
<1>11. \A s \in Http : HttpGood(http'[s], mem', failed')
  BY <1>1, <1>8, <1>10, Zenon
<1>12. \A v \in done : v \in Users /\ Sold(mem', v)
  BY <1>7, Others, Zenon DEF PlaceInv, PlaceOk, ClaimInv, TypeInv
<1>13. ClaimInv'
  BY <1>7, <1>9, <1>11, <1>12, Others, Zenon DEF ClaimInv
<1> QED
  BY <1>2, <1>3, <1>6, <1>13, Zenon

\* Worker w goes to another step with its message.
LEMMA WorkMoves ==
  ASSUME PipelineInv, NEW w \in Workers, NEW u \in Users,
         work[w].at # "idle", work[w].msg.user = u, phase = "up",
         work' \in [Workers -> Slot(WorkSteps)], work'[w].at # "idle", work'[w].msg = work[w].msg,
         \A x \in Workers \ {w} : work'[x] = work[x],
         StoreStep(u), UNCHANGED <<phase, gate, queue, http, done>>,
         work'[w].at \in {"publish", "confirm"} => Ordered(mem', work[w].msg),
         (work'[w].at = "rollback" /\ ~failed') => Covered(mem', u)
  PROVE  PipelineInv'
<1> USE DEF PipelineInv
<1>1. work[w].msg \in Message
  BY Zenon DEF TypeInv
<1>2. TypeInv'
  BY <1>1, Zenon DEF TypeInv
<1>3. StoreInv' /\ DownInv'
  BY Zenon DEF StoreStep, DownInv
<1>4. WorkSame
  BY Zenon DEF WorkSame, AtWork
<1>5. QueueSame /\ HttpSame
  BY Zenon DEF QueueSame, HttpSame, InQueue, AtHttp
<1>6. PlaceInv'
  BY <1>4, <1>5, PlacesStay, Zenon
<1>7. OnePlace(u) /\ AtWork(w, u) /\ Held(u) /\ u \notin done /\ u \in gate.users
  BY Zenon DEF PlaceInv, PlaceOk, AtWork, Held
<1>8. \A x \in Workers \ {w} : WorkGood(work[x], mem', failed')
  BY <1>7, Others, Zenon DEF OnePlace, AtWork
<1>9. \A t \in Http : HttpGood(http[t], mem', failed')
  BY <1>7, Others, Zenon DEF OnePlace, AtHttp
<1>10. WorkGood(work'[w], mem', failed')
  <2>1. Backed(mem, work[w].msg)
    BY Zenon DEF ClaimInv, WorkGood
  <2>2. Backed(mem', work[w].msg)
    BY <1>1, <2>1, Zenon DEF StoreStep, Lasting, Backed, Message
  <2> QED
    BY <2>2, Zenon DEF WorkGood
<1>11. \A x \in Workers : WorkGood(work'[x], mem', failed')
  BY <1>8, <1>10, Zenon
<1>12. \A v \in done : v \in Users /\ Sold(mem', v)
  BY <1>7, Others, Zenon DEF PlaceInv, PlaceOk, ClaimInv, TypeInv
<1>13. ClaimInv'
  BY <1>7, <1>9, <1>11, <1>12, Others, Zenon DEF ClaimInv
<1> QED
  BY <1>2, <1>3, <1>6, <1>13, Zenon

-----------------------------------------------------------------------------
(* The steps of a request.                                                 *)

\* tryAcquire: the user had no place, hence nothing uncovered.
LEMMA SubmitStep ==
  ASSUME PipelineInv, NEW t \in Http, NEW m \in Message, submit(t, m)
  PROVE  PipelineInv'
<1> USE DEF PipelineInv
<1> DEFINE u == m.user
           slot == [at |-> "reserve", msg |-> m, attempt |-> 0]
<1>1. u \in Users /\ u \notin gate.users /\ phase = "up" /\ http[t].at = "idle" /\ Accepts(u)
  BY Zenon DEF Message, submit, HttpAt, Accepts
<1>2. slot \in Slot(HttpSteps) /\ slot.at = "reserve" /\ slot.msg = m
  BY Zenon DEF Slot, HttpSteps
<1>3. http' = [http EXCEPT ![t] = slot] /\ UNCHANGED <<phase, mem, disk, failed, queue, work, done>>
  BY Zenon DEF submit, store
<1> HIDE DEF slot
<1>4. /\ http' \in [Http -> Slot(HttpSteps)] /\ http'[t] = slot
      /\ \A s \in Http \ {t} : http'[s] = http[s]
  BY <1>2, <1>3, Zenon DEF TypeInv
<1>5. /\ gate'.users = gate.users \cup {u}
      /\ gate' \in GateType
  <2>1. gate' = [gate EXCEPT !.users = @ \cup {u}, !.admitted = @ + 1]
    BY Zenon DEF submit
  <2> QED
    BY <1>1, <2>1, GateTakes, Zenon
<1>6. TypeInv'
  BY <1>2, <1>3, <1>4, <1>5, Zenon DEF TypeInv
<1>7. StoreInv' /\ DownInv'
  BY <1>1, <1>3, Zenon DEF StoreInv, OneOrderPerKey, State, DownInv
<1>8. PlaceInv'
  <2>1. \A v \in Users : ~AtHttp(t, v)
    BY <1>1, Zenon DEF AtHttp
  <2>2. \A s \in Http, v \in Users : AtHttp(s, v)' <=> (s = t /\ v = u) \/ (s # t /\ AtHttp(s, v))
    BY <1>2, <1>4, Zenon DEF AtHttp
  <2>3. QueueSame /\ WorkSame
    BY <1>3, Zenon DEF QueueSame, WorkSame, InQueue, AtWork
  <2> HIDE DEF u
  <2> QED
    BY <1>1, <1>3, <1>5, <2>1, <2>2, <2>3, PlaceTaken, Zenon
<1>9. HttpGood(slot, mem, failed)
  BY <1>1, <1>2, Zenon DEF ClaimInv, HttpGood
<1>10. ClaimInv'
  BY <1>3, <1>4, <1>5, <1>9, Zenon DEF ClaimInv, Sold, State
<1> QED
  BY <1>5, <1>6, <1>7, <1>8, <1>10, Zenon

\* reserveStock in submit: the stock is there, or the request is rejected.
LEMMA ReserveStep ==
  ASSUME PipelineInv, NEW t \in Http, reserve(t)
  PROVE  PipelineInv'
<1> USE DEF PipelineInv
<1> DEFINE m == http[t].msg
           u == http[t].msg.user
           new == [qty |-> http[t].msg.qty, state |-> "Reserved"]
<1>1. phase = "up" /\ http[t].at = "reserve" /\ m \in Message /\ u \in Users
  BY Zenon DEF reserve, HttpAt, TypeInv, Message
<1>2. UNCHANGED <<phase, gate, queue, work, done>>
  BY Zenon DEF reserve
<1>3. new \in Reservation /\ new.qty = m.qty
  BY <1>1, Zenon DEF Message, Reservation
<1>4. ~failed => Covered(mem, u)
  BY <1>1, Zenon DEF ClaimInv, HttpGood
<1>5. "push" \in HttpSteps \ {"idle"} /\ "rollback" \in HttpSteps \ {"idle"}
  BY Zenon DEF HttpSteps
<1>6. CASE /\ mem.resv[u] # Absent /\ UNCHANGED store
           /\ HttpTo(t, IF mem.resv[u].qty = m.qty THEN "push" ELSE "rollback")
  <2>1. StoreStep(u) /\ mem' = mem /\ failed' = failed
    BY <1>6, StoreSame, Zenon DEF store
  <2>2. CASE mem.resv[u].qty = m.qty
    <3>1. HttpTo(t, "push") /\ Backed(mem', m)
      BY <1>6, <2>1, <2>2, Zenon DEF Backed
    <3> QED
      BY <1>1, <1>2, <1>5, <2>1, <3>1, HttpMoves, Zenon
  <2>3. CASE mem.resv[u].qty # m.qty
    <3>1. HttpTo(t, "rollback")
      BY <1>6, <2>3, Zenon
    <3> QED
      BY <1>1, <1>2, <1>4, <1>5, <2>1, <3>1, HttpMoves, Zenon
  <2> QED
    BY <2>2, <2>3, Zenon
<1>7. CASE mem.resv[u] = Absent /\ UNCHANGED store /\ HttpTo(t, "rollback")
  <2>1. StoreStep(u) /\ mem' = mem /\ failed' = failed
    BY <1>7, StoreSame, Zenon DEF store
  <2> QED
    BY <1>1, <1>2, <1>4, <1>5, <1>7, <2>1, HttpMoves, Zenon
<1>8. CASE /\ mem.resv[u] = Absent
           /\ \E ok \in BOOLEAN : /\ Persist(ok, Reserve(mem, u, new), Reserve(disk, u, new))
                                  /\ HttpTo(t, IF ok THEN "push" ELSE "rollback")
  <2>1. PICK ok \in BOOLEAN : /\ Persist(ok, Reserve(mem, u, new), Reserve(disk, u, new))
                              /\ HttpTo(t, IF ok THEN "push" ELSE "rollback")
    BY <1>8, Zenon
  <2> HIDE DEF new
  <2>2. StoreStep(u) /\ (ok => mem'.resv[u] = new) /\ (~ok => failed')
    BY <1>1, <1>3, <1>8, <2>1, ReserveWrite
  <2>3. CASE ok
    <3>1. HttpTo(t, "push") /\ Backed(mem', m)
      BY <1>3, <2>1, <2>2, <2>3, AbsentApart, Zenon DEF Backed
    <3> QED
      BY <1>1, <1>2, <1>5, <2>2, <3>1, HttpMoves, Zenon
  <2>4. CASE ~ok
    <3>1. HttpTo(t, "rollback") /\ failed'
      BY <2>1, <2>2, <2>4, Zenon
    <3> QED
      BY <1>1, <1>2, <1>5, <2>2, <3>1, HttpMoves, Zenon
  <2> QED
    BY <2>3, <2>4, Zenon
<1> QED
  BY <1>6, <1>7, <1>8, Zenon DEF reserve

\* push: the place moves from the thread to the queue.
LEMMA PushStep ==
  ASSUME PipelineInv, NEW t \in Http, push(t)
  PROVE  PipelineInv'
<1> USE DEF PipelineInv
<1> DEFINE m == http[t].msg
           u == http[t].msg.user
           n == Len(queue) + 1
<1>1. phase = "up" /\ http[t].at = "push" /\ m \in Message /\ u \in Users
  BY Zenon DEF push, HttpAt, TypeInv, Message
<1>2. UNCHANGED <<phase, gate, mem, disk, failed, work, done>>
  BY Zenon DEF push, store
<1>3. StoreStep(u)
  BY <1>2, StoreSame, Zenon DEF store
<1>4. Backed(mem, m)
  BY <1>1, Zenon DEF ClaimInv, HttpGood
<1>5. CASE HttpTo(t, "release") /\ UNCHANGED queue
  <2>1. "release" \in HttpSteps \ {"idle"}
    BY Zenon DEF HttpSteps
  <2> QED
    BY <1>1, <1>2, <1>3, <1>4, <1>5, <2>1, HttpMoves, Zenon
<1>6. CASE queue' = Append(queue, m) /\ HttpDone(t)
  <2>1. /\ http' \in [Http -> Slot(HttpSteps)] /\ http'[t].at = "idle"
        /\ \A s \in Http \ {t} : http'[s] = http[s]
    BY <1>6, HttpDoneTypes, Zenon
  <2>2. queue \in Seq(Message) /\ Len(queue) \in Nat
    BY DEF TypeInv
  <2>3. /\ queue' \in Seq(Message) /\ Len(queue') = n /\ queue'[n] = m
        /\ \A i \in 1..Len(queue) : queue'[i] = queue[i]
    BY <1>1, <1>6, <2>2
  <2>4. TypeInv'
    BY <1>2, <2>1, <2>3, Zenon DEF TypeInv
  <2>5. StoreInv' /\ DownInv'
    BY <1>1, <1>2, <1>3, Zenon DEF StoreStep, DownInv
  <2>6. PlaceInv'
    <3>1. AtHttp(t, u) /\ \A v \in Users : ~InQueue(n, v) /\ (v # u => ~AtHttp(t, v))
      BY <1>1, <2>2 DEF AtHttp, InQueue
    <3>2. \A s \in Http, v \in Users : AtHttp(s, v)' <=> s # t /\ AtHttp(s, v)
      BY <2>1, Zenon DEF AtHttp
    <3>3. \A i \in Nat, v \in Users : InQueue(i, v)' <=> (i = n /\ v = u) \/ (i # n /\ InQueue(i, v))
      BY <2>2, <2>3 DEF InQueue
    <3>4. WorkSame /\ gate'.users = gate.users /\ done' = done /\ n \in Nat
      BY <1>2, <2>2 DEF WorkSame, AtWork
    <3> HIDE DEF n, u
    <3> QED
      BY <1>1, <3>1, <3>2, <3>3, <3>4, PlaceQueued, Zenon
  <2>7. \A s \in Http : HttpGood(http'[s], mem, failed)
    BY <2>1, Zenon DEF ClaimInv, HttpGood
  <2>8. \A i \in 1..Len(queue') : Backed(mem, queue'[i])
    <3> SUFFICES ASSUME NEW i \in 1..Len(queue') PROVE Backed(mem, queue'[i])
      BY Zenon
    <3>1. CASE i = n
      BY <1>4, <2>3, <3>1, Zenon
    <3>2. CASE i # n
      BY <2>2, <2>3, <3>2 DEF ClaimInv
    <3> QED
      BY <3>1, <3>2, Zenon
  <2>9. ClaimInv'
    BY <1>2, <2>7, <2>8, Zenon DEF ClaimInv, Sold, State
  <2> QED
    BY <2>4, <2>5, <2>6, <2>9, Zenon
<1> QED
  BY <1>5, <1>6, Zenon DEF push

\* The compensation of submit gives the stock back ...
LEMMA ReleaseRequest ==
  ASSUME PipelineInv, NEW t \in Http, release(t)
  PROVE  PipelineInv'
<1> USE DEF PipelineInv
<1> DEFINE u == http[t].msg.user
<1>1. phase = "up" /\ http[t].at = "release" /\ u \in Users
  BY Zenon DEF release, HttpAt, TypeInv, Message
<1>2. releaseStock(u) /\ HttpTo(t, "rollback") /\ UNCHANGED <<phase, gate, queue, work, done>>
  BY Zenon DEF release
<1>3. StoreStep(u) /\ (~failed' => State(mem', u) # "Reserved")
  BY <1>1, <1>2, ReleaseStep, Zenon
<1>4. "rollback" \in HttpSteps \ {"idle"} /\ (~failed' => Covered(mem', u))
  BY <1>3, Zenon DEF HttpSteps, Covered
<1> QED
  BY <1>1, <1>2, <1>3, <1>4, HttpMoves, Zenon

\* ... and then the place.
LEMMA RejectStep ==
  ASSUME PipelineInv, NEW t \in Http, reject(t)
  PROVE  PipelineInv'
<1> USE DEF PipelineInv
<1> DEFINE u == http[t].msg.user
<1>1. phase = "up" /\ http[t].at = "rollback" /\ u \in Users
  BY Zenon DEF reject, HttpAt, TypeInv, Message
<1>2. gate' = rollback(u) /\ HttpDone(t) /\ UNCHANGED <<phase, mem, disk, failed, queue, work, done>>
  BY Zenon DEF reject, store
<1>3. AtHttp(t, u) /\ u \in gate.users
  BY <1>1, Zenon DEF AtHttp, PlaceInv, PlaceOk, Held
<1>4. /\ http' \in [Http -> Slot(HttpSteps)] /\ http'[t].at = "idle"
      /\ \A s \in Http \ {t} : http'[s] = http[s]
  BY <1>2, HttpDoneTypes, Zenon
<1>5. /\ gate'.users = gate.users \ {u}
      /\ gate' \in GateType
  BY <1>1, <1>2, <1>3, GateReturns, Zenon
<1>6. TypeInv'
  BY <1>2, <1>4, <1>5, Zenon DEF TypeInv
<1>7. StoreInv' /\ DownInv'
  BY <1>1, <1>2, Zenon DEF StoreInv, OneOrderPerKey, State, DownInv
<1>8. PlaceInv'
  <2>1. \A v \in Users : v # u => ~AtHttp(t, v)
    BY Zenon DEF AtHttp
  <2>2. \A s \in Http, v \in Users : AtHttp(s, v)' <=> s # t /\ AtHttp(s, v)
    BY <1>4, Zenon DEF AtHttp
  <2>3. QueueSame /\ WorkSame
    BY <1>2, Zenon DEF QueueSame, WorkSame, InQueue, AtWork
  <2> HIDE DEF u
  <2> QED
    BY <1>1, <1>2, <1>3, <1>5, <2>1, <2>2, <2>3, PlaceRejected, Zenon
<1>9. ~failed => Covered(mem, u)
  BY <1>1, Zenon DEF ClaimInv, HttpGood
<1>10. ClaimInv'
  BY <1>1, <1>2, <1>4, <1>5, <1>9, Zenon DEF ClaimInv, HttpGood, Sold, State
<1> QED
  BY <1>5, <1>6, <1>7, <1>8, <1>10, Zenon

-----------------------------------------------------------------------------
(* The steps of a worker.                                                  *)

\* pop: the place moves from the queue to the worker.
LEMMA PopStep ==
  ASSUME PipelineInv, NEW w \in Workers, pop(w)
  PROVE  PipelineInv'
<1> USE DEF PipelineInv
<1> DEFINE m == queue[1]
           u == queue[1].user
           slot == [at |-> "persist", msg |-> Head(queue), attempt |-> 1]
<1>0. queue \in Seq(Message) /\ Len(queue) \in Nat
  BY DEF TypeInv
<1>1. phase = "up" /\ work[w].at = "idle" /\ queue # <<>>
  BY Zenon DEF pop, WorkAt
<1>2. 1 \in 1..Len(queue) /\ Head(queue) = m /\ m \in Message /\ u \in Users
  <2>1. Len(queue) # 0
    BY <1>0, <1>1
  <2>2. 1 \in 1..Len(queue) /\ Head(queue) = m
    BY <1>0, <2>1
  <2>3. m \in Message
    BY <1>0, <2>2
  <2> QED
    BY <2>2, <2>3, Zenon DEF Message
<1>3. /\ work' = [work EXCEPT ![w] = slot] /\ queue' = Tail(queue)
      /\ UNCHANGED <<phase, gate, mem, disk, failed, http, done>>
  BY Zenon DEF pop, store
<1>4. slot \in Slot(WorkSteps) /\ slot.at = "persist" /\ slot.msg = m
  BY <1>2, Zenon DEF Slot, WorkSteps
<1> HIDE DEF slot
<1>5. /\ work' \in [Workers -> Slot(WorkSteps)] /\ work'[w] = slot
      /\ \A x \in Workers \ {w} : work'[x] = work[x]
  BY <1>3, <1>4, Zenon DEF TypeInv
<1>6. /\ queue' \in Seq(Message) /\ Len(queue') = Len(queue) - 1
      /\ \A i \in 1..Len(queue') : queue'[i] = queue[i + 1]
  BY <1>0, <1>1, <1>3
<1>7. TypeInv'
  BY <1>2, <1>3, <1>4, <1>5, <1>6, Zenon DEF TypeInv
<1>8. StoreInv' /\ DownInv'
  BY <1>1, <1>3, Zenon DEF StoreInv, OneOrderPerKey, State, DownInv
<1>9. PlaceInv'
  <2>1. InQueue(1, u) /\ \A v \in Users : v # u => ~InQueue(1, v)
    BY <1>2, Zenon DEF InQueue
  <2>2. \A v \in Users : ~AtWork(w, v) /\ ~InQueue(0, v)
    BY <1>0, <1>1 DEF AtWork, InQueue
  <2>3. \A i \in Nat, v \in Users : InQueue(i, v)' <=> i # 0 /\ InQueue(i + 1, v)
    BY <1>0, <1>6 DEF InQueue
  <2>4. \A x \in Workers, v \in Users : AtWork(x, v)' <=> (x = w /\ v = u) \/ (x # w /\ AtWork(x, v))
    BY <1>4, <1>5, Zenon DEF AtWork
  <2>5. HttpSame /\ gate'.users = gate.users /\ done' = done
    BY <1>3, Zenon DEF HttpSame, AtHttp
  <2> HIDE DEF u
  <2> QED
    BY <1>2, <2>1, <2>2, <2>3, <2>4, <2>5, PlacePopped, Zenon
<1>10. WorkGood(slot, mem, failed)
  BY <1>2, <1>4, Zenon DEF ClaimInv, WorkGood
<1>11. \A i \in 1..Len(queue') : Backed(mem, queue'[i])
  <2> SUFFICES ASSUME NEW i \in 1..Len(queue') PROVE Backed(mem, queue'[i])
    BY Zenon
  <2>1. i + 1 \in 1..Len(queue) /\ queue'[i] = queue[i + 1]
    BY <1>0, <1>6
  <2> QED
    BY <2>1, Zenon DEF ClaimInv
<1>12. \A x \in Workers : WorkGood(work'[x], mem, failed)
  BY <1>5, <1>10, Zenon DEF ClaimInv
<1>13. ClaimInv'
  BY <1>3, <1>11, <1>12, Zenon DEF ClaimInv, Sold, State
<1> QED
  BY <1>7, <1>8, <1>9, <1>13, Zenon

\* createOrderAfterReservation up to the write of the order.
LEMMA PersistStep ==
  ASSUME PipelineInv, NEW w \in Workers, persistOrder(w)
  PROVE  PipelineInv'
<1> USE DEF PipelineInv
<1> DEFINE m == work[w].msg
           u == work[w].msg.user
           new == [key |-> work[w].msg.key, qty |-> work[w].msg.qty]
<1>1. phase = "up" /\ work[w].at = "persist" /\ m \in Message /\ u \in Users
  BY Zenon DEF persistOrder, WorkAt, TypeInv, Message
<1>2. UNCHANGED <<phase, gate, queue, http, done>>
  BY Zenon DEF persistOrder
<1>3. new \in Order /\ new.qty = m.qty /\ new.key = m.key
  BY <1>1, Zenon DEF Message, Order
<1>4. "confirm" \in WorkSteps \ {"idle"} /\ "publish" \in WorkSteps \ {"idle"}
  BY Zenon DEF WorkSteps
<1>5. ASSUME Retry(w), StoreStep(u) PROVE PipelineInv'
  <2>1. /\ work' \in [Workers -> Slot(WorkSteps)]
        /\ work'[w].at \in {"persist", "release"} /\ work'[w].msg = work[w].msg
        /\ \A x \in Workers \ {w} : work'[x] = work[x]
    BY <1>1, <1>5, RetryTypes, Zenon
  <2> QED
    BY <1>1, <1>2, <1>5, <2>1, WorkMoves, Zenon
<1>6. ASSUME NEW step \in {"publish", "confirm"}, WorkTo(w, step), StoreStep(u), Ordered(mem', m)
      PROVE  PipelineInv'
  <2>1. /\ work' \in [Workers -> Slot(WorkSteps)]
        /\ work'[w].at = step /\ work'[w].msg = work[w].msg
        /\ \A x \in Workers \ {w} : work'[x] = work[x]
    BY <1>1, <1>4, <1>6, WorkStepTypes, Zenon
  <2> QED
    BY <1>1, <1>2, <1>6, <2>1, WorkMoves, Zenon
<1>7. CASE UNCHANGED store /\ Retry(w)
  BY <1>5, <1>7, StoreSame, Zenon
<1>8. CASE /\ UNCHANGED store /\ WorkTo(w, "confirm")
           /\ u \in SameKey(m) /\ mem.orders[u].qty = m.qty
  <2>1. StoreStep(u) /\ Ordered(mem', m)
    BY <1>8, StoreSame, Zenon DEF store, Ordered, SameKey
  <2> QED
    BY <1>6, <1>8, <2>1, Zenon
<1>9. CASE /\ SameKey(m) = {} /\ mem.orders[u] = Absent
           /\ \E ok \in BOOLEAN :
                /\ Persist(ok, PutOrder(mem, u, new), PutOrder(disk, u, new))
                /\ IF ok THEN WorkTo(w, "publish") ELSE Retry(w)
  <2>1. PICK ok \in BOOLEAN :
                /\ Persist(ok, PutOrder(mem, u, new), PutOrder(disk, u, new))
                /\ IF ok THEN WorkTo(w, "publish") ELSE Retry(w)
    BY <1>9, Zenon
  <2>2. \A v \in Users : mem.orders[v] # Absent => mem.orders[v].key # new.key
    BY <1>3, <1>9, Zenon DEF SameKey
  <2> HIDE DEF new
  <2>3. StoreStep(u) /\ (ok => mem'.orders[u] = new)
    <3>1. PICK v \in Users, o \in Order : v = u /\ o = new
      BY <1>1, <1>3, Zenon
    <3>2. Persist(ok, PutOrder(mem, v, o), PutOrder(disk, v, o)) /\ mem.orders[v] = Absent
      BY <1>9, <2>1, <3>1, Zenon
    <3>3. \A x \in Users : mem.orders[x] # Absent => mem.orders[x].key # o.key
      BY <2>2, <3>1, Zenon
    <3>4. StoreStep(v) /\ (ok => mem'.orders[v] = o)
      BY <3>2, <3>3, OrderWrite, Zenon
    <3> QED
      BY <3>1, <3>4, Zenon
  <2>4. CASE ok
    <3>1. Ordered(mem', m) /\ WorkTo(w, "publish")
      BY <1>3, <2>1, <2>3, <2>4, AbsentApart, Zenon DEF Ordered
    <3> QED
      BY <1>6, <2>3, <3>1, Zenon
  <2>5. CASE ~ok
    BY <1>5, <2>1, <2>3, <2>5, Zenon
  <2> QED
    BY <2>4, <2>5, Zenon
<1> QED
  BY <1>7, <1>8, <1>9, Zenon DEF persistOrder

\* The event, or the erasure of the order.
LEMMA PublishStep ==
  ASSUME PipelineInv, NEW w \in Workers, publish(w)
  PROVE  PipelineInv'
<1> USE DEF PipelineInv
<1> DEFINE m == work[w].msg
           u == work[w].msg.user
<1>1. phase = "up" /\ work[w].at = "publish" /\ m \in Message /\ u \in Users
  BY Zenon DEF publish, WorkAt, TypeInv, Message
<1>2. UNCHANGED <<phase, gate, queue, http, done>>
  BY Zenon DEF publish
<1>3. CASE WorkTo(w, "confirm") /\ UNCHANGED store
  <2>1. StoreStep(u) /\ Ordered(mem', m)
    BY <1>1, <1>3, StoreSame, Zenon DEF store, Ordered, ClaimInv, WorkGood
  <2>2. "confirm" \in WorkSteps \ {"idle"}
    BY Zenon DEF WorkSteps
  <2>3. /\ work' \in [Workers -> Slot(WorkSteps)]
        /\ work'[w].at = "confirm" /\ work'[w].msg = work[w].msg
        /\ \A x \in Workers \ {w} : work'[x] = work[x]
    BY <1>1, <1>3, <2>2, WorkStepTypes, Zenon
  <2> QED
    BY <1>1, <1>2, <2>1, <2>3, WorkMoves, Zenon
<1>4. CASE /\ Retry(w) /\ mem' = PutOrder(mem, u, Absent)
           /\ \/ ~failed /\ disk' = PutOrder(disk, u, Absent) /\ failed' = failed
              \/ failed' = TRUE /\ disk' \in IF failed THEN {disk} ELSE {disk, PutOrder(disk, u, Absent)}
  <2>1. StoreStep(u)
    BY <1>1, <1>4, OrderErase, Zenon
  <2>2. /\ work' \in [Workers -> Slot(WorkSteps)]
        /\ work'[w].at \in {"persist", "release"} /\ work'[w].msg = work[w].msg
        /\ \A x \in Workers \ {w} : work'[x] = work[x]
    BY <1>1, <1>4, RetryTypes, Zenon
  <2> QED
    BY <1>1, <1>2, <2>1, <2>2, WorkMoves, Zenon
<1> QED
  BY <1>3, <1>4, Zenon DEF publish

\* The end of a message: its units are sold.
LEMMA ProcessedStep ==
  ASSUME PipelineInv, NEW w \in Workers, NEW u \in Users,
         phase = "up", work[w].at = "confirm", work[w].msg.user = u,
         work' = [work EXCEPT ![w] = NoMessage], done' = done \cup {u},
         StoreStep(u), mem'.orders = mem.orders, State(mem', u) = "Confirmed",
         UNCHANGED <<phase, gate, queue, http>>
  PROVE  PipelineInv'
<1> USE DEF PipelineInv
<1>1. work[w].msg \in Message /\ Backed(mem, work[w].msg) /\ Ordered(mem, work[w].msg)
  BY Zenon DEF TypeInv, ClaimInv, WorkGood
<1>2. /\ work' \in [Workers -> Slot(WorkSteps)] /\ work'[w].at = "idle"
      /\ \A x \in Workers \ {w} : work'[x] = work[x]
  BY Idle, Zenon DEF TypeInv
<1>3. TypeInv'
  BY <1>2, Zenon DEF TypeInv
<1>4. StoreInv' /\ DownInv'
  BY Zenon DEF StoreStep, DownInv
<1>5. OnePlace(u) /\ AtWork(w, u) /\ Held(u) /\ u \in gate.users
  BY Zenon DEF PlaceInv, PlaceOk, AtWork, Held
<1>6. PlaceInv'
  <2>1. \A x \in Workers, v \in Users : AtWork(x, v)' <=> x # w /\ AtWork(x, v)
    BY <1>2, Zenon DEF AtWork
  <2>2. \A v \in Users : v # u => ~AtWork(w, v)
    BY Zenon DEF AtWork
  <2>3. HttpSame /\ QueueSame /\ gate'.users = gate.users
    BY Zenon DEF HttpSame, QueueSame, AtHttp, InQueue
  <2> QED
    BY <1>5, <2>1, <2>2, <2>3, PlaceSettled, Zenon
<1>7. \A x \in Workers : WorkGood(work'[x], mem', failed')
  <2>1. \A x \in Workers \ {w} : WorkGood(work[x], mem', failed')
    BY <1>5, Others, Zenon DEF OnePlace, AtWork
  <2>2. WorkGood(work'[w], mem', failed')
    BY <1>2, Zenon DEF WorkGood
  <2> QED
    BY <1>2, <2>1, <2>2, Zenon
<1>8. \A t \in Http : HttpGood(http[t], mem', failed')
  BY <1>5, Others, Zenon DEF OnePlace, AtHttp
<1>9. Sold(mem', u)
  BY <1>1, Zenon DEF Sold, Backed, Ordered, StoreStep, Lasting
<1>10. \A v \in done' : Sold(mem', v)
  BY <1>9, Others, Zenon DEF TypeInv
<1>11. ClaimInv'
  BY <1>5, <1>7, <1>8, <1>10, Others, Zenon DEF ClaimInv
<1> QED
  BY <1>3, <1>4, <1>6, <1>11, Zenon

\* confirmStock.
LEMMA ConfirmStep ==
  ASSUME PipelineInv, NEW w \in Workers, confirm(w)
  PROVE  PipelineInv'
<1> USE DEF PipelineInv
<1> DEFINE u == work[w].msg.user
           new == [mem.resv[u] EXCEPT !.state = "Confirmed"]
<1>1. phase = "up" /\ work[w].at = "confirm" /\ work[w].msg \in Message /\ u \in Users
  BY Zenon DEF confirm, WorkAt, TypeInv, Message
<1>2. UNCHANGED <<phase, gate, queue, http>>
  BY Zenon DEF confirm
<1>3. ASSUME Retry(w), StoreStep(u), UNCHANGED done PROVE PipelineInv'
  <2>1. /\ work' \in [Workers -> Slot(WorkSteps)]
        /\ work'[w].at \in {"persist", "release"} /\ work'[w].msg = work[w].msg
        /\ \A x \in Workers \ {w} : work'[x] = work[x]
    BY <1>1, <1>3, RetryTypes, Zenon
  <2> QED
    BY <1>1, <1>2, <1>3, <2>1, WorkMoves, Zenon
<1>4. CASE /\ State(mem, u) = "Confirmed" /\ UNCHANGED store
           /\ work' = [work EXCEPT ![w] = NoMessage] /\ done' = done \cup {u}
  <2>1. StoreStep(u) /\ mem'.orders = mem.orders /\ State(mem', u) = "Confirmed"
    BY <1>4, StoreSame, Zenon DEF store
  <2> QED
    BY <1>1, <1>2, <1>4, <2>1, ProcessedStep, Zenon
<1>5. CASE Retry(w) /\ UNCHANGED <<store, done>>
  BY <1>3, <1>5, StoreSame, Zenon DEF store
<1>6. CASE /\ State(mem, u) = "Reserved"
           /\ \E ok \in BOOLEAN :
                /\ Persist(ok, Reserve(mem, u, new), Reserve(disk, u, new))
                /\ IF ok THEN work' = [work EXCEPT ![w] = NoMessage] /\ done' = done \cup {u}
                         ELSE Retry(w) /\ UNCHANGED done
  <2>1. PICK ok \in BOOLEAN :
                /\ Persist(ok, Reserve(mem, u, new), Reserve(disk, u, new))
                /\ IF ok THEN work' = [work EXCEPT ![w] = NoMessage] /\ done' = done \cup {u}
                         ELSE Retry(w) /\ UNCHANGED done
    BY <1>6, Zenon
  <2>2. mem.resv[u] \in Reservation /\ mem.resv[u].state = "Reserved"
    BY <1>1, <1>6, LedgerFields DEF StoreInv, State
  <2>3. new \in Reservation /\ new.qty = mem.resv[u].qty /\ new.state = "Confirmed"
    BY <2>2, Zenon DEF Reservation
  <2> HIDE DEF new
  <2>4. StoreStep(u) /\ mem'.orders = mem.orders /\ (ok => mem'.resv[u] = new)
    <3>1. StoreInv /\ u \in Users /\ Persist(ok, Reserve(mem, u, new), Reserve(disk, u, new))
      BY <1>1, <2>1, Zenon
    <3>2. new \in Reservation /\ mem.resv[u].state = "Reserved" /\ mem.resv[u].qty = new.qty
      BY <2>2, <2>3, Zenon
    <3> HIDE DEF u, PipelineInv
    <3> QED
      BY <3>1, <3>2, ReserveWrite
  <2>5. CASE ok
    <3>1. State(mem', u) = "Confirmed"
      BY <2>3, <2>4, <2>5, AbsentApart, Zenon DEF State
    <3> QED
      BY <1>1, <1>2, <2>1, <2>4, <2>5, <3>1, ProcessedStep, Zenon
  <2>6. CASE ~ok
    BY <1>3, <2>1, <2>4, <2>6, Zenon
  <2> QED
    BY <2>5, <2>6, Zenon
<1> QED
  BY <1>4, <1>5, <1>6, Zenon DEF confirm

\* The compensation of processOnce gives the stock back ...
LEMMA DeadLetterStep ==
  ASSUME PipelineInv, NEW w \in Workers, deadLetter(w)
  PROVE  PipelineInv'
<1> USE DEF PipelineInv
<1> DEFINE u == work[w].msg.user
<1>1. phase = "up" /\ work[w].at = "release" /\ u \in Users
  BY Zenon DEF deadLetter, WorkAt, TypeInv, Message
<1>2. releaseStock(u) /\ WorkTo(w, "rollback") /\ UNCHANGED <<phase, gate, queue, http, done>>
  BY Zenon DEF deadLetter
<1>3. StoreStep(u) /\ (~failed' => State(mem', u) # "Reserved")
  BY <1>1, <1>2, ReleaseStep, Zenon
<1>4. "rollback" \in WorkSteps \ {"idle"} /\ (~failed' => Covered(mem', u))
  BY <1>3, Zenon DEF WorkSteps, Covered
<1>5. /\ work' \in [Workers -> Slot(WorkSteps)]
      /\ work'[w].at = "rollback" /\ work'[w].msg = work[w].msg
      /\ \A x \in Workers \ {w} : work'[x] = work[x]
  BY <1>1, <1>2, <1>4, WorkStepTypes, Zenon
<1> QED
  BY <1>1, <1>2, <1>3, <1>4, <1>5, WorkMoves, Zenon

\* ... and then the place.
LEMMA CompensateStep ==
  ASSUME PipelineInv, NEW w \in Workers, compensate(w)
  PROVE  PipelineInv'
<1> USE DEF PipelineInv
<1> DEFINE u == work[w].msg.user
<1>1. phase = "up" /\ work[w].at = "rollback" /\ u \in Users
  BY Zenon DEF compensate, WorkAt, TypeInv, Message
<1>2. /\ gate' = rollback(u) /\ work' = [work EXCEPT ![w] = NoMessage]
      /\ UNCHANGED <<phase, mem, disk, failed, queue, http, done>>
  BY Zenon DEF compensate, store
<1>3. AtWork(w, u) /\ u \in gate.users
  BY <1>1, Zenon DEF AtWork, PlaceInv, PlaceOk, Held
<1>4. /\ work' \in [Workers -> Slot(WorkSteps)] /\ work'[w].at = "idle"
      /\ \A x \in Workers \ {w} : work'[x] = work[x]
  BY <1>2, Idle, Zenon DEF TypeInv
<1>5. /\ gate'.users = gate.users \ {u}
      /\ gate' \in GateType
  BY <1>1, <1>2, <1>3, GateReturns, Zenon
<1>6. TypeInv'
  BY <1>2, <1>4, <1>5, Zenon DEF TypeInv
<1>7. StoreInv' /\ DownInv'
  BY <1>1, <1>2, Zenon DEF StoreInv, OneOrderPerKey, State, DownInv
<1>8. PlaceInv'
  <2>1. \A v \in Users : v # u => ~AtWork(w, v)
    BY Zenon DEF AtWork
  <2>2. \A x \in Workers, v \in Users : AtWork(x, v)' <=> x # w /\ AtWork(x, v)
    BY <1>4, Zenon DEF AtWork
  <2>3. HttpSame /\ QueueSame
    BY <1>2, Zenon DEF HttpSame, QueueSame, InQueue, AtHttp
  <2> HIDE DEF u
  <2> QED
    BY <1>1, <1>2, <1>3, <1>5, <2>1, <2>2, <2>3, PlaceSettled, Zenon
<1>9. ~failed => Covered(mem, u)
  BY <1>1, Zenon DEF ClaimInv, WorkGood
<1>10. ClaimInv'
  BY <1>1, <1>2, <1>4, <1>5, <1>9, Zenon DEF ClaimInv, WorkGood, Sold, State
<1> QED
  BY <1>5, <1>6, <1>7, <1>8, <1>10, Zenon

-----------------------------------------------------------------------------
(* The process, and the specification.                                     *)

\* The end of the promotion.
LEMMA FinishStep == ASSUME PipelineInv, finish PROVE PipelineInv'
<1> USE DEF PipelineInv
<1>1. gate' = [gate EXCEPT !.state = "FINISHED"] /\ UNCHANGED <<phase, mem, disk, failed, queue, http, work, done>>
  BY Zenon DEF finish, store
<1>2. /\ gate'.users = gate.users /\ gate'.admitted = gate.admitted
      /\ gate' \in GateType
  BY <1>1, Zenon DEF TypeInv, GateType
<1>3. TypeInv' /\ DownInv'
  BY <1>1, <1>2, Zenon DEF TypeInv, DownInv
<1>4. StoreInv' /\ ClaimInv'
  BY <1>1, <1>2, Zenon DEF StoreInv, OneOrderPerKey, State, ClaimInv, Sold
<1>5. HttpSame /\ QueueSame /\ WorkSame
  BY <1>1, Zenon DEF HttpSame, QueueSame, WorkSame, AtHttp, InQueue, AtWork
<1>6. PlaceInv'
  BY <1>1, <1>2, <1>5, PlacesStay, Zenon
<1> QED
  BY <1>3, <1>4, <1>6, Zenon

\* The process is down: it has no requests.
QuietState ==
  /\ phase = "down" /\ gate = Started /\ queue = <<>> /\ done = {} /\ ~failed /\ StoreInv
  /\ http = [t \in Http |-> NoMessage] /\ work = [w \in Workers |-> NoMessage]

\* Such a state satisfies the invariant.
LEMMA Quiet == QuietState => PipelineInv
<1> SUFFICES ASSUME QuietState PROVE PipelineInv
  BY Zenon
<1> USE DEF QuietState
<1>1. /\ \A t \in Http : http[t] = NoMessage /\ http[t].at = "idle"
      /\ \A w \in Workers : work[w] = NoMessage /\ work[w].at = "idle"
  BY Idle, Zenon
<1>2. gate \in GateType
  BY Zenon DEF Started, GateType
<1>3. queue \in Seq(Message) /\ Len(queue) = 0
  OBVIOUS
<1>4. TypeInv
  BY <1>1, <1>2, <1>3, Idle, Zenon DEF TypeInv
<1>5. gate.users = {} /\ gate.admitted = 0
  BY Zenon DEF Started
<1>7. PlaceInv
  BY <1>1, <1>5, PlacesEmpty, Zenon
<1>8. ClaimInv /\ DownInv
  BY <1>1, <1>3 DEF ClaimInv, DownInv, HttpGood, WorkGood
<1> QED
  BY <1>4, <1>7, <1>8, Zenon DEF PipelineInv

\* The process ends.
LEMMA CrashStep == ASSUME PipelineInv, crash PROVE PipelineInv'
<1>1. StoreInv'
  BY CrashStore, Zenon DEF PipelineInv
<1>2. QuietState'
  BY <1>1, Zenon DEF crash, QuietState, Started, NoMessage
<1> QED
  BY <1>2, Quiet, PTL

\* The process starts again.
LEMMA RestartStep == ASSUME PipelineInv, restart PROVE PipelineInv'
<1> USE DEF PipelineInv
<1>1. /\ phase = "down" /\ phase' = "up"
      /\ UNCHANGED <<gate, failed, queue, http, work, done>>
  BY Zenon DEF restart
<1>2. /\ ~failed /\ queue = <<>> /\ done = {}
      /\ \A t \in Http : http[t].at = "idle"
      /\ \A w \in Workers : work[w].at = "idle"
  BY <1>1, Zenon DEF DownInv
<1>3. StoreInv' /\ \A u \in Users : Covered(mem, u)'
  BY <1>2, RestartStore, Zenon DEF Covered
<1>4. TypeInv' /\ DownInv'
  BY <1>1, Zenon DEF TypeInv, DownInv
<1>5. HttpSame /\ QueueSame /\ WorkSame
  BY <1>1, Zenon DEF HttpSame, QueueSame, WorkSame, AtHttp, InQueue, AtWork
<1>6. PlaceInv'
  BY <1>1, <1>5, PlacesStay, Zenon
<1>7. Len(queue) = 0
  BY <1>2, Zenon
<1>8. /\ \A t \in Http : HttpGood(http[t], mem, failed)'
      /\ \A w \in Workers : WorkGood(work[w], mem, failed)'
  BY <1>1, <1>2, Zenon DEF HttpGood, WorkGood
<1>9. ClaimInv'
  <2>1. \A i \in 1..Len(queue') : Backed(mem', queue'[i])
    BY <1>1, <1>7
  <2>2. \A u \in done' : Sold(mem', u)
    BY <1>1, <1>2, Zenon
  <2> QED
    BY <1>3, <1>8, <2>1, <2>2, Zenon DEF ClaimInv
<1> QED
  BY <1>3, <1>4, <1>6, <1>9, Zenon

\* The invariant is inductive.
LEMMA PipelineInduction == Spec => []PipelineInv
<1>1. ASSUME Init PROVE PipelineInv
  <2>1. [u \in Users |-> Absent] \in [Users -> Reservation \cup {Absent}]
        /\ [u \in Users |-> Absent] \in [Users -> Order \cup {Absent}]
    BY Zenon
  <2>2. /\ mem \in Ledger /\ disk = mem
        /\ \A u \in Users : mem.orders[u] = Absent /\ mem.resv[u] = Absent
    BY <1>1, <2>1, Zenon DEF Init, Ledger
  <2>3. StoreInv
    BY <2>2, Zenon DEF StoreInv, OneOrderPerKey, State
  <2> QED
    BY <1>1, <2>3, Quiet, Zenon DEF Init, QuietState
<1>2. ASSUME PipelineInv, [Next]_vars PROVE PipelineInv'
  <2>1. ASSUME NEW t \in Http, Serve(t) PROVE PipelineInv'
    BY <1>2, <2>1, ReserveStep, PushStep, ReleaseRequest, RejectStep, Zenon DEF Serve
  <2>2. ASSUME NEW w \in Workers, Consume(w) PROVE PipelineInv'
    BY <1>2, <2>2, PopStep, PersistStep, PublishStep, ConfirmStep, DeadLetterStep, CompensateStep, Zenon DEF Consume
  <2>3. CASE UNCHANGED vars
    <3>1. UNCHANGED <<phase, gate, mem, disk, failed, queue, http, work, done>>
      BY <2>3, Zenon DEF vars
    <3>2. HttpSame /\ QueueSame /\ WorkSame
      BY <3>1, Zenon DEF HttpSame, QueueSame, WorkSame, AtHttp, InQueue, AtWork
    <3>3. PlaceInv'
      BY <1>2, <3>1, <3>2, PlacesStay, Zenon DEF PipelineInv
    <3>4. StoreInv' /\ ClaimInv'
      BY <1>2, <3>1, Zenon DEF PipelineInv, StoreInv, OneOrderPerKey, State, ClaimInv, Sold
    <3> QED
      BY <1>2, <3>1, <3>3, <3>4, Zenon DEF PipelineInv, TypeInv, DownInv
  <2> QED
    BY <1>2, <2>1, <2>2, <2>3, SubmitStep, FinishStep, CrashStep, RestartStep, Zenon DEF Next
<1> QED
  BY <1>1, <1>2, PTL DEF Spec

\* What the four invariants are, in terms of the inductive one.
LEMMA CarriersFound ==
  ASSUME TypeInv, NEW u \in Users
  PROVE  /\ Held(u) <=> Carriers(u) # {}
         /\ \A c \in Carriers(u) :
              \/ \E t \in Http : c = <<"http", t>> /\ AtHttp(t, u)
              \/ \E i \in Nat : c = <<"queue", i>> /\ InQueue(i, u)
              \/ \E w \in Workers : c = <<"work", w>> /\ AtWork(w, u)
<1>1. DOMAIN queue = 1..Len(queue) /\ Len(queue) \in Nat
  BY DEF TypeInv
<1>2. \A c \in Carriers(u) :
              \/ \E t \in Http : c = <<"http", t>> /\ AtHttp(t, u)
              \/ \E i \in Nat : c = <<"queue", i>> /\ InQueue(i, u)
              \/ \E w \in Workers : c = <<"work", w>> /\ AtWork(w, u)
  BY <1>1 DEF Carriers, AtHttp, InQueue, AtWork
<1>3. ASSUME NEW t \in Http, AtHttp(t, u) PROVE <<"http", t>> \in Carriers(u)
  BY <1>3, Zenon DEF Carriers, AtHttp
<1>4. ASSUME NEW i \in Nat, InQueue(i, u) PROVE <<"queue", i>> \in Carriers(u)
  BY <1>1, <1>4, Zenon DEF Carriers, InQueue
<1>5. ASSUME NEW w \in Workers, AtWork(w, u) PROVE <<"work", w>> \in Carriers(u)
  BY <1>5, Zenon DEF Carriers, AtWork
<1> QED
  BY <1>2, <1>3, <1>4, <1>5, Zenon DEF Held

\* StockOwned: while the engine works, reserved stock belongs to a request that will
\* confirm or release it, or to an order (submit, processOnce and the restart).
THEOREM StockAlwaysOwned == Spec => []StockOwned
<1>1. PipelineInv => StockOwned
  <2> SUFFICES ASSUME PipelineInv, phase = "up", ~failed, NEW u \in Users, State(mem, u) = "Reserved",
                      mem.orders[u] = Absent
               PROVE  Carriers(u) # {}
    BY Zenon DEF StockOwned
  <2>1. u \in gate.users
    BY Zenon DEF PipelineInv, ClaimInv, Covered
  <2>2. u \notin done
    BY Zenon DEF PipelineInv, ClaimInv, Sold
  <2>3. Held(u)
    BY <2>1, <2>2, Zenon DEF PipelineInv, PlaceInv, PlaceOk
  <2> QED
    BY <2>3, CarriersFound, Zenon DEF PipelineInv
<1> QED
  BY <1>1, PipelineInduction, PTL

\* ProcessedIsSold: a processed message left a durable order and its durable sale,
\* of one quantity, whatever write failed before or after (process in
\* flash_sale_order_consumer.cc).
THEOREM ProcessedAlwaysSold == Spec => []ProcessedIsSold
<1>1. PipelineInv => ProcessedIsSold
  <2> SUFFICES ASSUME PipelineInv, NEW u \in done PROVE Sold(disk, u)
    BY Zenon DEF ProcessedIsSold
  <2>1. u \in Users /\ Sold(mem, u)
    BY Zenon DEF PipelineInv, TypeInv, ClaimInv
  <2>2. disk.orders[u] = mem.orders[u] /\ disk.resv[u] = mem.resv[u]
    BY <2>1, Zenon DEF PipelineInv, StoreInv, Sold
  <2> QED
    BY <2>1, <2>2, Zenon DEF Sold, State
<1> QED
  BY <1>1, PipelineInduction, PTL

\* OneOrderPerKey: no failed write, failed deletion or restart leaves two orders
\* of one idempotency key on the disk (createOrderAfterReservation).
THEOREM KeysAlwaysUnique == Spec => []OneOrderPerKey
<1>1. PipelineInv => OneOrderPerKey
  BY Zenon DEF PipelineInv, StoreInv
<1> QED
  BY <1>1, PipelineInduction, PTL
-----------------------------------------------------------------------------
(* The gate counts its users.                                              *)

INSTANCE FiniteSetTheorems

GateInv == gate.admitted = Cardinality(gate.users) /\ gate.admitted <= Quota

\* The users in the gate can be counted.
LEMMA FewUsers ==
  ASSUME TypeInv
  PROVE  /\ IsFiniteSet(gate.users) /\ Cardinality(gate.users) \in Nat
         /\ gate.admitted \in Nat /\ Quota \in Nat
<1>1. gate.users \subseteq Users /\ gate.admitted \in Nat
  BY Zenon DEF TypeInv, GateType
<1>2. IsFiniteSet(gate.users)
  BY <1>1, PipelineAssumption, FS_Subset, Zenon
<1> QED
  BY <1>1, <1>2, PipelineAssumption, FS_CardinalityType, Zenon

\* tryAcquire keeps the count, and within the quota.
LEMMA CountTakes ==
  ASSUME TypeInv, GateInv, NEW u \in Users, Accepts(u),
         gate' = [gate EXCEPT !.users = @ \cup {u}, !.admitted = @ + 1]
  PROVE  GateInv'
<1>1. gate'.users = gate.users \cup {u} /\ gate'.admitted = gate.admitted + 1
  BY GateTakes, Zenon
<1>2. Cardinality(gate.users \cup {u}) = Cardinality(gate.users) + 1
  BY FewUsers, FS_AddElement, Zenon DEF Accepts
<1> QED
  BY <1>1, <1>2, FewUsers DEF GateInv, Accepts

\* rollback of a user who is in the gate keeps the count.
LEMMA CountReturns ==
  ASSUME TypeInv, GateInv, NEW u \in Users, u \in gate.users, gate' = rollback(u)
  PROVE  GateInv'
<1>1. Cardinality(gate.users \ {u}) = Cardinality(gate.users) - 1
  BY FewUsers, FS_RemoveElement, Zenon
<1>2. Cardinality(gate.users) # 0
  BY FewUsers, FS_EmptySet, Zenon
<1>3. /\ gate'.users = gate.users \ {u}
      /\ gate'.admitted = IF u \in gate.users /\ gate.admitted > 0 THEN gate.admitted - 1 ELSE gate.admitted
  BY GateReturns, Zenon
<1> QED
  BY <1>1, <1>2, <1>3, FewUsers DEF GateInv

\* The count is kept by every step: only a user who has a place gives one back.
LEMMA GateCounts ==
  ASSUME PipelineInv, GateInv, [Next]_vars
  PROVE  GateInv'
<1> USE DEF PipelineInv
<1>1. CASE UNCHANGED gate
  BY <1>1, Zenon DEF GateInv
<1>2. ASSUME NEW t \in Http, NEW m \in Message, submit(t, m) PROVE GateInv'
  BY <1>2, CountTakes, Zenon DEF submit, Message
<1>3. ASSUME NEW u \in Users, Held(u), gate' = rollback(u) PROVE GateInv'
  BY <1>3, CountReturns, Zenon DEF PlaceInv, PlaceOk
<1>4. ASSUME NEW t \in Http, reject(t) PROVE GateInv'
  <2>1. http[t].msg.user \in Users /\ Held(http[t].msg.user)
    BY <1>4, Zenon DEF reject, HttpAt, TypeInv, Message, Held, AtHttp
  <2> QED
    BY <1>3, <1>4, <2>1, Zenon DEF reject
<1>5. ASSUME NEW w \in Workers, compensate(w) PROVE GateInv'
  <2>1. work[w].msg.user \in Users /\ Held(work[w].msg.user)
    BY <1>5, Zenon DEF compensate, WorkAt, TypeInv, Message, Held, AtWork
  <2> QED
    BY <1>3, <1>5, <2>1, Zenon DEF compensate
<1>6. CASE finish
  BY <1>6, Zenon DEF finish, TypeInv, GateType, GateInv
<1>7. CASE crash
  BY <1>7, FS_EmptySet, PipelineAssumption DEF crash, Started, GateInv
<1>8. ASSUME NEW t \in Http, Serve(t) PROVE GateInv'
  BY <1>1, <1>4, <1>8, Zenon DEF Serve, reserve, push, release
<1>9. ASSUME NEW w \in Workers, Consume(w) PROVE GateInv'
  BY <1>1, <1>5, <1>9, Zenon DEF Consume, pop, persistOrder, publish, confirm, deadLetter
<1> QED
  BY <1>1, <1>2, <1>6, <1>7, <1>8, <1>9, Zenon DEF Next, vars, restart

\* A user has one carrier at most.
LEMMA OneCarrier ==
  ASSUME PipelineInv, NEW u \in Users, Carriers(u) # {}
  PROVE  Cardinality(Carriers(u)) = 1
<1>1. TypeInv /\ OnePlace(u)
  BY Zenon DEF PipelineInv, PlaceInv, PlaceOk
<1>2. \A c, d \in Carriers(u) : c = d
  BY <1>1, CarriersFound, Zenon DEF OnePlace
<1>3. PICK c \in Carriers(u) : Carriers(u) = {c}
  BY <1>2, Zenon
<1> QED
  BY <1>3, FS_Singleton, Zenon

\* The places in terms of the carriers.
LEMMA PlacesFollow == PipelineInv /\ GateInv => PlacesCarried
<1> SUFFICES ASSUME PipelineInv, NEW u \in Users
             PROVE  Cardinality(Carriers(u)) + (IF u \in done THEN 1 ELSE 0) = IF u \in gate.users THEN 1 ELSE 0
  BY Zenon DEF PlacesCarried, GateInv
<1>1. /\ Carriers(u) # {} => u \notin done
      /\ u \in gate.users <=> (Carriers(u) # {} \/ u \in done)
  BY CarriersFound, Zenon DEF PipelineInv, PlaceInv, PlaceOk
<1>2. Carriers(u) # {} => Cardinality(Carriers(u)) = 1
  BY OneCarrier, Zenon
<1>3. Carriers(u) = {} => Cardinality(Carriers(u)) = 0
  BY FS_EmptySet, Zenon
<1> QED
  BY <1>1, <1>2, <1>3

\* PlacesCarried, for any number of users, threads, workers and attempts: the gate
\* of flash_sale_gate.cc counts its users, within the quota, and each of them is
\* one request on its way or one processed order.
THEOREM PlacesAlwaysCarried == Spec => []PlacesCarried
<1>1. Init => GateInv
  <2>1. Init => gate.users = {} /\ gate.admitted = 0
    BY DEF Init, Started
  <2> QED
    BY <2>1, FS_EmptySet, PipelineAssumption DEF GateInv
<1>2. PipelineInv /\ GateInv /\ [Next]_vars => GateInv'
  BY GateCounts, Zenon
<1> QED
  BY <1>1, <1>2, PipelineInduction, PlacesFollow, PTL DEF Spec
=============================================================================
