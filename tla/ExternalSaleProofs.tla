------------------------- MODULE ExternalSaleProofs -------------------------
(***************************************************************************)
(* The flash sale over Redis and MySQL, for any number of users, workers,  *)
(* keys, units, attempts and failures: MySQL never sells a unit twice, the *)
(* counters in Redis are those of its operations until a repair is made,   *)
(* and what Redis calls sold has its row in MySQL.                         *)
(*                                                                         *)
(* TypeInv gives every message a user and a key.  The scripts are looked   *)
(* at once each, as functions of the record they change (Sound); a step of *)
(* the sale applies one of them or none.                                   *)
(***************************************************************************)
EXTENDS ExternalSale, Counting, TLAPS

Message == [user : Users, key : Keys]

OpStates == {"none", "reserved", "confirmed", "released"}

GateStates == {"created", "preheating", "running", "finished"}

RedisType ==
  [state : GateStates, users : SUBSET Users, admitted : Int,
   available : Int, reserved : Int, sold : Int, total : Int,
   ops : [Users -> OpStates], queue : Seq(Message), dlq : Seq(Message)]

DbType ==
  [available : Int, reserved : Int, key : [Users -> Keys \cup {NoKey}],
   event : [Users -> {"none", "new", "published"}]]

-----------------------------------------------------------------------------
(* The scripts.                                                            *)

With(r, state) == {u \in Users : r.ops[u] = state}

CountersOk(r, n) ==
  /\ r.reserved = Cardinality(With(r, "reserved"))
  /\ r.sold = Cardinality(With(r, "confirmed"))
  /\ r.available = n - r.reserved - r.sold /\ r.available >= 0

GateOk(r) == r.admitted = Cardinality(r.users) /\ r.admitted <= Quota

\* What every script and command but the repair keeps.
Sound(r, e) ==
  /\ e \in RedisType /\ e.total = r.total
  /\ \A n \in Nat : CountersOk(r, n) => CountersOk(e, n)
  /\ GateOk(r) => GateOk(e)

\* Nothing becomes sold.
SellsNothing(r, e) == With(e, "confirmed") \subseteq With(r, "confirmed")

\* There are finitely many users ...
LEMMA UsersFinite ==
  ASSUME Counting, NEW S \in SUBSET Users
  PROVE  IsFiniteSet(S) /\ Cardinality(S) \in Nat
<1>1. IsFiniteSet(S)
  BY RedisAssumption, Zenon DEF Counting, PartCounts
<1> QED
  BY <1>1, Zenon DEF Counting, NatCounts

\* ... and so operations in a state.
LEMMA WithFinite ==
  ASSUME Counting, NEW r, NEW state
  PROVE  IsFiniteSet(With(r, state)) /\ Cardinality(With(r, state)) \in Nat
  BY UsersFinite, Zenon DEF With

\* The operation of u goes from state o to state s.
Moves(r, e, u, o, s) ==
  /\ r.ops \in [Users -> OpStates] /\ u \in Users /\ o # s
  /\ r.ops[u] = o /\ e.ops = [r.ops EXCEPT ![u] = s]

\* It is counted in the state it goes to, and in no other.
LEMMA Moved ==
  ASSUME Counting, NEW r, NEW e, NEW u, NEW o, NEW s, Moves(r, e, u, o, s)
  PROVE  /\ Cardinality(With(e, s)) = Cardinality(With(r, s)) + 1
         /\ Cardinality(With(e, o)) = Cardinality(With(r, o)) - 1
         /\ \A x : (x # s /\ x # o) => With(e, x) = With(r, x)
<1>1. With(e, s) = With(r, s) \cup {u} /\ u \notin With(r, s)
  BY Zenon DEF With, Moves
<1>2. With(e, o) = With(r, o) \ {u} /\ u \in With(r, o)
  BY Zenon DEF With, Moves
<1>3. ASSUME NEW x, x # s, x # o PROVE With(e, x) = With(r, x)
  BY <1>3, Zenon DEF With, Moves
<1>4. Cardinality(With(e, s)) = Cardinality(With(r, s)) + 1
  BY <1>1, WithFinite, Zenon DEF Counting, MoreCounts
<1>5. Cardinality(With(e, o)) = Cardinality(With(r, o)) - 1
  BY <1>2, WithFinite, Zenon DEF Counting, LessCounts
<1> QED
  BY <1>3, <1>4, <1>5, Zenon

\* The counters follow the operations, whatever moves.
LEMMA Counted ==
  ASSUME Counting, NEW r \in RedisType, NEW e \in RedisType,
         e.reserved - r.reserved = Cardinality(With(e, "reserved")) - Cardinality(With(r, "reserved")),
         e.sold - r.sold = Cardinality(With(e, "confirmed")) - Cardinality(With(r, "confirmed")),
         e.available + e.reserved + e.sold = r.available + r.reserved + r.sold,
         e.available >= r.available \/ e.available >= 0
  PROVE  \A n \in Nat : CountersOk(r, n) => CountersOk(e, n)
<1> DEFINE x == Cardinality(With(e, "reserved"))
           y == Cardinality(With(e, "confirmed"))
           p == Cardinality(With(r, "reserved"))
           q == Cardinality(With(r, "confirmed"))
<1>1. x \in Nat /\ y \in Nat /\ p \in Nat /\ q \in Nat
  BY UsersFinite, Zenon DEF With
<1>2. /\ r.reserved \in Int /\ r.sold \in Int /\ r.available \in Int
      /\ e.reserved \in Int /\ e.sold \in Int /\ e.available \in Int
  BY Zenon DEF RedisType
<1>3. e.reserved - r.reserved = x - p /\ e.sold - r.sold = y - q
  BY Zenon
<1> HIDE DEF x, y, p, q
<1>4. ASSUME NEW n \in Nat, r.reserved = p, r.sold = q, r.available = n - r.reserved - r.sold, r.available >= 0
      PROVE  e.reserved = x /\ e.sold = y /\ e.available = n - e.reserved - e.sold /\ e.available >= 0
  BY <1>1, <1>2, <1>3, <1>4
<1> QED
  BY <1>4, Zenon DEF CountersOk, x, y, p, q

SameStock(r, e) ==
  /\ e.total = r.total /\ e.available = r.available
  /\ e.reserved = r.reserved /\ e.sold = r.sold /\ e.ops = r.ops

\* A script that leaves the stock and the operations alone.
LEMMA StockKept ==
  ASSUME NEW r \in RedisType, NEW e \in RedisType, SameStock(r, e), GateOk(r) => GateOk(e)
  PROVE  Sound(r, e) /\ SellsNothing(r, e)
<1>1. \A state : With(e, state) = With(r, state)
  BY Zenon DEF With, SameStock
<1> QED
  BY <1>1, Zenon DEF Sound, SellsNothing, SameStock, CountersOk

\* kReserveScript.
LEMMA ReservedSound ==
  ASSUME Counting, NEW r \in RedisType, NEW u \in Users
  PROVE  Sound(r, Reserved(r, u)) /\ SellsNothing(r, Reserved(r, u))
<1>1. CASE ReserveCode(r, u) # 1
  BY <1>1, Zenon DEF Reserved, Sound, SellsNothing
<1>2. CASE ReserveCode(r, u) = 1
  <2> DEFINE e == [r EXCEPT !.available = @ - 1, !.reserved = @ + 1, !.ops[u] = "reserved"]
  <2>1. r.ops[u] = "none" /\ r.available >= 1
    BY <1>2 DEF ReserveCode, RedisType, OpStates
  <2>2. /\ e.total = r.total /\ e.users = r.users /\ e.admitted = r.admitted
        /\ e.available = r.available - 1 /\ e.reserved = r.reserved + 1 /\ e.sold = r.sold
        /\ e.ops = [r.ops EXCEPT ![u] = "reserved"]
    BY Zenon DEF RedisType
  <2>3. e \in RedisType
    <3>1. [r.ops EXCEPT ![u] = "reserved"] \in [Users -> OpStates]
      BY Zenon DEF RedisType, OpStates
    <3>2. r.available - 1 \in Int /\ r.reserved + 1 \in Int
      BY DEF RedisType
    <3> QED
      BY <3>1, <3>2, Zenon DEF RedisType
  <2>4. Reserved(r, u) = e
    BY <1>2, Zenon DEF Reserved
  <2> HIDE DEF e
  <2>5. /\ Cardinality(With(e, "reserved")) = Cardinality(With(r, "reserved")) + 1
        /\ With(e, "confirmed") = With(r, "confirmed")
    <3>1. Moves(r, e, u, "none", "reserved")
      BY <2>1, <2>2, Zenon DEF Moves, RedisType
    <3> QED
      BY <3>1, Moved
  <2>6. Sound(r, e)
    <3>1. \A n \in Nat : CountersOk(r, n) => CountersOk(e, n)
      <4>1. /\ e.reserved - r.reserved = Cardinality(With(e, "reserved")) - Cardinality(With(r, "reserved"))
            /\ e.sold - r.sold = Cardinality(With(e, "confirmed")) - Cardinality(With(r, "confirmed"))
        BY <2>2, <2>5, WithFinite DEF RedisType
      <4>2. /\ e.available + e.reserved + e.sold = r.available + r.reserved + r.sold
            /\ e.available >= r.available \/ e.available >= 0
        BY <2>1, <2>2 DEF RedisType
      <4> QED
        BY <2>3, <4>1, <4>2, Counted, Zenon
    <3> QED
      BY <2>2, <2>3, <3>1, Zenon DEF Sound, GateOk
  <2> QED
    BY <2>4, <2>5, <2>6, Zenon DEF SellsNothing
<1> QED
  BY <1>1, <1>2, Zenon

\* kConfirmScript.
LEMMA ConfirmedSound ==
  ASSUME Counting, NEW r \in RedisType, NEW u \in Users
  PROVE  /\ Sound(r, Confirmed(r, u))
         /\ With(Confirmed(r, u), "confirmed") \subseteq With(r, "confirmed") \cup {u}
<1>1. CASE r.ops[u] # "reserved"
  BY <1>1, Zenon DEF Confirmed, Sound
<1>2. CASE r.ops[u] = "reserved"
  <2> DEFINE e == [r EXCEPT !.reserved = @ - 1, !.sold = @ + 1, !.ops[u] = "confirmed"]
  <2>2. /\ e.total = r.total /\ e.users = r.users /\ e.admitted = r.admitted
        /\ e.available = r.available /\ e.reserved = r.reserved - 1 /\ e.sold = r.sold + 1
        /\ e.ops = [r.ops EXCEPT ![u] = "confirmed"]
    BY Zenon DEF RedisType
  <2>3. e \in RedisType
    <3>1. [r.ops EXCEPT ![u] = "confirmed"] \in [Users -> OpStates]
      BY Zenon DEF RedisType, OpStates
    <3>2. r.reserved - 1 \in Int /\ r.sold + 1 \in Int
      BY DEF RedisType
    <3> QED
      BY <3>1, <3>2, Zenon DEF RedisType
  <2>4. Confirmed(r, u) = e
    BY <1>2, Zenon DEF Confirmed
  <2> HIDE DEF e
  <2>5. /\ Cardinality(With(e, "reserved")) = Cardinality(With(r, "reserved")) - 1
        /\ Cardinality(With(e, "confirmed")) = Cardinality(With(r, "confirmed")) + 1
    <3>1. Moves(r, e, u, "reserved", "confirmed")
      BY <1>2, <2>2, Zenon DEF Moves, RedisType
    <3> QED
      BY <3>1, Moved
  <2>6. With(e, "confirmed") \subseteq With(r, "confirmed") \cup {u}
    BY <2>2, <2>3, Zenon DEF With, RedisType
  <2>7. Sound(r, e)
    <3>1. \A n \in Nat : CountersOk(r, n) => CountersOk(e, n)
      <4>1. /\ e.reserved - r.reserved = Cardinality(With(e, "reserved")) - Cardinality(With(r, "reserved"))
            /\ e.sold - r.sold = Cardinality(With(e, "confirmed")) - Cardinality(With(r, "confirmed"))
        <5>1. /\ r.reserved \in Int /\ r.sold \in Int
              /\ Cardinality(With(r, "reserved")) \in Nat /\ Cardinality(With(r, "confirmed")) \in Nat
          BY WithFinite, Zenon DEF RedisType
        <5> QED
          BY <2>2, <2>5, <5>1
      <4>2. /\ e.available + e.reserved + e.sold = r.available + r.reserved + r.sold
            /\ e.available >= r.available \/ e.available >= 0
        <5>1. r.available \in Int /\ r.reserved \in Int /\ r.sold \in Int
          BY Zenon DEF RedisType
        <5> QED
          BY <2>2, <5>1
      <4> QED
        BY <2>3, <4>1, <4>2, Counted, Zenon
    <3> QED
      BY <2>2, <2>3, <3>1, Zenon DEF Sound, GateOk
  <2> QED
    BY <2>4, <2>6, <2>7, Zenon
<1> QED
  BY <1>1, <1>2, Zenon

\* kReleaseScript.
LEMMA ReleasedSound ==
  ASSUME Counting, NEW r \in RedisType, NEW u \in Users
  PROVE  Sound(r, Released(r, u)) /\ SellsNothing(r, Released(r, u))
<1>1. CASE r.ops[u] # "reserved"
  BY <1>1, Zenon DEF Released, Sound, SellsNothing
<1>2. CASE r.ops[u] = "reserved"
  <2> DEFINE e == [r EXCEPT !.reserved = @ - 1, !.available = @ + 1, !.ops[u] = "released"]
  <2>2. /\ e.total = r.total /\ e.users = r.users /\ e.admitted = r.admitted
        /\ e.available = r.available + 1 /\ e.reserved = r.reserved - 1 /\ e.sold = r.sold
        /\ e.ops = [r.ops EXCEPT ![u] = "released"]
    BY Zenon DEF RedisType
  <2>3. e \in RedisType
    <3>1. [r.ops EXCEPT ![u] = "released"] \in [Users -> OpStates]
      BY Zenon DEF RedisType, OpStates
    <3>2. r.reserved - 1 \in Int /\ r.available + 1 \in Int
      BY DEF RedisType
    <3> QED
      BY <3>1, <3>2, Zenon DEF RedisType
  <2>4. Released(r, u) = e
    BY <1>2, Zenon DEF Released
  <2> HIDE DEF e
  <2>5. /\ Cardinality(With(e, "reserved")) = Cardinality(With(r, "reserved")) - 1
        /\ With(e, "confirmed") = With(r, "confirmed")
    <3>1. Moves(r, e, u, "reserved", "released")
      BY <1>2, <2>2, Zenon DEF Moves, RedisType
    <3> QED
      BY <3>1, Moved
  <2>6. Sound(r, e)
    <3>1. \A n \in Nat : CountersOk(r, n) => CountersOk(e, n)
      <4>1. /\ e.reserved - r.reserved = Cardinality(With(e, "reserved")) - Cardinality(With(r, "reserved"))
            /\ e.sold - r.sold = Cardinality(With(e, "confirmed")) - Cardinality(With(r, "confirmed"))
        BY <2>2, <2>5, WithFinite DEF RedisType
      <4>2. /\ e.available + e.reserved + e.sold = r.available + r.reserved + r.sold
            /\ e.available >= r.available \/ e.available >= 0
        BY <2>2 DEF RedisType
      <4> QED
        BY <2>3, <4>1, <4>2, Counted, Zenon
    <3> QED
      BY <2>2, <2>3, <3>1, Zenon DEF Sound, GateOk
  <2> QED
    BY <2>4, <2>5, <2>6, Zenon DEF SellsNothing
<1> QED
  BY <1>1, <1>2, Zenon

\* kAcquireScript and kRollbackScript of the gate.
LEMMA AcquiredSound ==
  ASSUME Counting, NEW r \in RedisType, NEW u \in Users
  PROVE  Sound(r, Acquired(r, u)) /\ SellsNothing(r, Acquired(r, u))
<1>1. CASE AcquireCode(r, u) # 1
  BY <1>1, Zenon DEF Acquired, Sound, SellsNothing
<1>2. CASE AcquireCode(r, u) = 1
  <2> DEFINE e == [r EXCEPT !.users = @ \cup {u}, !.admitted = @ + 1]
  <2>1. u \notin r.users /\ r.admitted < Quota
    BY <1>2, RedisAssumption DEF AcquireCode, RedisType
  <2>2. SameStock(r, e) /\ e.users = r.users \cup {u} /\ e.admitted = r.admitted + 1
    BY Zenon DEF RedisType, SameStock
  <2>3. e \in RedisType
    <3>1. r.users \cup {u} \in SUBSET Users /\ r.admitted + 1 \in Int
      BY DEF RedisType
    <3> QED
      BY <3>1, Zenon DEF RedisType
  <2>4. Acquired(r, u) = e
    BY <1>2, Zenon DEF Acquired
  <2> HIDE DEF e
  <2>5. GateOk(r) => GateOk(e)
    <3>1. IsFiniteSet(r.users) /\ Cardinality(r.users) \in Nat /\ r.admitted \in Int
      BY UsersFinite, Zenon DEF RedisType
    <3>2. Cardinality(e.users) = Cardinality(r.users) + 1
      BY <2>1, <2>2, <3>1, Zenon DEF Counting, MoreCounts
    <3> QED
      BY <2>1, <2>2, <3>1, <3>2, RedisAssumption DEF GateOk
  <2> QED
    BY <2>2, <2>3, <2>4, <2>5, StockKept, Zenon
<1> QED
  BY <1>1, <1>2, Zenon

\* The script of FlashSaleGate rollback.
LEMMA RolledBackSound ==
  ASSUME Counting, NEW r \in RedisType, NEW u \in Users
  PROVE  Sound(r, RolledBack(r, u)) /\ SellsNothing(r, RolledBack(r, u))
<1>1. CASE u \notin r.users
  BY <1>1, Zenon DEF RolledBack, Sound, SellsNothing
<1>2. CASE u \in r.users
  <2> DEFINE e == [r EXCEPT !.users = @ \ {u}, !.admitted = @ - 1]
  <2>2. SameStock(r, e) /\ e.users = r.users \ {u} /\ e.admitted = r.admitted - 1
    BY Zenon DEF RedisType, SameStock
  <2>3. e \in RedisType
    <3>1. r.users \ {u} \in SUBSET Users /\ r.admitted - 1 \in Int
      BY DEF RedisType
    <3> QED
      BY <3>1, Zenon DEF RedisType
  <2>4. RolledBack(r, u) = e
    BY <1>2, Zenon DEF RolledBack
  <2> HIDE DEF e
  <2>5. GateOk(r) => GateOk(e)
    <3>1. IsFiniteSet(r.users) /\ Cardinality(r.users) \in Nat /\ r.admitted \in Int
      BY UsersFinite, Zenon DEF RedisType
    <3>2. Cardinality(e.users) = Cardinality(r.users) - 1
      BY <1>2, <2>2, <3>1, Zenon DEF Counting, LessCounts
    <3> QED
      BY <2>2, <3>1, <3>2, RedisAssumption DEF GateOk
  <2> QED
    BY <2>2, <2>3, <2>4, <2>5, StockKept, Zenon
<1> QED
  BY <1>1, <1>2, Zenon

\* The lists, and the state of the promotion.
LEMMA ListsSound ==
  ASSUME NEW r \in RedisType, NEW m \in Message
  PROVE  /\ Sound(r, Pushed(r, m)) /\ SellsNothing(r, Pushed(r, m))
         /\ Sound(r, DeadLettered(r, m)) /\ SellsNothing(r, DeadLettered(r, m))
<1>1. Append(r.queue, m) \in Seq(Message) /\ Append(r.dlq, m) \in Seq(Message)
  BY DEF RedisType
<1>2. Pushed(r, m) \in RedisType /\ DeadLettered(r, m) \in RedisType
  BY <1>1, Zenon DEF RedisType, Pushed, DeadLettered
<1>3. SameStock(r, Pushed(r, m)) /\ (GateOk(r) => GateOk(Pushed(r, m)))
  BY Zenon DEF SameStock, GateOk, RedisType, Pushed
<1>4. SameStock(r, DeadLettered(r, m)) /\ (GateOk(r) => GateOk(DeadLettered(r, m)))
  BY Zenon DEF SameStock, GateOk, RedisType, DeadLettered
<1> QED
  BY <1>2, <1>3, <1>4, StockKept, Zenon

\* BRPOP.
LEMMA PoppedSound ==
  ASSUME NEW r \in RedisType, r.queue # <<>>
  PROVE  Sound(r, Popped(r)) /\ SellsNothing(r, Popped(r)) /\ Head(r.queue) \in Message
<1>1. Tail(r.queue) \in Seq(Message) /\ Head(r.queue) \in Message
  BY DEF RedisType
<1>2. Popped(r) \in RedisType
  BY <1>1, Zenon DEF RedisType, Popped
<1>3. SameStock(r, Popped(r)) /\ (GateOk(r) => GateOk(Popped(r)))
  BY Zenon DEF SameStock, GateOk, RedisType, Popped
<1> QED
  BY <1>1, <1>2, <1>3, StockKept, Zenon

\* The transitions of the gate.
LEMMA GateToSound ==
  ASSUME NEW r \in RedisType, NEW expected, NEW next \in GateStates
  PROVE  Sound(r, GateTo(r, expected, next)) /\ SellsNothing(r, GateTo(r, expected, next))
<1> DEFINE e == [r EXCEPT !.state = next]
<1>1. GateTo(r, expected, next) \in {r, e}
  BY Zenon DEF GateTo
<1>2. e \in RedisType
  BY Zenon DEF RedisType
<1>3. SameStock(r, e) /\ (GateOk(r) => GateOk(e))
  BY Zenon DEF SameStock, GateOk, RedisType
<1>4. Sound(r, r) /\ SellsNothing(r, r)
  BY Zenon DEF Sound, SellsNothing
<1> HIDE DEF e
<1> QED
  BY <1>1, <1>2, <1>3, <1>4, StockKept, Zenon

-----------------------------------------------------------------------------
(* Types: every message names a user and a key.                            *)

RequestType ==
  [pc : {"idle", "reserve", "push", "release", "rollback"}, key : Keys \cup {NoKey}]

WorkerType ==
  [pc : {"pop", "persist", "confirm", "dead", "release", "rollback"},
   msg : [user : Users \cup {NoUser}, key : Keys \cup {NoKey}], attempt : Int]

RequestOk(q) == q \in RequestType /\ (q.pc # "idle" => q.key \in Keys)
WorkerOk(x) == x \in WorkerType /\ (x.pc # "pop" => x.msg \in Message)

RequestsOk == DOMAIN request = Users /\ request = [u \in Users |-> request[u]] /\ \A u \in Users : RequestOk(request[u])
WorkersOk == DOMAIN worker = Workers /\ worker = [w \in Workers |-> worker[w]] /\ \A w \in Workers : WorkerOk(worker[w])

TypeInv ==
  /\ units \in Nat /\ redis \in RedisType /\ db \in DbType
  /\ RequestsOk /\ WorkersOk

\* A request or a worker that is given a sound state.
LEMMA RequestsKept ==
  ASSUME RequestsOk, NEW u \in Users, NEW q, RequestOk(q), request' = [request EXCEPT ![u] = q]
  PROVE  RequestsOk'
  BY Zenon DEF RequestsOk

\* One worker changes, to a good state.
LEMMA WorkersKept ==
  ASSUME WorkersOk, NEW w \in Workers, NEW x, WorkerOk(x), worker' = [worker EXCEPT ![w] = x]
  PROVE  WorkersOk'
  BY Zenon DEF WorkersOk

\* A request goes to another step ...
LEMMA RequestGoes ==
  ASSUME RequestsOk, NEW u \in Users, request[u].pc # "idle",
         NEW pc \in {"idle", "reserve", "push", "release", "rollback"}, RequestTo(u, pc)
  PROVE  RequestsOk'
<1>1. RequestOk(IdleRequest)
  BY Zenon DEF RequestOk, IdleRequest, RequestType
<1>2. RequestOk([request[u] EXCEPT !.pc = pc])
  BY Zenon DEF RequestsOk, RequestOk, RequestType
<1>3. CASE pc = "idle"
  BY <1>1, <1>3, RequestsKept, Zenon DEF RequestTo
<1>4. CASE pc # "idle"
  BY <1>2, <1>4, RequestsKept, Zenon DEF RequestTo
<1> QED
  BY <1>3, <1>4, Zenon

\* ... and so does a worker ...
LEMMA WorkerGoes ==
  ASSUME WorkersOk, NEW w \in Workers, worker[w].pc # "pop",
         NEW pc \in {"pop", "persist", "confirm", "dead", "release", "rollback"}, WorkerTo(w, pc)
  PROVE  WorkersOk'
<1>1. WorkerOk(IdleWorker)
  BY DEF WorkerOk, IdleWorker, WorkerType
<1>2. WorkerOk([worker[w] EXCEPT !.pc = pc])
  BY Zenon DEF WorkersOk, WorkerOk, WorkerType
<1>3. CASE pc = "pop"
  BY <1>1, <1>3, WorkersKept, Zenon DEF WorkerTo
<1>4. CASE pc # "pop"
  BY <1>2, <1>4, WorkersKept, Zenon DEF WorkerTo
<1> QED
  BY <1>3, <1>4, Zenon

\* ... or it tries once more.
LEMMA WorkerAgain ==
  ASSUME WorkersOk, NEW w \in Workers, worker[w].pc # "pop", Again(w)
  PROVE  WorkersOk'
<1> DEFINE x == [worker[w] EXCEPT !.pc = "persist", !.attempt = @ + 1]
<1>1. WorkerOk(x)
  <2>1. worker[w] \in WorkerType /\ worker[w].msg \in Message
    BY Zenon DEF WorkersOk, WorkerOk
  <2>2. worker[w].attempt + 1 \in Int
    BY <2>1 DEF WorkerType
  <2>3. x \in WorkerType
    BY <2>1, <2>2, Zenon DEF WorkerType
  <2>4. x.msg = worker[w].msg
    BY <2>1, Zenon DEF WorkerType
  <2> QED
    BY <2>1, <2>3, <2>4, Zenon DEF WorkerOk
<1> DEFINE z == [worker[w] EXCEPT !.pc = "dead"]
<1>2. WorkerOk(z)
  BY Zenon DEF WorkersOk, WorkerOk, WorkerType
<1> DEFINE y == IF worker[w].attempt < MaxTries THEN x ELSE z
<1>3. worker' = [worker EXCEPT ![w] = y]
  BY Zenon DEF Again
<1> HIDE DEF x, z
<1>4. WorkerOk(y)
  BY <1>1, <1>2, Zenon
<1> HIDE DEF y
<1> QED
  BY <1>3, <1>4, WorkersKept, Zenon

-----------------------------------------------------------------------------
(* What the steps do to Redis and to the threads.                          *)

\* A command that sells nothing ran, or none.
Plain == Sound(redis, redis') /\ SellsNothing(redis, redis')

\* A call of a sound script that sells nothing, its reply lost or not.
LEMMA Runs ==
  ASSUME redis \in RedisType, NEW e, Sound(redis, e), SellsNothing(redis, e),
         Called(e) \/ CallLost(e)
  PROVE  Plain
  BY Zenon DEF Plain, Called, CallLost, Sound, SellsNothing

\* No call at all.
LEMMA Idles ==
  ASSUME redis \in RedisType, redis' = redis
  PROVE  Plain
  BY Zenon DEF Plain, Sound, SellsNothing

\* submit over Redis, each of its steps.
LEMMA RequestSteps ==
  ASSUME Counting, TypeInv, NEW u \in Users,
         tryAcquire(u) \/ reserve(u) \/ push(u) \/ releaseStock(u) \/ rollbackPlace(u)
  PROVE  RequestsOk' /\ Plain
<1>0. redis \in RedisType /\ RequestsOk
  BY Zenon DEF TypeInv
<1>1. CASE tryAcquire(u)
  <2>1. Plain
    <3>1. Called(Acquired(redis, u)) \/ CallLost(Acquired(redis, u))
      BY <1>1, Zenon DEF tryAcquire
    <3> QED
      BY <1>0, <3>1, AcquiredSound, Runs, Zenon
  <2>2. CASE UNCHANGED request
    BY <1>0, <2>1, <2>2, Zenon DEF RequestsOk
  <2>3. ASSUME NEW k \in Keys, request' = [request EXCEPT ![u] = [pc |-> "reserve", key |-> k]]
        PROVE  RequestsOk'
    <3>1. RequestOk([pc |-> "reserve", key |-> k])
      BY Zenon DEF RequestOk, RequestType
    <3> QED
      BY <1>0, <2>3, <3>1, RequestsKept, Zenon
  <2> QED
    BY <1>1, <2>1, <2>2, <2>3, Zenon DEF tryAcquire, Submitted
<1>2. CASE reserve(u)
  <2>1. Plain
    BY <1>0, <1>2, ReservedSound, Runs, Zenon DEF reserve
  <2>2. request[u].pc # "idle" /\ \E pc \in {"push", "rollback"} : RequestTo(u, pc)
    BY <1>2, Zenon DEF reserve, RequestAt
  <2> QED
    BY <1>0, <2>1, <2>2, RequestGoes, Zenon
<1>3. CASE push(u)
  <2>1. [user |-> u, key |-> request[u].key] \in Message
    BY <1>0, <1>3, Zenon DEF push, RequestAt, RequestsOk, RequestOk, Message
  <2>2. Plain
    BY <1>0, <1>3, <2>1, ListsSound, Runs, Zenon DEF push
  <2>3. request[u].pc # "idle" /\ \E pc \in {"idle", "release"} : RequestTo(u, pc)
    BY <1>3, Zenon DEF push, RequestAt
  <2> QED
    BY <1>0, <2>2, <2>3, RequestGoes, Zenon
<1>4. CASE releaseStock(u)
  <2>1. Plain
    BY <1>0, <1>4, ReleasedSound, Runs, Zenon DEF releaseStock
  <2>2. request[u].pc # "idle" /\ RequestTo(u, "rollback")
    BY <1>4, Zenon DEF releaseStock, RequestAt
  <2> QED
    BY <1>0, <2>1, <2>2, RequestGoes, Zenon
<1>5. CASE rollbackPlace(u)
  <2>1. Plain
    BY <1>0, <1>5, RolledBackSound, Runs, Zenon DEF rollbackPlace
  <2>2. request[u].pc # "idle" /\ RequestTo(u, "idle")
    BY <1>5, Zenon DEF rollbackPlace, RequestAt
  <2> QED
    BY <1>0, <2>1, <2>2, RequestGoes, Zenon
<1> QED
  BY <1>1, <1>2, <1>3, <1>4, <1>5, Zenon

\* No worker turns to confirming.
NoneConfirms == \A v \in Workers : worker'[v].pc = "confirm" => worker'[v] = worker[v]

\* The worker takes a message.
LEMMA PopStep ==
  ASSUME TypeInv, NEW w \in Workers, pop(w)
  PROVE  /\ WorkersOk' /\ Plain /\ UNCHANGED db
         /\ NoneConfirms
<1>0. redis \in RedisType /\ WorkersOk /\ redis.queue # <<>> /\ UNCHANGED db
  BY Zenon DEF TypeInv, pop
<1>1. Plain
  BY <1>0, PoppedSound, Runs, Zenon DEF pop
<1>2. CASE UNCHANGED worker
  BY <1>0, <1>1, <1>2, Zenon DEF WorkersOk, NoneConfirms
<1>3. CASE worker' = [worker EXCEPT ![w] = [pc |-> "persist", msg |-> Head(redis.queue), attempt |-> 1]]
  <2>1. WorkerOk([pc |-> "persist", msg |-> Head(redis.queue), attempt |-> 1])
    BY <1>0, PoppedSound DEF WorkerOk, WorkerType, Message
  <2>2. WorkersOk'
    BY <1>0, <1>3, <2>1, WorkersKept, Zenon
  <2>3. NoneConfirms
    BY <1>0, <1>3, Zenon DEF WorkersOk, NoneConfirms
  <2> QED
    BY <1>0, <1>1, <2>2, <2>3, Zenon
<1> QED
  BY <1>2, <1>3, Zenon DEF pop

\* A worker that does not go to confirm.
LEMMA Leaves ==
  ASSUME WorkersOk, NEW w \in Workers, worker[w].pc # "pop",
         \/ Again(w)
         \/ \E pc \in {"pop", "persist", "dead", "release", "rollback"} : WorkerTo(w, pc)
  PROVE  WorkersOk' /\ NoneConfirms
<1>1. WorkersOk'
  BY WorkerGoes, WorkerAgain, Zenon
<1>2. \E x : worker' = [worker EXCEPT ![w] = x] /\ x.pc # "confirm"
  <2>1. CASE Again(w)
    <3> DEFINE x == [worker[w] EXCEPT !.pc = "persist", !.attempt = @ + 1]
               z == [worker[w] EXCEPT !.pc = "dead"]
               y == IF worker[w].attempt < MaxTries THEN x ELSE z
    <3>1. worker' = [worker EXCEPT ![w] = y]
      BY <2>1, Zenon DEF Again
    <3>2. x.pc = "persist" /\ z.pc = "dead"
      BY Zenon DEF WorkersOk, WorkerOk, WorkerType
    <3> HIDE DEF x, z
    <3>3. y.pc # "confirm"
      BY <3>2, Zenon
    <3> QED
      BY <3>1, <3>3, Zenon
  <2>2. ASSUME NEW pc \in {"pop", "persist", "dead", "release", "rollback"}, WorkerTo(w, pc)
        PROVE  \E x : worker' = [worker EXCEPT ![w] = x] /\ x.pc # "confirm"
    <3>1. IdleWorker.pc = "pop" /\ [worker[w] EXCEPT !.pc = pc].pc = pc
      BY Zenon DEF IdleWorker, WorkersOk, WorkerOk, WorkerType
    <3>2. CASE pc = "pop"
      BY <2>2, <3>1, <3>2, Zenon DEF WorkerTo
    <3>3. CASE pc # "pop"
      BY <2>2, <3>1, <3>3, Zenon DEF WorkerTo
    <3> QED
      BY <3>2, <3>3, Zenon
  <2> QED
    BY <2>1, <2>2, Zenon
<1> QED
  BY <1>1, <1>2, Zenon DEF NoneConfirms, WorkersOk

\* Dead letter and compensation.
LEMMA GiveUpSteps ==
  ASSUME Counting, TypeInv, NEW w \in Workers, deadLetter(w) \/ compensateStock(w) \/ compensatePlace(w)
  PROVE  WorkersOk' /\ Plain /\ UNCHANGED db /\ NoneConfirms
<1>0. redis \in RedisType /\ WorkersOk
  BY Zenon DEF TypeInv
<1>1. worker[w].pc # "pop" /\ worker[w].msg \in Message /\ worker[w].msg.user \in Users /\ UNCHANGED db
  BY <1>0, Zenon DEF WorkersOk, WorkerOk, Message, deadLetter, compensateStock, compensatePlace, WorkerAt
<1>2. CASE deadLetter(w)
  <2>1. Plain
    BY <1>0, <1>1, <1>2, ListsSound, Runs, Zenon DEF deadLetter
  <2> QED
    BY <1>0, <1>1, <1>2, <2>1, Leaves, Zenon DEF deadLetter
<1>3. CASE compensateStock(w)
  <2>1. Plain
    BY <1>0, <1>1, <1>3, ReleasedSound, Runs, Zenon DEF compensateStock
  <2> QED
    BY <1>0, <1>1, <1>3, <2>1, Leaves, Zenon DEF compensateStock
<1>4. CASE compensatePlace(w)
  <2>1. Plain
    BY <1>0, <1>1, <1>4, RolledBackSound, Runs, Zenon DEF compensatePlace
  <2> QED
    BY <1>0, <1>1, <1>4, <2>1, Leaves, Zenon DEF compensatePlace
<1> QED
  BY <1>2, <1>3, <1>4, Zenon

\* The only step that sells, and what it sells is the order of its worker.
LEMMA ConfirmStep ==
  ASSUME Counting, TypeInv, NEW w \in Workers, confirm(w)
  PROVE  /\ WorkersOk' /\ UNCHANGED db /\ NoneConfirms /\ Sound(redis, redis')
         /\ worker[w].pc = "confirm" /\ worker[w].msg.user \in Users
         /\ With(redis', "confirmed") \subseteq With(redis, "confirmed") \cup {worker[w].msg.user}
<1>0. redis \in RedisType /\ WorkersOk
  BY Zenon DEF TypeInv
<1>1. worker[w].pc = "confirm" /\ worker[w].msg.user \in Users /\ UNCHANGED db
  BY <1>0, Zenon DEF WorkersOk, WorkerOk, Message, confirm, WorkerAt
<1>2. redis' \in {redis, Confirmed(redis, worker[w].msg.user)}
  BY Zenon DEF confirm, Called, CallLost
<1>3. Again(w) \/ WorkerTo(w, "pop")
  BY Zenon DEF confirm
<1>4. WorkersOk' /\ NoneConfirms
  BY <1>0, <1>1, <1>3, Leaves, Zenon
<1>5. Sound(redis, redis)
  BY <1>0, Zenon DEF Sound
<1> QED
  BY <1>0, <1>1, <1>2, <1>4, <1>5, ConfirmedSound

-----------------------------------------------------------------------------
(* What the steps do to MySQL.                                             *)

Fresh(m) == ~KeyKnown(m) /\ ~Refused(m)

\* The row that is marked exists, and its event was handed over.
DrainInv == drain # NoUser => (drain \in Users /\ db.event[drain] # "none" /\ drain \in handedOver)

\* The row, the event and the stock of one transaction.
LEMMA InsertedRow ==
  ASSUME db \in DbType, NEW m \in Message, db' = Inserted(m)
  PROVE  /\ db' \in DbType
         /\ db'.available = db.available - 1 /\ db'.reserved = db.reserved + 1
         /\ db'.key = [db.key EXCEPT ![m.user] = m.key]
         /\ db'.event = [db.event EXCEPT ![m.user] = "new"]
<1>1. /\ db.available - 1 \in Int /\ db.reserved + 1 \in Int
      /\ [db.key EXCEPT ![m.user] = m.key] \in [Users -> Keys \cup {NoKey}]
      /\ [db.event EXCEPT ![m.user] = "new"] \in [Users -> {"none", "new", "published"}]
  BY DEF DbType, Message
<1>2. db' \in DbType
  BY <1>1, Zenon DEF DbType, Inserted
<1>3. /\ db'.available = db.available - 1 /\ db'.reserved = db.reserved + 1
      /\ db'.key = [db.key EXCEPT ![m.user] = m.key]
      /\ db'.event = [db.event EXCEPT ![m.user] = "new"]
  BY Zenon DEF DbType, Inserted
<1> QED
  BY <1>2, <1>3, Zenon

\* The transaction keeps the database right.
LEMMA InsertKeeps ==
  ASSUME Counting, units \in Nat, db \in DbType, DatabaseNeverOversells, DrainInv,
         NEW m \in Message, Fresh(m), db' = Inserted(m), UNCHANGED <<units, drain, handedOver>>
  PROVE  DatabaseNeverOversells' /\ DrainInv' /\ \A u \in Users : Stored(u) => Stored(u)'
<1> DEFINE S == {u \in Users : Stored(u)}
<1>1. /\ db' \in DbType
      /\ db'.available = db.available - 1 /\ db'.reserved = db.reserved + 1
      /\ db'.key = [db.key EXCEPT ![m.user] = m.key]
      /\ db'.event = [db.event EXCEPT ![m.user] = "new"]
  BY InsertedRow, Zenon
<1>2. /\ m.user \in Users /\ m.key \in Keys /\ m.key # NoKey
      /\ db.key \in [Users -> Keys \cup {NoKey}] /\ db.available \in Int /\ db.reserved \in Int
      /\ db.event \in [Users -> {"none", "new", "published"}]
  BY SaleAssumption, Zenon DEF Message, DbType
<1>3. db.key[m.user] = NoKey /\ db.available >= 1 /\ \A u \in Users : db.key[u] # m.key
  BY <1>2 DEF Fresh, KeyKnown, Refused
<1>4. S' = S \cup {m.user} /\ m.user \notin S
  BY <1>1, <1>2, <1>3 DEF Stored
<1>5. IsFiniteSet(S) /\ Cardinality(S) \in Nat
  BY UsersFinite, Zenon
<1>6. Cardinality(S') = Cardinality(S) + 1
  BY <1>4, <1>5, Zenon DEF Counting, MoreCounts
<1>7. db'.reserved = Cardinality(S') /\ db'.available = units' - db'.reserved /\ db'.available >= 0
  <2>1. db.reserved = Cardinality(S) /\ db.available = units - db.reserved
    BY Zenon DEF DatabaseNeverOversells
  <2> HIDE DEF S
  <2> QED
    BY <1>1, <1>2, <1>3, <1>5, <1>6, <2>1
<1>8. \A u, v \in Users : (Stored(u)' /\ db'.key[u] = db'.key[v]) => u = v
  <2>1. \A u, v \in Users : (db.key[u] # NoKey /\ db.key[u] = db.key[v]) => u = v
    BY Zenon DEF DatabaseNeverOversells, Stored
  <2> QED
    BY <1>1, <1>2, <1>3, <2>1 DEF Stored
<1>9. \A u \in Users : /\ (db'.event[u] # "none") <=> Stored(u)'
                      /\ db'.event[u] = "published" => u \in handedOver'
  <2>1. \A u \in Users : /\ (db.event[u] # "none") <=> db.key[u] # NoKey
                        /\ db.event[u] = "published" => u \in handedOver
    BY Zenon DEF DatabaseNeverOversells, Stored
  <2> QED
    BY <1>1, <1>2, <2>1, Zenon DEF Stored
<1>10. DrainInv'
  BY <1>1, <1>2, Zenon DEF DrainInv
<1>11. \A u \in Users : Stored(u) => Stored(u)'
  BY <1>1, <1>2, Zenon DEF Stored
<1> QED
  BY <1>7, <1>8, <1>9, <1>10, <1>11, Zenon DEF DatabaseNeverOversells

\* So does marking an event published.
LEMMA MarkKeeps ==
  ASSUME db \in DbType, DatabaseNeverOversells, DrainInv, drain # NoUser,
         db' = [db EXCEPT !.event[drain] = "published"], drain' = NoUser, UNCHANGED <<units, handedOver>>
  PROVE  /\ db' \in DbType /\ DatabaseNeverOversells' /\ DrainInv'
         /\ \A u \in Users : Stored(u) => Stored(u)'
<1>1. [db.event EXCEPT ![drain] = "published"] \in [Users -> {"none", "new", "published"}]
  BY Zenon DEF DbType, DrainInv
<1>2. db' \in DbType
  BY <1>1, Zenon DEF DbType
<1>3. /\ db'.available = db.available /\ db'.reserved = db.reserved /\ db'.key = db.key
      /\ db'.event = [db.event EXCEPT ![drain] = "published"]
  BY Zenon DEF DbType
<1>4. /\ drain \in Users /\ db.event[drain] # "none" /\ drain \in handedOver
      /\ db.event \in [Users -> {"none", "new", "published"}]
  BY Zenon DEF DrainInv, DbType
<1>5. \A u \in Users : /\ (db'.event[u] # "none") <=> (db.event[u] # "none")
                      /\ db'.event[u] = "published" => (db.event[u] = "published" \/ u \in handedOver)
  BY <1>3, <1>4
<1>6. \A u \in Users : Stored(u)' <=> Stored(u)
  BY <1>3, Zenon DEF Stored
<1>7. {u \in Users : Stored(u)}' = {u \in Users : Stored(u)}
  BY <1>6, Zenon
<1> QED
  BY <1>2, <1>3, <1>5, <1>6, <1>7 DEF DatabaseNeverOversells, DrainInv

\* persistQueuedOrder: one transaction, or nothing.
LEMMA PersistStep ==
  ASSUME TypeInv, NEW w \in Workers, persistQueuedOrder(w)
  PROVE  /\ WorkersOk' /\ UNCHANGED redis
         /\ UNCHANGED db \/ \E m \in Message : Fresh(m) /\ db' = Inserted(m)
         /\ \/ NoneConfirms
            \/ /\ Stored(worker[w].msg.user)'
               /\ \A v \in Workers : worker'[v].msg = worker[v].msg
               /\ \A v \in Workers \ {w} : worker'[v] = worker[v]
<1> DEFINE m == worker[w].msg
<1>0. db \in DbType /\ WorkersOk /\ worker[w].pc # "pop" /\ m \in Message /\ UNCHANGED redis
  BY Zenon DEF TypeInv, WorkersOk, WorkerOk, persistQueuedOrder, WorkerAt
<1>1. m.user \in Users /\ m.key \in Keys /\ m.key # NoKey
  BY <1>0, SaleAssumption, Zenon DEF Message
<1>2. UNCHANGED db \/ (Fresh(m) /\ db' = Inserted(m))
  BY Zenon DEF persistQueuedOrder, Fresh
<1>3. Again(w) \/ (WorkerTo(w, "confirm") /\ ((SameOrder(m) /\ UNCHANGED db) \/ db' = Inserted(m)))
  BY Zenon DEF persistQueuedOrder
<1>4. CASE Again(w)
  BY <1>0, <1>2, <1>4, Leaves, Zenon
<1>5. CASE WorkerTo(w, "confirm") /\ ((SameOrder(m) /\ UNCHANGED db) \/ db' = Inserted(m))
  <2>1. WorkersOk'
    BY <1>0, <1>5, WorkerGoes, Zenon
  <2>2. worker' = [worker EXCEPT ![w] = [worker[w] EXCEPT !.pc = "confirm"]]
    BY <1>5, Zenon DEF WorkerTo
  <2>3. [worker[w] EXCEPT !.pc = "confirm"].msg = m
    BY <1>0, Zenon DEF WorkersOk, WorkerOk, WorkerType
  <2>4. /\ \A v \in Workers : worker'[v].msg = worker[v].msg
        /\ \A v \in Workers \ {w} : worker'[v] = worker[v]
    BY <1>0, <2>2, <2>3, Zenon DEF WorkersOk
  <2>5. CASE SameOrder(m) /\ UNCHANGED db
    <3>1. db'.key[m.user] # NoKey
      BY <1>1, <2>5, Zenon DEF SameOrder
    <3>2. m' = m
      BY <2>4, Zenon
    <3> QED
      BY <1>0, <1>2, <2>1, <2>4, <3>1, <3>2, Zenon DEF Stored
  <2>6. CASE db' = Inserted(m)
    <3>1. db'.key = [db.key EXCEPT ![m.user] = m.key]
      BY <1>0, <2>6, InsertedRow, Zenon
    <3>2. db'.key[m.user] # NoKey
      BY <1>0, <1>1, <3>1, Zenon DEF DbType
    <3>3. m' = m
      BY <2>4, Zenon
    <3> QED
      BY <1>0, <1>2, <2>1, <2>4, <3>2, <3>3, Zenon DEF Stored
  <2> QED
    BY <1>5, <2>5, <2>6, Zenon
<1> QED
  BY <1>3, <1>4, <1>5, Zenon

-----------------------------------------------------------------------------
(* The invariant.                                                          *)

AdminType ==
  [pc : {"idle", "compare", "repair"}, durable : [available : Int, reserved : Int, sold : Int]]

\* What the reconciler read adds up to the stock of the SKU.
AdminInv ==
  /\ admin \in AdminType
  /\ admin.pc # "idle" => admin.durable.available + admin.durable.reserved + admin.durable.sold = units

LedgerInv ==
  /\ redis.total = units /\ GateOk(redis)
  /\ ~repaired => CountersOk(redis, units)

\* A worker that confirms has found or written the row.
SoldInv ==
  /\ SoldIsStored
  /\ \A w \in Workers : worker[w].pc = "confirm" => Stored(worker[w].msg.user)

SaleInv == TypeInv /\ DatabaseNeverOversells /\ DrainInv /\ AdminInv /\ LedgerInv /\ SoldInv

\* Rows are never deleted.
RowsStay == \A u \in Users : Stored(u) => Stored(u)'

\* A sound script keeps the counters of Redis right.
LEMMA LedgerKept ==
  ASSUME TypeInv, LedgerInv, Sound(redis, redis'), UNCHANGED <<units, repaired>>
  PROVE  redis' \in RedisType /\ LedgerInv'
  BY Zenon DEF TypeInv, LedgerInv, Sound

\* A script that sells nothing keeps every sale stored.
LEMMA SoldKept ==
  ASSUME TypeInv, SoldInv, SellsNothing(redis, redis'), RowsStay, NoneConfirms
  PROVE  SoldInv'
<1>1. SoldIsStored'
  BY Zenon DEF SoldInv, SoldIsStored, SellsNothing, With, RowsStay
<1>2. \A w \in Workers : worker'[w].pc = "confirm" => Stored(worker[w].msg.user)'
  <2>1. SUFFICES ASSUME NEW w \in Workers, worker'[w].pc = "confirm"
                 PROVE  Stored(worker[w].msg.user)'
    BY Zenon
  <2>2. worker'[w] = worker[w] /\ worker[w].pc = "confirm"
    BY <2>1, Zenon DEF NoneConfirms
  <2>3. worker[w].msg.user \in Users /\ Stored(worker[w].msg.user)
    BY <2>2, Zenon DEF TypeInv, WorkersOk, WorkerOk, Message, SoldInv
  <2> QED
    BY <2>2, <2>3, Zenon DEF RowsStay, Stored
<1> QED
  BY <1>1, <1>2, Zenon DEF SoldInv

\* A repair changes the counters and keeps the total and the gate.
LEMMA RepairStep ==
  ASSUME TypeInv, LedgerInv, AdminInv, repair
  PROVE  redis' \in RedisType /\ LedgerInv' /\ SellsNothing(redis, redis')
<1> DEFINE s == admin.durable
           e == [redis EXCEPT !.available = s.available, !.reserved = s.reserved, !.sold = s.sold,
                              !.total = s.available + s.reserved + s.sold]
<1>0. redis \in RedisType /\ units \in Nat /\ units' = units
  BY Zenon DEF TypeInv, repair, AdminRest
<1>1. s.available \in Int /\ s.reserved \in Int /\ s.sold \in Int /\ s.available + s.reserved + s.sold = units
  BY Zenon DEF AdminInv, AdminType, repair
<1>2. redis' \in {redis, Repaired(redis, s)}
  BY Zenon DEF repair, Called, CallLost
<1>3. CASE RepairCode(redis, s) # 1
  <2>1. redis' = redis
    BY <1>2, <1>3, Zenon DEF Repaired
  <2>2. ~repaired' => ~repaired
    BY Zenon DEF repair
  <2> QED
    BY <1>0, <2>1, <2>2, Zenon DEF LedgerInv, SellsNothing
<1>4. CASE RepairCode(redis, s) = 1
  <2>1. redis' \in {redis, e} /\ repaired'
    BY <1>2, <1>4, Zenon DEF Repaired, repair
  <2>2. e \in RedisType
    <3>1. s.available + s.reserved + s.sold \in Int
      BY <1>1
    <3> QED
      BY <1>0, <1>1, <3>1, Zenon DEF RedisType
  <2>3. e.total = units /\ e.ops = redis.ops /\ e.users = redis.users /\ e.admitted = redis.admitted
    BY <1>0, <1>1, Zenon DEF RedisType
  <2> HIDE DEF e
  <2> QED
    BY <1>0, <2>1, <2>2, <2>3, Zenon DEF LedgerInv, SellsNothing, With, GateOk
<1> QED
  BY <1>3, <1>4, Zenon

\* Redis after initializeSku.
LEMMA EmptyTyped ==
  ASSUME NEW n \in Nat
  PROVE  EmptyRedis(n) \in RedisType
<1> DEFINE f == [u \in Users |-> "none"]
           S == {}
           q == <<>>
<1>1. f \in [Users -> OpStates] /\ S \in SUBSET Users /\ q \in Seq(Message) /\ "created" \in GateStates
  BY DEF OpStates, GateStates
<1>2. EmptyRedis(n) = [state |-> "created", users |-> S, admitted |-> 0,
                       available |-> n, reserved |-> 0, sold |-> 0, total |-> n,
                       ops |-> f, queue |-> q, dlq |-> q]
  BY Zenon DEF EmptyRedis
<1> HIDE DEF f, S, q
<1> QED
  BY <1>1, <1>2 DEF RedisType

\* The invariant holds at first.
LEMMA SaleInitial ==
  ASSUME Counting, SaleInit
  PROVE  SaleInv
<1>1. units \in Nat /\ redis = EmptyRedis(units)
  BY SaleAssumption, Zenon DEF SaleInit
<1>2. redis \in RedisType
  BY <1>1, EmptyTyped, Zenon
<1>3. db \in DbType
  BY <1>1 DEF SaleInit, DbType
<1>4. RequestsOk /\ WorkersOk
  BY DEF SaleInit, RequestsOk, WorkersOk, RequestOk, WorkerOk, IdleRequest, IdleWorker, RequestType, WorkerType
<1>5. {u \in Users : Stored(u)} = {} /\ With(redis, "reserved") = {} /\ With(redis, "confirmed") = {}
  BY <1>1 DEF SaleInit, Stored, With, EmptyRedis
<1>6. Cardinality({}) = 0
  BY Zenon DEF Counting, EmptyCounts
<1>7. DatabaseNeverOversells /\ DrainInv
  BY <1>1, <1>5, <1>6 DEF SaleInit, DatabaseNeverOversells, DrainInv, Stored
<1>8. AdminInv
  BY DEF SaleInit, AdminInv, AdminType, IdleAdmin
<1>9. LedgerInv
  <2>1. /\ redis.total = units /\ redis.available = units /\ redis.reserved = 0 /\ redis.sold = 0
        /\ redis.admitted = 0 /\ redis.users = {}
    BY <1>1, Zenon DEF EmptyRedis
  <2>2. CountersOk(redis, units)
    BY <1>1, <1>5, <1>6, <2>1 DEF CountersOk
  <2>3. GateOk(redis)
    BY <1>6, <2>1, RedisAssumption DEF GateOk
  <2> QED
    BY <2>1, <2>2, <2>3, Zenon DEF LedgerInv
<1>10. SoldInv
  BY <1>1 DEF SaleInit, SoldInv, SoldIsStored, EmptyRedis, IdleWorker
<1> QED
  BY <1>1, <1>2, <1>3, <1>4, <1>7, <1>8, <1>9, <1>10, Zenon DEF SaleInv, TypeInv

\* The steps of the threads that sell nothing and write no row.
LEMMA QuietStep ==
  ASSUME SaleInv, UNCHANGED <<units, db, repaired>>, RequestsOk', WorkersOk', Plain, NoneConfirms,
         handedOver \subseteq handedOver', DrainInv', AdminInv'
  PROVE  SaleInv'
<1>1. redis' \in RedisType /\ LedgerInv'
  BY LedgerKept, Zenon DEF SaleInv, Plain
<1>2. RowsStay
  BY Zenon DEF RowsStay, Stored
<1>3. SoldInv'
  BY <1>2, SoldKept, Zenon DEF SaleInv, Plain
<1>4. DatabaseNeverOversells'
  BY Zenon DEF SaleInv, DatabaseNeverOversells, Stored
<1>5. units' \in Nat /\ db' \in DbType
  BY Zenon DEF SaleInv, TypeInv
<1> QED
  BY <1>1, <1>3, <1>4, <1>5, Zenon DEF SaleInv, TypeInv

\* The reconciler is not involved.
LEMMA AdminKept ==
  ASSUME AdminInv, UNCHANGED <<units, admin>>
  PROVE  AdminInv'
  BY Zenon DEF AdminInv

\* Requests and workers that do not move.
LEMMA ThreadsKept ==
  ASSUME TypeInv
  PROVE  /\ request' = request => RequestsOk'
         /\ worker' = worker => (WorkersOk' /\ NoneConfirms)
  BY Zenon DEF TypeInv, RequestsOk, WorkersOk, NoneConfirms

\* The steps of a request.
LEMMA SaleStepRequest ==
  ASSUME Counting, SaleInv, NEW u \in Users,
         tryAcquire(u) \/ reserve(u) \/ push(u) \/ releaseStock(u) \/ rollbackPlace(u)
  PROVE  SaleInv'
<1>1. RequestsOk' /\ Plain
  BY RequestSteps, Zenon DEF SaleInv
<1>2. UNCHANGED <<units, db, worker, drain, handedOver, admin, repaired>>
  BY Zenon DEF tryAcquire, reserve, push, releaseStock, rollbackPlace, RequestRest
<1>3. WorkersOk' /\ NoneConfirms
  BY <1>2, ThreadsKept, Zenon DEF SaleInv
<1>4. DrainInv' /\ AdminInv'
  BY <1>2, AdminKept, Zenon DEF SaleInv, DrainInv
<1> QED
  BY <1>1, <1>2, <1>3, <1>4, QuietStep, Zenon

\* The steps of a worker.
LEMMA SaleStepWorker ==
  ASSUME Counting, SaleInv, NEW w \in Workers, workerStep(w)
  PROVE  SaleInv'
<1>1. UNCHANGED <<units, request, drain, handedOver, admin, repaired>>
  BY Zenon DEF workerStep, pop, persistQueuedOrder, confirm, deadLetter, compensateStock, compensatePlace, WorkerRest
<1>2. TypeInv /\ RequestsOk' /\ AdminInv'
  BY <1>1, ThreadsKept, AdminKept, Zenon DEF SaleInv
<1>3. CASE pop(w) \/ deadLetter(w) \/ compensateStock(w) \/ compensatePlace(w)
  <2>1. WorkersOk' /\ Plain /\ UNCHANGED db /\ NoneConfirms
    BY <1>2, <1>3, PopStep, GiveUpSteps, Zenon
  <2>2. DrainInv'
    BY <1>1, <2>1, Zenon DEF SaleInv, DrainInv
  <2> QED
    BY <1>1, <1>2, <2>1, <2>2, QuietStep, Zenon
<1>4. CASE confirm(w)
  <2>1. /\ WorkersOk' /\ UNCHANGED db /\ NoneConfirms /\ Sound(redis, redis')
        /\ worker[w].pc = "confirm" /\ worker[w].msg.user \in Users
        /\ With(redis', "confirmed") \subseteq With(redis, "confirmed") \cup {worker[w].msg.user}
    BY <1>2, <1>4, ConfirmStep, Zenon
  <2>2. redis' \in RedisType /\ LedgerInv'
    BY <1>1, <2>1, LedgerKept, Zenon DEF SaleInv
  <2>3. SoldIsStored'
    BY <2>1 DEF SaleInv, SoldInv, SoldIsStored, With, Stored
  <2>4. \A v \in Workers : worker'[v].pc = "confirm" => Stored(worker[v].msg.user)'
    BY <2>1, Zenon DEF SaleInv, SoldInv, NoneConfirms, Stored
  <2>5. DatabaseNeverOversells' /\ DrainInv'
    BY <1>1, <2>1, Zenon DEF SaleInv, DatabaseNeverOversells, DrainInv, Stored
  <2> QED
    BY <1>1, <1>2, <2>1, <2>2, <2>3, <2>4, <2>5, Zenon DEF SaleInv, TypeInv, SoldInv
<1>5. CASE persistQueuedOrder(w)
  <2>1. /\ WorkersOk' /\ UNCHANGED redis
        /\ UNCHANGED db \/ \E m \in Message : Fresh(m) /\ db' = Inserted(m)
        /\ \/ NoneConfirms
           \/ /\ Stored(worker[w].msg.user)'
              /\ \A v \in Workers : worker'[v].msg = worker[v].msg
              /\ \A v \in Workers \ {w} : worker'[v] = worker[v]
    BY <1>2, <1>5, PersistStep, Zenon
  <2>2. db' \in DbType /\ DatabaseNeverOversells' /\ DrainInv' /\ RowsStay
    <3>1. CASE UNCHANGED db
      BY <1>1, <3>1, Zenon DEF SaleInv, TypeInv, DatabaseNeverOversells, DrainInv, RowsStay, Stored
    <3>2. ASSUME NEW m \in Message, Fresh(m), db' = Inserted(m)
          PROVE  db' \in DbType /\ DatabaseNeverOversells' /\ DrainInv' /\ RowsStay
      BY <1>1, <3>2, InsertKeeps, InsertedRow, Zenon DEF SaleInv, TypeInv, RowsStay
    <3> QED
      BY <2>1, <3>1, <3>2, Zenon
  <2>3. Plain
    BY <1>2, <2>1, Idles, Zenon DEF TypeInv
  <2>4. redis' \in RedisType /\ LedgerInv'
    BY <1>1, <2>3, LedgerKept, Zenon DEF SaleInv, Plain
  <2>5. SoldInv'
    <3>1. CASE NoneConfirms
      BY <2>2, <2>3, <3>1, SoldKept, Zenon DEF SaleInv, Plain
    <3>2. CASE /\ Stored(worker[w].msg.user)'
               /\ \A v \in Workers : worker'[v].msg = worker[v].msg
               /\ \A v \in Workers \ {w} : worker'[v] = worker[v]
      <4>1. SoldIsStored'
        BY <2>1, <2>2, Zenon DEF SaleInv, SoldInv, SoldIsStored, RowsStay
      <4>2. ASSUME NEW v \in Workers \ {w}, worker'[v].pc = "confirm"
            PROVE  Stored(worker[v].msg.user)'
        <5>1. worker'[v] = worker[v]
          BY <3>2, Zenon
        <5>2. worker[v].msg.user \in Users /\ Stored(worker[v].msg.user)
          BY <1>2, <4>2, <5>1, Zenon DEF SaleInv, SoldInv, TypeInv, WorkersOk, WorkerOk, Message
        <5> QED
          BY <2>2, <5>1, <5>2, Zenon DEF RowsStay, Stored
      <4> QED
        BY <3>2, <4>1, <4>2, Zenon DEF SoldInv
    <3> QED
      BY <2>1, <3>1, <3>2, Zenon
  <2> QED
    BY <1>1, <1>2, <2>1, <2>2, <2>4, <2>5, Zenon DEF SaleInv, TypeInv
<1> QED
  BY <1>3, <1>4, <1>5, Zenon DEF workerStep

\* The dispatcher, the reconciler, the start and the end of the process.
LEMMA SaleStepRest ==
  ASSUME SaleInv,
         \/ \E u \in Users : publishEvent(u)
         \/ markPublished \/ readDurable \/ compare \/ repair \/ startUp \/ die
         \/ UNCHANGED saleVars
  PROVE  SaleInv'
<1>0. TypeInv /\ redis \in RedisType
  BY Zenon DEF SaleInv, TypeInv
<1>1. ASSUME NEW u \in Users, publishEvent(u) PROVE SaleInv'
  <2>1. /\ UNCHANGED <<units, redis, request, worker, admin, repaired, db>>
        /\ drain' = u /\ db.event[u] = "new" /\ handedOver' = handedOver \cup {u}
    BY <1>1, Zenon DEF publishEvent, DrainRest
  <2>2. DrainInv' /\ AdminInv' /\ Plain
    BY <1>0, <2>1, AdminKept, Idles, Zenon DEF SaleInv, DrainInv
  <2> QED
    BY <1>0, <2>1, <2>2, ThreadsKept, QuietStep, Zenon
<1>2. CASE markPublished
  <2>1. /\ UNCHANGED <<units, redis, request, worker, admin, repaired, handedOver>>
        /\ drain # NoUser /\ drain' = NoUser
        /\ db' = db \/ db' = [db EXCEPT !.event[drain] = "published"]
    BY <1>2, Zenon DEF markPublished, DrainRest
  <2>2. AdminInv' /\ Plain /\ RequestsOk' /\ WorkersOk' /\ NoneConfirms
    BY <1>0, <2>1, AdminKept, Idles, ThreadsKept, Zenon DEF SaleInv
  <2>3. CASE db' = db
    <3>1. DrainInv'
      BY <2>1, Zenon DEF DrainInv
    <3> QED
      BY <2>1, <2>2, <2>3, <3>1, QuietStep, Zenon
  <2>4. CASE db' = [db EXCEPT !.event[drain] = "published"]
    <3>1. db' \in DbType /\ DatabaseNeverOversells' /\ DrainInv' /\ RowsStay
      BY <2>1, <2>4, MarkKeeps, Zenon DEF SaleInv, TypeInv, RowsStay
    <3>2. redis' \in RedisType /\ LedgerInv'
      BY <2>1, <2>2, LedgerKept, Zenon DEF SaleInv, Plain
    <3>3. SoldInv'
      BY <2>2, <3>1, SoldKept, Zenon DEF SaleInv, Plain
    <3>4. units' \in Nat
      BY <1>0, <2>1, Zenon DEF TypeInv
    <3> QED
      BY <2>2, <3>1, <3>2, <3>3, <3>4, Zenon DEF SaleInv, TypeInv
  <2> QED
    BY <2>1, <2>3, <2>4, Zenon
<1>3. CASE readDurable \/ compare
  <2>1. UNCHANGED <<units, redis, request, worker, drain, handedOver, repaired, db>>
    BY <1>3, Zenon DEF readDurable, compare, AdminRest
  <2>2. DrainInv' /\ Plain
    BY <1>0, <2>1, Idles, Zenon DEF SaleInv, DrainInv
  <2>3. AdminInv'
    <3>1. CASE readDurable
      <4>1. /\ db.available \in Int /\ db.reserved \in Int /\ units \in Nat
            /\ db.available = units - db.reserved
        BY Zenon DEF SaleInv, TypeInv, DbType, DatabaseNeverOversells
      <4>2. admin' = [pc |-> "compare", durable |-> [available |-> db.available, reserved |-> db.reserved, sold |-> 0]]
        BY <3>1, Zenon DEF readDurable, Durable
      <4> QED
        BY <2>1, <4>1, <4>2 DEF AdminInv, AdminType
    <3>2. CASE compare
      <4>1. admin' = IdleAdmin \/ admin' = [admin EXCEPT !.pc = "repair"]
        BY <3>2, Zenon DEF compare
      <4>2. admin \in AdminType /\ admin.durable.available + admin.durable.reserved + admin.durable.sold = units
        BY <3>2, Zenon DEF SaleInv, AdminInv, compare
      <4> QED
        BY <2>1, <4>1, <4>2 DEF AdminInv, AdminType, IdleAdmin
    <3> QED
      BY <1>3, <3>1, <3>2, Zenon
  <2> QED
    BY <1>0, <2>1, <2>2, <2>3, ThreadsKept, QuietStep, Zenon
<1>4. CASE repair
  <2>1. UNCHANGED <<units, request, worker, drain, handedOver, db>> /\ admin' = IdleAdmin
    BY <1>4, Zenon DEF repair, AdminRest
  <2>2. redis' \in RedisType /\ LedgerInv' /\ SellsNothing(redis, redis')
    BY <1>0, <1>4, RepairStep, Zenon DEF SaleInv
  <2>3. RequestsOk' /\ WorkersOk' /\ NoneConfirms
    BY <1>0, <2>1, ThreadsKept, Zenon
  <2>4. RowsStay /\ DatabaseNeverOversells' /\ DrainInv' /\ units' \in Nat /\ db' \in DbType
    BY <1>0, <2>1, Zenon DEF SaleInv, TypeInv, RowsStay, Stored, DatabaseNeverOversells, DrainInv
  <2>5. SoldInv'
    BY <1>0, <2>2, <2>3, <2>4, SoldKept, Zenon DEF SaleInv
  <2>6. AdminInv'
    BY <2>1 DEF AdminInv, AdminType, IdleAdmin
  <2> QED
    BY <2>2, <2>3, <2>4, <2>5, <2>6, Zenon DEF SaleInv, TypeInv
<1>5. CASE startUp
  <2>1. /\ UNCHANGED <<units, db, request, worker, drain, handedOver, admin, repaired>>
        /\ redis' = GateTo(GateTo(redis, "created", "preheating"), "preheating", "running")
    BY <1>5, Zenon DEF startUp
  <2>2. Plain
    <3> DEFINE r == GateTo(redis, "created", "preheating")
    <3>0. "preheating" \in GateStates /\ "running" \in GateStates
      BY Zenon DEF GateStates
    <3>1. Sound(redis, r) /\ SellsNothing(redis, r) /\ r \in RedisType
      BY <1>0, <3>0, GateToSound, Zenon DEF Sound
    <3> HIDE DEF r
    <3>2. Sound(r, redis') /\ SellsNothing(r, redis')
      BY <2>1, <3>0, <3>1, GateToSound, Zenon DEF r
    <3> QED
      BY <3>1, <3>2, Zenon DEF Plain, Sound, SellsNothing
  <2>3. DrainInv' /\ AdminInv'
    BY <2>1, AdminKept, Zenon DEF SaleInv, DrainInv
  <2> QED
    BY <1>0, <2>1, <2>2, <2>3, ThreadsKept, QuietStep, Zenon
<1>6. CASE die
  <2>1. /\ UNCHANGED <<units, redis, db, handedOver, repaired>> /\ drain' = NoUser /\ admin' = IdleAdmin
        /\ request' = [u \in Users |-> IdleRequest] /\ worker' = [w \in Workers |-> IdleWorker]
    BY <1>6, Zenon DEF die
  <2>2. RequestsOk' /\ WorkersOk'
    BY <2>1 DEF RequestsOk, WorkersOk, RequestOk, WorkerOk, IdleRequest, IdleWorker, RequestType, WorkerType
  <2>3. NoneConfirms
    BY <2>1, Zenon DEF NoneConfirms, IdleWorker
  <2>4. DrainInv' /\ AdminInv'
    BY <2>1 DEF DrainInv, AdminInv, AdminType, IdleAdmin
  <2>5. Plain
    BY <1>0, <2>1, Idles, Zenon
  <2> QED
    BY <2>1, <2>2, <2>3, <2>4, <2>5, QuietStep, Zenon
<1>7. CASE UNCHANGED saleVars
  <2>1. UNCHANGED <<units, redis, db, request, worker, drain, handedOver, admin, repaired>>
    BY <1>7, Zenon DEF saleVars
  <2>2. DrainInv' /\ AdminInv' /\ Plain
    BY <1>0, <2>1, AdminKept, Idles, Zenon DEF SaleInv, DrainInv
  <2> QED
    BY <1>0, <2>1, <2>2, ThreadsKept, QuietStep, Zenon
<1> QED
  BY <1>1, <1>2, <1>3, <1>4, <1>5, <1>6, <1>7, Zenon

\* The invariant is inductive.
LEMMA SaleInductive ==
  ASSUME Counting, SaleInv, [SaleNext]_saleVars
  PROVE  SaleInv'
  BY SaleStepRequest, SaleStepWorker, SaleStepRest, Zenon DEF SaleNext

-----------------------------------------------------------------------------
(* The owners of reservations, as long as nothing has failed.              *)

Queued(u) == \E i \in DOMAIN redis.queue : redis.queue[i].user = u

\* A worker that has not yet confirmed or released the stock of its message.
Serves(w, u) == worker[w].pc \in {"persist", "confirm", "dead", "release"} /\ worker[w].msg.user = u

Owned(u) ==
  request[u].pc \in {"push", "release"} \/ Queued(u) \/ \E w \in Workers : Serves(w, u)

OwnedInv ==
  /\ troubles \in Nat
  /\ troubles = 0 => \A u \in Users : redis.ops[u] = "reserved" => Owned(u)

\* A step that fails proves nothing, and one that does not keeps every owner or
\* gives the reservation another.
LEMMA OwnersKept ==
  ASSUME OwnedInv, Trouble \/ NoTrouble,
         NoTrouble => \A v \in Users : redis'.ops[v] = "reserved" =>
                        \/ redis.ops[v] = "reserved" /\ (Owned(v) => Owned(v)')
                        \/ Owned(v)'
  PROVE  OwnedInv'
<1>1. CASE Trouble
  <2>1. troubles' \in Nat /\ troubles' # 0
    BY <1>1 DEF OwnedInv, Trouble
  <2> QED
    BY <2>1, Zenon DEF OwnedInv
<1>2. CASE NoTrouble
  BY <1>2, Zenon DEF OwnedInv, NoTrouble
<1> QED
  BY <1>1, <1>2, Zenon

\* What the scripts and commands do to the operations and to the queue.
SameOps(e) == e.ops = redis.ops
SameQueue(e) == e.queue = redis.queue

\* The gate, the dead letters and the repair leave both alone.
LEMMA BesideTheStock ==
  ASSUME TypeInv, NEW u, NEW m, NEW s
  PROVE  /\ SameOps(Acquired(redis, u)) /\ SameQueue(Acquired(redis, u))
         /\ SameOps(RolledBack(redis, u)) /\ SameQueue(RolledBack(redis, u))
         /\ SameOps(DeadLettered(redis, m)) /\ SameQueue(DeadLettered(redis, m))
         /\ SameOps(Repaired(redis, s)) /\ SameQueue(Repaired(redis, s))
<1>0. redis \in RedisType
  BY Zenon DEF TypeInv
<1>1. SameOps(Acquired(redis, u)) /\ SameQueue(Acquired(redis, u))
  BY <1>0, Zenon DEF Acquired, SameOps, SameQueue, RedisType
<1>2. SameOps(RolledBack(redis, u)) /\ SameQueue(RolledBack(redis, u))
  BY <1>0, Zenon DEF RolledBack, SameOps, SameQueue, RedisType
<1>3. SameOps(DeadLettered(redis, m)) /\ SameQueue(DeadLettered(redis, m))
  BY <1>0, Zenon DEF DeadLettered, SameOps, SameQueue, RedisType
<1>4. SameOps(Repaired(redis, s)) /\ SameQueue(Repaired(redis, s))
  BY <1>0, Zenon DEF Repaired, SameOps, SameQueue, RedisType
<1> QED
  BY <1>1, <1>2, <1>3, <1>4, Zenon

\* The transition of the gate leaves both alone.
LEMMA GateBesideTheStock ==
  ASSUME NEW r \in RedisType, NEW o, NEW n
  PROVE  GateTo(r, o, n).ops = r.ops /\ GateTo(r, o, n).queue = r.queue
<1>1. GateTo(r, o, n) \in {r, [r EXCEPT !.state = n]}
  BY Zenon DEF GateTo
<1>2. [r EXCEPT !.state = n].ops = r.ops /\ [r EXCEPT !.state = n].queue = r.queue
  BY Zenon DEF RedisType
<1> QED
  BY <1>1, <1>2, Zenon

\* A unit is reserved only by a successful reserve, and never after a release.
LEMMA StockScripts ==
  ASSUME TypeInv, NEW u \in Users
  PROVE  /\ SameQueue(Reserved(redis, u)) /\ SameQueue(Released(redis, u)) /\ SameQueue(Confirmed(redis, u))
         /\ ReserveCode(redis, u) # 1 => SameOps(Reserved(redis, u))
         /\ \A v \in Users \ {u} : /\ Reserved(redis, u).ops[v] = redis.ops[v]
                                   /\ Released(redis, u).ops[v] = redis.ops[v]
                                   /\ Confirmed(redis, u).ops[v] = redis.ops[v]
         /\ Released(redis, u).ops[u] # "reserved"
         /\ Confirmed(redis, u).ops[u] # "reserved"
<1>0. redis \in RedisType /\ redis.ops \in [Users -> OpStates]
  BY Zenon DEF TypeInv, RedisType
<1>1. /\ SameQueue(Reserved(redis, u))
      /\ ReserveCode(redis, u) # 1 => SameOps(Reserved(redis, u))
      /\ \A v \in Users \ {u} : Reserved(redis, u).ops[v] = redis.ops[v]
  BY <1>0, Zenon DEF Reserved, SameQueue, SameOps, RedisType
<1>2. /\ SameQueue(Released(redis, u)) /\ Released(redis, u).ops[u] # "reserved"
      /\ \A v \in Users \ {u} : Released(redis, u).ops[v] = redis.ops[v]
  BY <1>0, Zenon DEF Released, SameQueue, RedisType
<1>3. /\ SameQueue(Confirmed(redis, u)) /\ Confirmed(redis, u).ops[u] # "reserved"
      /\ \A v \in Users \ {u} : Confirmed(redis, u).ops[v] = redis.ops[v]
  BY <1>0, Zenon DEF Confirmed, SameQueue, RedisType
<1> QED
  BY <1>1, <1>2, <1>3, Zenon

\* The steps of a request.
LEMMA RequestOwners ==
  ASSUME TypeInv, OwnedInv, NEW u \in Users,
         tryAcquire(u) \/ reserve(u) \/ push(u) \/ releaseStock(u) \/ rollbackPlace(u)
  PROVE  OwnedInv'
<1>0. worker' = worker /\ (Trouble \/ NoTrouble)
  BY Zenon DEF tryAcquire, reserve, push, releaseStock, rollbackPlace, RequestRest, Called, CallLost
<1>1. \A v \in Users \ {u} : request'[v] = request[v]
  BY Zenon DEF TypeInv, RequestsOk, tryAcquire, reserve, push, releaseStock, rollbackPlace, RequestTo
<1>2. ASSUME NoTrouble, SameOps(redis'), SameQueue(redis'), request[u].pc \notin {"push", "release"}
      PROVE  OwnedInv'
  <2>1. \A v \in Users : Owned(v) => Owned(v)'
    BY <1>0, <1>1, <1>2, Zenon DEF Owned, Queued, Serves, SameQueue
  <2> QED
    BY <1>0, <1>2, <2>1, OwnersKept, Zenon DEF SameOps
<1>3. CASE Trouble
  BY <1>3, OwnersKept DEF Trouble, NoTrouble, OwnedInv
<1>4. CASE NoTrouble /\ (tryAcquire(u) \/ rollbackPlace(u))
  <2>1. redis' \in {Acquired(redis, u), RolledBack(redis, u)} /\ request[u].pc \in {"idle", "rollback"}
    BY <1>4 DEF tryAcquire, rollbackPlace, Called, CallLost, RequestAt, NoTrouble, Trouble, OwnedInv
  <2> QED
    BY <1>2, <1>4, <2>1, BesideTheStock, Zenon
<1>5. CASE NoTrouble /\ reserve(u)
  <2>1. redis' = Reserved(redis, u) /\ request[u].pc = "reserve"
    BY <1>5 DEF reserve, Called, CallLost, RequestAt, NoTrouble, Trouble, OwnedInv
  <2>2. CASE ReserveCode(redis, u) # 1
    BY <1>2, <1>5, <2>1, <2>2, StockScripts, Zenon
  <2>3. CASE ReserveCode(redis, u) = 1
    <3>1. request'[u].pc = "push"
      BY <1>5, <2>3 DEF reserve, CallLost, NoTrouble, Trouble, OwnedInv, RequestTo, TypeInv, RequestsOk, RequestOk, RequestType
    <3>2. Owned(u)'
      BY <3>1, Zenon DEF Owned
    <3>3. \A v \in Users \ {u} : redis'.ops[v] = redis.ops[v] /\ (Owned(v) => Owned(v)')
      BY <1>0, <1>1, <2>1, StockScripts DEF Owned, Queued, Serves, SameQueue
    <3> QED
      BY <1>0, <3>2, <3>3, OwnersKept, Zenon
  <2> QED
    BY <2>2, <2>3, Zenon
<1>6. CASE NoTrouble /\ push(u)
  <2> DEFINE m == [user |-> u, key |-> request[u].key]
  <2>1. redis' = Pushed(redis, m) /\ redis \in RedisType
    BY <1>6 DEF push, Called, CallLost, NoTrouble, Trouble, OwnedInv, TypeInv
  <2>2. redis'.ops = redis.ops /\ redis'.queue = Append(redis.queue, m) /\ redis.queue \in Seq(Message)
    BY <2>1, Zenon DEF Pushed, RedisType
  <2>3. redis'.queue[Len(redis.queue) + 1] = m /\ Len(redis.queue) + 1 \in DOMAIN redis'.queue
    BY <2>2
  <2>4. Queued(u)'
    BY <2>3 DEF Queued
  <2>5. \A v \in Users : Queued(v) => Queued(v)'
    BY <2>2 DEF Queued
  <2>6. \A v \in Users : Owned(v) => Owned(v)'
    BY <1>0, <1>1, <2>4, <2>5, Zenon DEF Owned, Serves
  <2> QED
    BY <1>0, <2>2, <2>6, OwnersKept, Zenon
<1>7. CASE NoTrouble /\ releaseStock(u)
  <2>1. redis' = Released(redis, u)
    BY <1>7 DEF releaseStock, Called, CallLost, NoTrouble, Trouble, OwnedInv
  <2>2. redis'.ops[u] # "reserved"
    BY <2>1, StockScripts, Zenon
  <2>3. \A v \in Users \ {u} : redis'.ops[v] = redis.ops[v] /\ (Owned(v) => Owned(v)')
    BY <1>0, <1>1, <2>1, StockScripts DEF Owned, Queued, Serves, SameQueue
  <2> QED
    BY <1>0, <2>2, <2>3, OwnersKept, Zenon
<1> QED
  BY <1>0, <1>3, <1>4, <1>5, <1>6, <1>7, Zenon

\* The steps of a worker.
LEMMA WorkerOwners ==
  ASSUME TypeInv, OwnedInv, NEW w \in Workers, workerStep(w)
  PROVE  OwnedInv'
<1>u. PICK u : u = worker[w].msg.user
  BY Zenon
<1>0. request' = request /\ (Trouble \/ NoTrouble)
  BY Zenon DEF workerStep, pop, persistQueuedOrder, confirm, deadLetter, compensateStock, compensatePlace,
         WorkerRest, Called, CallLost
<1>1. \A v \in Workers \ {w} : worker'[v] = worker[v]
  BY Zenon DEF TypeInv, WorkersOk, workerStep, pop, persistQueuedOrder, confirm, deadLetter, compensateStock,
         compensatePlace, WorkerTo, Again
<1>2. worker[w] \in WorkerType /\ DOMAIN worker = Workers /\ (worker[w].pc # "pop" => u \in Users)
  BY <1>u, Zenon DEF TypeInv, WorkersOk, WorkerOk, Message
<1>3. CASE Trouble
  BY <1>3, OwnersKept DEF Trouble, NoTrouble, OwnedInv
<1>4. ASSUME NoTrouble, SameQueue(redis'), \A v \in Users \ {u} : redis'.ops[v] = redis.ops[v],
             u \in Users => \/ redis'.ops[u] # "reserved"
                            \/ redis'.ops[u] = redis.ops[u] /\ (Serves(w, u) => Serves(w, u)')
      PROVE  OwnedInv'
  <2>1. \A v \in Users : Queued(v) => Queued(v)'
    BY <1>4, Zenon DEF Queued, SameQueue
  <2>2. ASSUME NEW v \in Users \ {u} PROVE Owned(v) => Owned(v)'
    BY <1>u, <1>0, <1>1, <2>1, Zenon DEF Owned, Serves
  <2>3. (Serves(w, u) => Serves(w, u)') /\ u \in Users => (Owned(u) => Owned(u)')
    BY <1>0, <1>1, <2>1, Zenon DEF Owned, Serves
  <2> QED
    BY <1>0, <1>4, <2>2, <2>3, OwnersKept, Zenon
<1>5. ASSUME Again(w) PROVE Serves(w, u)'
  <2>1. worker'[w].pc \in {"persist", "dead"} /\ worker'[w].msg = worker[w].msg
    BY <1>2, <1>5, Zenon DEF Again, WorkerType
  <2> QED
    BY <1>u, <2>1, Zenon DEF Serves
<1>6. ASSUME NEW pc \in {"confirm", "release", "rollback"}, WorkerTo(w, pc)
      PROVE  worker'[w].pc = pc /\ worker'[w].msg = worker[w].msg
  BY <1>2, <1>6, Zenon DEF WorkerTo, WorkerType
<1>7. CASE NoTrouble /\ pop(w)
  <2>1. /\ redis' = Popped(redis) /\ redis \in RedisType /\ redis.queue # <<>> /\ worker[w].pc = "pop"
        /\ worker'[w] = [pc |-> "persist", msg |-> Head(redis.queue), attempt |-> 1]
    BY <1>2, <1>7 DEF pop, Called, CallLost, NoTrouble, Trouble, OwnedInv, TypeInv, WorkerAt
  <2>2. redis'.ops = redis.ops /\ redis'.queue = Tail(redis.queue) /\ redis.queue \in Seq(Message)
    BY <2>1, Zenon DEF Popped, RedisType
  <2>h. PICK h : h = Head(redis.queue).user
    BY Zenon
  <2>3. Serves(w, h)'
    BY <2>1, <2>h DEF Serves
  <2>4. ASSUME NEW v \in Users, Queued(v) PROVE Queued(v)' \/ v = h
    <3>1. PICK i \in 1 .. Len(redis.queue) : redis.queue[i].user = v
      BY <2>2, <2>4 DEF Queued
    <3>2. CASE i = 1
      BY <2>1, <2>2, <2>h, <3>1, <3>2
    <3>3. CASE i # 1
      <4>1. i - 1 \in DOMAIN redis'.queue /\ redis'.queue[i - 1] = redis.queue[i]
        BY <2>1, <2>2, <3>3
      <4> QED
        BY <3>1, <4>1, Zenon DEF Queued
    <3> QED
      BY <3>2, <3>3, Zenon
  <2>5. \A v \in Users : Owned(v) => Owned(v)'
    BY <1>0, <1>1, <2>1, <2>3, <2>4, Zenon DEF Owned, Serves
  <2> QED
    BY <1>0, <2>2, <2>5, OwnersKept, Zenon
<1>8. CASE NoTrouble /\ persistQueuedOrder(w)
  <2>1. redis' = redis /\ (WorkerTo(w, "confirm") \/ Again(w))
    BY <1>8, Zenon DEF persistQueuedOrder
  <2>2. Serves(w, u)'
    BY <1>u, <1>5, <1>6, <2>1, Zenon DEF Serves
  <2> QED
    BY <1>4, <1>8, <2>1, <2>2, Zenon DEF SameQueue
<1>9. CASE NoTrouble /\ confirm(w)
  <2>1. redis' = Confirmed(redis, u) /\ u \in Users
    BY <1>u, <1>2, <1>9 DEF confirm, Called, CallLost, NoTrouble, Trouble, OwnedInv, WorkerAt
  <2>2. /\ SameQueue(redis') /\ \A v \in Users \ {u} : redis'.ops[v] = redis.ops[v]
        /\ redis'.ops[u] # "reserved"
    BY <2>1, StockScripts, Zenon
  <2> QED
    BY <1>4, <1>9, <2>2, Zenon
<1>10. CASE NoTrouble /\ deadLetter(w)
  <2>1. redis' = DeadLettered(redis, worker[w].msg) /\ WorkerTo(w, "release")
    BY <1>10 DEF deadLetter, Called, CallLost, NoTrouble, Trouble, OwnedInv
  <2>2. Serves(w, u)'
    BY <1>u, <1>6, <2>1, Zenon DEF Serves
  <2> QED
    BY <1>4, <1>10, <2>1, <2>2, BesideTheStock, Zenon DEF SameOps
<1>11. CASE NoTrouble /\ compensateStock(w)
  <2>1. redis' = Released(redis, u) /\ u \in Users
    BY <1>u, <1>2, <1>11 DEF compensateStock, Called, CallLost, NoTrouble, Trouble, OwnedInv, WorkerAt
  <2> QED
    BY <1>4, <1>11, <2>1, StockScripts, Zenon
<1>12. CASE NoTrouble /\ compensatePlace(w)
  <2>1. redis' = RolledBack(redis, u) /\ worker[w].pc = "rollback"
    BY <1>u, <1>12 DEF compensatePlace, Called, CallLost, NoTrouble, Trouble, OwnedInv, WorkerAt
  <2>2. ~Serves(w, u)
    BY <2>1, Zenon DEF Serves
  <2> QED
    BY <1>4, <1>12, <2>1, <2>2, BesideTheStock, Zenon DEF SameOps
<1> QED
  BY <1>0, <1>3, <1>7, <1>8, <1>9, <1>10, <1>11, <1>12, Zenon DEF workerStep

\* The other steps touch no operation, no message and no thread, or fail.
LEMMA OtherOwners ==
  ASSUME TypeInv, OwnedInv,
         \/ \E u \in Users : publishEvent(u)
         \/ markPublished \/ readDurable \/ compare \/ repair \/ startUp \/ die
         \/ UNCHANGED saleVars
  PROVE  OwnedInv'
<1>0. redis \in RedisType
  BY Zenon DEF TypeInv
<1>1. Trouble \/ NoTrouble
  BY Zenon DEF publishEvent, markPublished, readDurable, compare, repair, startUp, die, saleVars, Called, CallLost, NoTrouble
<1>2. CASE Trouble
  BY <1>2, OwnersKept DEF Trouble, NoTrouble, OwnedInv
<1>3. CASE NoTrouble
  <2>1. UNCHANGED <<request, worker>>
    BY <1>3 DEF publishEvent, markPublished, readDurable, compare, repair, startUp, die, saleVars,
                DrainRest, AdminRest, NoTrouble, Trouble, OwnedInv
  <2>2. redis'.ops = redis.ops /\ redis'.queue = redis.queue
    <3>1. CASE repair
      <4>1. redis' = Repaired(redis, admin.durable)
        BY <1>3, <3>1 DEF repair, Called, CallLost, NoTrouble, Trouble, OwnedInv
      <4> QED
        BY <4>1, BesideTheStock, Zenon DEF SameOps, SameQueue
    <3>2. CASE startUp
      <4> DEFINE r == GateTo(redis, "created", "preheating")
      <4>0. "preheating" \in GateStates
        BY Zenon DEF GateStates
      <4>1. r \in RedisType /\ r.ops = redis.ops /\ r.queue = redis.queue
        BY <1>0, <4>0, GateToSound, GateBesideTheStock, Zenon DEF Sound
      <4>2. redis' = GateTo(r, "preheating", "running")
        BY <3>2, Zenon DEF startUp
      <4> HIDE DEF r
      <4> QED
        BY <4>1, <4>2, GateBesideTheStock, Zenon
    <3>3. CASE ~repair /\ ~startUp
      BY <3>3, <1>3, Zenon DEF publishEvent, markPublished, readDurable, compare, die, saleVars, DrainRest
    <3> QED
      BY <3>1, <3>2, <3>3, Zenon
  <2>3. \A v \in Users : Owned(v) => Owned(v)'
    BY <2>1, <2>2, Zenon DEF Owned, Queued, Serves
  <2> QED
    BY <1>1, <2>2, <2>3, OwnersKept, Zenon
<1> QED
  BY <1>1, <1>2, <1>3, Zenon

-----------------------------------------------------------------------------
(* Counting holds; the theorems.                                           *)

INSTANCE FiniteSetTheorems

\* The library's theorems about finite sets.
LEMMA CountingHolds == Counting
<1>1. EmptyCounts
  BY FS_EmptySet, Zenon DEF EmptyCounts
<1>2. NatCounts
  BY FS_CardinalityType, Zenon DEF NatCounts
<1>3. PartCounts
  BY FS_Subset, Zenon DEF PartCounts
<1>4. MoreCounts
  BY FS_AddElement, Zenon DEF MoreCounts
<1>5. LessCounts
  BY FS_RemoveElement, Zenon DEF LessCounts
<1> QED
  BY <1>1, <1>2, <1>3, <1>4, <1>5, Zenon DEF Counting

\* The invariant holds always.
LEMMA SaleInvariant == SaleSpec => []SaleInv
<1>1. SaleInit => SaleInv
  BY CountingHolds, SaleInitial, Zenon
<1>2. SaleInv /\ [SaleNext]_saleVars => SaleInv'
  BY CountingHolds, SaleInductive, Zenon
<1> QED
  BY <1>1, <1>2, PTL DEF SaleSpec

\* For any stock, any number of users and workers and any losses, repeats, crashes
\* and repairs, the rows and the counters of MySQL agree, a key has one order, no
\* unit is sold twice and no event is marked before it was handed to the publisher
\* (mysql_transaction_store.cc:100-123, 149).
THEOREM NeverOversold == SaleSpec => []DatabaseNeverOversells
<1>1. SaleInv => DatabaseNeverOversells
  BY Zenon DEF SaleInv
<1> QED
  BY <1>1, SaleInvariant, PTL

\* The scripts keep the counters of Redis equal to its operations until the
\* reconciler repairs them, and the total and the gate always
\* (redis_inventory_fast_path.cc:15-52, redis_flash_sale_gate.cc:22-32).
THEOREM LedgerHolds == SaleSpec => []RedisLedger
<1>1. SaleInv => RedisLedger
  BY Zenon DEF SaleInv, LedgerInv, CountersOk, GateOk, RedisLedger, Count, With
<1> QED
  BY <1>1, SaleInvariant, PTL

\* What Redis calls sold has its row in MySQL (flash_sale_order_consumer.cc:12-18).
THEOREM SoldHasRow == SaleSpec => []SoldIsStored
<1>1. SaleInv => SoldIsStored
  BY Zenon DEF SaleInv, SoldInv
<1> QED
  BY <1>1, SaleInvariant, PTL

\* Without failures every reservation has an owner, whatever the threads do: a
\* request, a message or a worker that has not given it back yet
\* (flash_sale_order_service.cc:48-72, flash_sale_order_consumer.cc:32-51).
THEOREM ReservationsAlwaysOwned == SaleSpec => []ReservationsAreOwned
<1>1. SaleInit => OwnedInv
  BY DEF SaleInit, OwnedInv, EmptyRedis
<1>2. SaleInv /\ OwnedInv /\ [SaleNext]_saleVars => OwnedInv'
  BY RequestOwners, WorkerOwners, OtherOwners, Zenon DEF SaleNext, SaleInv
<1>3. OwnedInv => ReservationsAreOwned
  BY DEF OwnedInv, Owned, Queued, Serves, ReservationsAreOwned, Range
<1> QED
  BY <1>1, <1>2, <1>3, SaleInvariant, PTL DEF SaleSpec
=============================================================================
