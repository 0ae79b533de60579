--------------------------- MODULE ConnectionPool ---------------------------
(***************************************************************************)
(* The pools of RedisKVStore (src/kv/redis_kv_store.cc) and                  *)
(* MySqlConnectionPool (src/storage/mysql).  Both lend a connection for one  *)
(* command or transaction, wait on a condition variable with a timeout, and  *)
(* close only when every connection is back.  They differ in whom a release  *)
(* wakes and in whether a pool that was never connected counts as closing.   *)
(* MySqlTransactionStore::drainOutbox borrows a second connection while it   *)
(* holds the first.  A condition variable is the set of threads that sleep   *)
(* on it and the set of those notified since.                                *)
(***************************************************************************)
EXTENDS Integers, FiniteSets

CONSTANTS Borrowers,     \* threads that use the pool
          Drainer,       \* the one of them in drainOutbox
          Closer,        \* the thread that connects and closes
          Size,          \* connections of the pool
          MaxConnects    \* bound: calls of connect that succeed

ASSUME PoolAssumption ==
  Drainer \in Borrowers /\ Closer \notin Borrowers /\ Size \in Nat \ {0} /\ MaxConnects \in Nat

VARIABLES
  pool,         \* which of the two pools this is
  all,          \* connections_, all_: open connections
  free,         \* idle_
  inUse,        \* in_use_
  closing,      \* closing_
  borrower,     \* what each thread does and the connections it holds
  closer,       \* what the closing thread does
  asleep,       \* threads in a wait of condition_
  notified,     \* threads woken, that have not looked again yet
  connects      \* generation of the connections

poolVars == <<pool, all, free, inUse, closing, borrower, closer, asleep, notified, connects>>

Out == [pc |-> "out", held |-> {}]

PoolInit ==
  /\ pool \in {"redis", "mysql"}
  /\ all = {} /\ free = {} /\ inUse = 0 /\ closing = (pool = "redis")
  /\ borrower = [t \in Borrowers |-> Out] /\ closer = "closed"
  /\ asleep = {} /\ notified = {} /\ connects = 0

-----------------------------------------------------------------------------
notifyAll == asleep' = {} /\ notified' = notified \cup asleep
notifyOne ==
  IF asleep = {} THEN UNCHANGED <<asleep, notified>>
  ELSE \E t \in asleep : asleep' = asleep \ {t} /\ notified' = notified \cup {t}
Awake(t) == asleep' = asleep \ {t} /\ notified' = notified \ {t}

\* The connections a successful connect opens, all to one host.
Opened == {<<connects, i>> : i \in 1..Size}

\* connect, after its close(); when a connection fails the pool stays as it is.
connect ==
  /\ closer = "closed" /\ connects < MaxConnects /\ connects' = connects + 1
  /\ all' = Opened /\ free' = Opened
  /\ closing' = FALSE /\ closer' = "open" /\ notifyAll
  /\ UNCHANGED <<pool, inUse, borrower>>

\* close sets closing_, wakes everyone, and sleeps unless nothing is lent.
beginClose ==
  /\ closer = "open" /\ closing' = TRUE /\ closer' = "closing"
  /\ IF inUse = 0 THEN asleep' = {} /\ notified' = notified \cup asleep \cup {Closer}
     ELSE asleep' = {Closer} /\ notified' = notified \cup asleep
  /\ UNCHANGED <<pool, all, free, inUse, borrower, connects>>

\* Mutant: the connections are freed without waiting for the borrowed ones.
CloseAtOnce ==
  /\ closer = "closing" /\ all' = {} /\ free' = {} /\ closer' = "closed"
  /\ Awake(Closer)
  /\ UNCHANGED <<pool, inUse, closing, borrower, connects>>

\* close looks again at in_use_ when it is woken.
endClose ==
  /\ closer = "closing" /\ Closer \in notified
  /\ IF inUse = 0 THEN all' = {} /\ free' = {} /\ closer' = "closed" /\ Awake(Closer)
     ELSE /\ asleep' = asleep \cup {Closer} /\ notified' = notified \ {Closer}
          /\ UNCHANGED <<all, free, closer>>
  /\ UNCHANGED <<pool, inUse, closing, borrower, connects>>

-----------------------------------------------------------------------------
BorrowerTo(t, pc, held) == borrower' = [borrower EXCEPT ![t] = [pc |-> pc, held |-> held]]
BorrowRest == UNCHANGED <<pool, all, closing, closer, connects>>

\* The end of acquire: a connection, or none when the pool closes or time is up.
Obtain(t) ==
  IF closing \/ free = {}
  THEN /\ IF borrower[t].held = {} THEN borrower' = [borrower EXCEPT ![t] = Out]
          ELSE BorrowerTo(t, "failed", borrower[t].held)
       /\ UNCHANGED <<free, inUse>>
  ELSE \E c \in free :
         /\ BorrowerTo(t, "in", borrower[t].held \cup {c})
         /\ free' = free \ {c} /\ inUse' = inUse + 1

MayAcquire(t) == borrower[t] = Out \/ (t = Drainer /\ pool = "mysql" /\ borrower[t].pc = "in"
                                        /\ Cardinality(borrower[t].held) = 1)

acquire(t) ==
  /\ MayAcquire(t) /\ BorrowRest
  /\ closing \/ free # {}
  /\ Obtain(t) /\ UNCHANGED <<asleep, notified>>

sleep(t) ==
  /\ MayAcquire(t) /\ ~closing /\ free = {}
  /\ BorrowerTo(t, "wait", borrower[t].held) /\ asleep' = asleep \cup {t}
  /\ UNCHANGED <<free, inUse, notified>> /\ BorrowRest

\* A notified thread looks again, and sleeps again if another one was faster.
wake(t) ==
  /\ t \in notified /\ BorrowRest
  /\ IF closing \/ free # {} THEN Obtain(t) /\ Awake(t)
     ELSE asleep' = asleep \cup {t} /\ notified' = notified \ {t} /\ UNCHANGED <<free, inUse, borrower>>

timeOut(t) == borrower[t].pc = "wait" /\ Obtain(t) /\ Awake(t) /\ BorrowRest

\* Mutant: a pool that closes wakes nobody.
ReleaseQuietly(t) ==
  /\ borrower[t].pc \in {"in", "failed"} /\ BorrowRest
  /\ \E c \in borrower[t].held :
       /\ BorrowerTo(t, IF borrower[t].held = {c} THEN "out" ELSE borrower[t].pc, borrower[t].held \ {c})
       /\ inUse' = inUse - 1
       /\ free' = IF closing THEN free ELSE free \cup {c}
       /\ IF closing THEN UNCHANGED <<asleep, notified>> ELSE notifyOne

\* release of one connection.  MySqlConnectionPool closes one it does not know
\* (LeasesAreOpen shows there is none).
release(t) ==
  /\ borrower[t].pc \in {"in", "failed"} /\ BorrowRest
  /\ \E c \in borrower[t].held :
       /\ BorrowerTo(t, IF borrower[t].held = {c} THEN "out" ELSE borrower[t].pc, borrower[t].held \ {c})
       /\ inUse' = IF inUse > 0 THEN inUse - 1 ELSE 0
       /\ free' = IF closing \/ (pool = "mysql" /\ c \notin all) THEN free ELSE free \cup {c}
       /\ IF pool = "mysql" /\ closing THEN notifyAll ELSE notifyOne

borrowerStep(t) == wake(t) \/ timeOut(t) \/ release(t)

PoolNext ==
  \/ connect \/ beginClose \/ endClose
  \/ \E t \in Borrowers : acquire(t) \/ sleep(t) \/ borrowerStep(t)

PoolSpec == PoolInit /\ [][PoolNext]_poolVars

-----------------------------------------------------------------------------
Lent == UNION {borrower[t].held : t \in Borrowers}

\* No thread holds a connection that has been closed or that another thread holds,
\* and in_use_, on which close relies, counts the connections that are lent, over any
\* number of connects, closes and timeouts (redis_kv_store.cc:57-96,
\* mysql_connection_pool.cc:88-141).
LeasesAreOpen ==
  /\ Lent \subseteq all /\ inUse = Cardinality(Lent) /\ free \cap Lent = {}
  /\ \A t, u \in Borrowers : t # u => borrower[t].held \cap borrower[u].held = {}
  /\ closer = "open" => all = free \cup Lent

\* A close ends: every release wakes it in time, also when threads wait for a
\* connection and when drainOutbox waits for its second one (redis_kv_store.cc:95,
\* mysql_connection_pool.cc:131-134).
CloseReturns == closer = "closing" ~> closer = "closed"
=============================================================================
