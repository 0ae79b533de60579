----------------------------- MODULE RedisSale ------------------------------
(***************************************************************************)
(* What the flash sale keeps in Redis, as one record, and the Lua scripts   *)
(* and list commands that change it: the admission gate                     *)
(* (src/kv/redis_flash_sale_gate.cc), the stock of the SKU with the state   *)
(* of each order's operation (src/kv/redis_inventory_fast_path.cc) and the  *)
(* two lists of the order queue (src/kv/redis_order_queue.cc).  Redis runs  *)
(* a script atomically.  An operator takes the record before the script and *)
(* yields its return code or the record after it; every order has quantity  *)
(* one, and its operation id is its user.                                   *)
(***************************************************************************)
EXTENDS Integers, Sequences, FiniteSets

CONSTANTS Users,       \* users of the promotion, each with one order id
          Quota        \* participant limit of the promotion

ASSUME RedisAssumption == Quota \in Nat /\ IsFiniteSet(Users)

\* The two initialize scripts, run on an empty Redis.
EmptyRedis(units) ==
  [state |-> "created", users |-> {}, admitted |-> 0,
   available |-> units, reserved |-> 0, sold |-> 0, total |-> units,
   ops |-> [u \in Users |-> "none"], queue |-> <<>>, dlq |-> <<>>]

-----------------------------------------------------------------------------
\* kTransitionScript: idempotent, and never backwards.
GateTo(r, expected, next) ==
  CASE r.state = next -> r
    [] next = "preheating" /\ r.state \in {"running", "finished"} -> r
    [] next = "running" /\ r.state = "finished" -> r
    [] r.state = expected -> [r EXCEPT !.state = next]
    [] OTHER -> r

\* kAcquireScript.
AcquireCode(r, u) ==
  CASE r.state \in {"created", "preheating"} -> -1
    [] r.state = "finished" -> -2
    [] u \in r.users -> 2
    [] r.admitted >= Quota -> 0
    [] OTHER -> 1
Acquired(r, u) ==
  IF AcquireCode(r, u) = 1 THEN [r EXCEPT !.users = @ \cup {u}, !.admitted = @ + 1] ELSE r

\* kRollbackScript: SREM and the counter move together.
RolledBack(r, u) ==
  IF u \in r.users THEN [r EXCEPT !.users = @ \ {u}, !.admitted = @ - 1] ELSE r

-----------------------------------------------------------------------------
\* kReserveScript.
ReserveCode(r, u) ==
  CASE r.ops[u] = "reserved" -> 2
    [] r.ops[u] \in {"confirmed", "released"} -> -2
    [] r.available < 1 -> 0
    [] OTHER -> 1
Reserved(r, u) ==
  IF ReserveCode(r, u) = 1
  THEN [r EXCEPT !.available = @ - 1, !.reserved = @ + 1, !.ops[u] = "reserved"]
  ELSE r

\* kConfirmScript and kReleaseScript: a repeated call changes nothing and is Ok.
TransitionCode(r, u, final) ==
  CASE r.ops[u] = "none" -> -1
    [] r.ops[u] = final -> 1
    [] r.ops[u] # "reserved" -> -2
    [] OTHER -> 1
Confirmed(r, u) ==
  IF r.ops[u] = "reserved"
  THEN [r EXCEPT !.reserved = @ - 1, !.sold = @ + 1, !.ops[u] = "confirmed"]
  ELSE r

\* Mutant: a release repeated for a confirmed order gives its unit back.
ReleasedSold(r, u) ==
  CASE r.ops[u] = "reserved" -> [r EXCEPT !.reserved = @ - 1, !.available = @ + 1, !.ops[u] = "released"]
    [] r.ops[u] = "confirmed" -> [r EXCEPT !.sold = @ - 1, !.available = @ + 1]
    [] OTHER -> r
Released(r, u) ==
  IF r.ops[u] = "reserved"
  THEN [r EXCEPT !.reserved = @ - 1, !.available = @ + 1, !.ops[u] = "released"]
  ELSE r

\* queryStock: the three counters, read by one HMGET.
StockOf(r) == [available |-> r.available, reserved |-> r.reserved, sold |-> r.sold]

\* kRepairScript: refused unless the reserved count is the given one.
RepairCode(r, s) == IF r.reserved = s.reserved THEN 1 ELSE 0
Repaired(r, s) ==
  IF RepairCode(r, s) = 1
  THEN [r EXCEPT !.available = s.available, !.reserved = s.reserved, !.sold = s.sold,
                 !.total = s.available + s.reserved + s.sold]
  ELSE r

-----------------------------------------------------------------------------
\* LPUSH and BRPOP on the lists, oldest message first.
Pushed(r, m) == [r EXCEPT !.queue = Append(@, m)]
Popped(r) == [r EXCEPT !.queue = Tail(@)]
DeadLettered(r, m) == [r EXCEPT !.dlq = Append(@, m)]
=============================================================================
