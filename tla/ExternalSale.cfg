SPECIFICATION SaleSpec

CONSTANTS
  Users = {u1, u2}
  Totals = {1, 2}
  Quota = 2
  Workers = {w1}
  Keys = {k1, k2}
  NoKey = NoKey
  MaxTries = 2
  MaxTroubles = 2

INVARIANTS
  DatabaseNeverOversells
  RedisLedger
  SoldIsStored
  ReservationsAreOwned

PROPERTIES
  OrdersAreAnnounced
  QueuedIsDecided

CHECK_DEADLOCK FALSE
