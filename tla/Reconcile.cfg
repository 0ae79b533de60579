SPECIFICATION SaleSpec

CONSTANTS
  Users = {u1, u2}
  Totals = {2}
  Quota = 2
  Workers = {w1}
  Keys = {k1, k2}
  NoKey = NoKey
  MaxTries = 2
  MaxTroubles = 1

INVARIANT
  ReservationsAreNotOverwritten

CHECK_DEADLOCK FALSE
