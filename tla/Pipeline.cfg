CONSTANTS
  u1 = u1
  u2 = u2
  k1 = k1
  k2 = k2
  h1 = h1
  h2 = h2
  w1 = w1
  w2 = w2
  Absent = Absent
  Users = {u1, u2}
  Keys = {k1, k2}
  Http = {h1, h2}
  Workers = {w1, w2}
  MaxQty = 2
  Capacity = 2
  Quota = 2
  QueueLimit = 1
  MaxAttempts = 2
SYMMETRY Symmetry
SPECIFICATION Spec

INVARIANTS
  PlacesCarried
  StockOwned
  ProcessedIsSold
  OneOrderPerKey
