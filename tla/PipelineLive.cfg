CONSTANTS
  u1 = u1
  u2 = u2
  k1 = k1
  k2 = k2
  h1 = h1
  h2 = h2
  w1 = w1
  w2 = w2
  Absent = Absent
  Users = {u1, u2}
  Keys = {k1}
  Http = {h1}
  Workers = {w1, w2}
  MaxQty = 1
  Capacity = 1
  Quota = 2
  QueueLimit = 1
  MaxAttempts = 2
SPECIFICATION FairSpec

PROPERTIES
  RequestsSettle
  StockNotStranded
