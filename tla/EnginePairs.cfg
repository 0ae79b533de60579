CONSTANTS
  k1 = k1
  k2 = k2
  v1 = v1
  v2 = v2
  c1 = c1
  c2 = c2
  c3 = c3
  Torn = Torn
  Absent = Absent
  Keys = {k1, k2}
  Values = {v1, v2}
  Clients = {c1, c2}
  Writes <- PairWrites
  MaxGroup = 2
  MaxMutations = 2
  MaxWal = 3
  Tears = TRUE
SPECIFICATION FairSpec

INVARIANT
  BatchesWhole

PROPERTY
  CallersAnswered
