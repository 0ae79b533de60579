CONSTANTS
  s1 = s1
  o1 = o1
  o2 = o2
  o3 = o3
  t1 = t1
  t2 = t2
  s2 = s2
  Absent = Absent
  Skus = {s1, s2}
  Ops = {o1, o2, o3}
  Threads = {t1, t2}
  MaxQty = 2
  Capacity <- MCCapacity
  Kinds = {"confirm", "release"}
  Repairs = {}
SYMMETRY Symmetry
SPECIFICATION Spec

INVARIANTS
  LedgerValid
  RecoverableLedger
  AckedReservationKept
  SaleSurvives
