CONSTANTS
  s1 = s1
  o1 = o1
  o2 = o2
  o3 = o3
  t1 = t1
  t2 = t2
  s2 = s2
  Absent = Absent
  Skus = {s1}
  Ops = {o1, o2}
  Threads = {t1, t2}
  MaxQty = 1
  Capacity <- MCCapacity
  Kinds = {"confirm", "release", "rollbackConfirmation", "rollbackRelease"}
  Repairs <- MCRepairs
SYMMETRY Symmetry
SPECIFICATION Spec

INVARIANT
  MemoryMatchesStore

CHECK_DEADLOCK FALSE
