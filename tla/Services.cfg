SPECIFICATION Spec

CONSTANTS
  Procs = {p1, p2}
  Solo = p1
  Names = {n1}
  MaxIds = 2
  Tokens = {t1}
  MaxBreaks = 2
  Products = {k1}
  Readers = {r1, r2}
  Nobody = Nobody
  ShardCapacity = 1
  MaxEvents = 2

INVARIANTS
  NamesAreUnique
  RefusedForGood
  ReadsOwnChanges
  MemoryIsDurable

PROPERTY
  WaitersReturn

CHECK_DEADLOCK FALSE
