SPECIFICATION Spec

CONSTANTS
  Events = {e1, e2}
  Torn = Torn
  Batch = 1
  MaxStops = 2
  Messages = {m1, m2}
  MaxSubs = 2
  Deliverers = {t1, t2}
  MaxAttempts = 2
  MaxFailures = 2
  Orders = {o1, o2}
  Garbled = {g}
  Attempts = 2
  MaxMessages = 1
  MaxInputs = 3

INVARIANTS
  AppendedIsKept
  RedeliveredByRestartOnly
  DeliveredToAll
  DeadAfterMaxAttempts
  CommittedIsSettled
  StockFollowsOrder

PROPERTIES
  EventsArePublished
  RecordsAreLeftBehind

CHECK_DEADLOCK FALSE
