SPECIFICATION Spec

CONSTANTS
  Borrowers = {b1, b2, b3}
  Drainer = b1
  Closer = closer
  Size = 2
  MaxConnects = 2
  Fds = {f1, f2}
  Workers = {w1, w2}
  NoTask = NoTask
  QueueCapacity = 1
  MaxAccepts = 2
  MaxRequests = 3

INVARIANTS
  LeasesAreOpen
  AnswersMatchRequests
  CallbacksAreRun

PROPERTIES
  CloseReturns
  RequestsAreAnswered
  ShutdownEnds

CHECK_DEADLOCK FALSE
