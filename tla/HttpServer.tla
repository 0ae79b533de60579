----------------------------- MODULE HttpServer -----------------------------
(***************************************************************************)
(* HttpServer (src/gateway/http) on the EventLoop (src/network/reactor) and  *)
(* the ThreadPool (src/common/thread_pool.h), with the shutdown of           *)
(* apps/ecommerce_api_main.cc.  The loop's thread runs one callback at a     *)
(* time: a connection's onRead or onWrite, or a functor that a worker or     *)
(* main queued.  Each connection has one request at the workers at most;     *)
(* further requests wait in its input buffer.  A request is its position     *)
(* on the connection; bytes of a request that is not complete have no effect *)
(* and are left out.  The server always has workers (envSize is positive).   *)
(***************************************************************************)
EXTENDS Integers, Sequences, Functions

CONSTANTS Fds,           \* file descriptors, used again after a close
          Workers,       \* threads of worker_pool_
          NoTask,
          QueueCapacity,      \* queue_capacity_
          MaxAccepts,    \* bound: connections accepted
          MaxRequests    \* bound: requests that arrive

ASSUME HttpAssumption ==
  Workers # {} /\ QueueCapacity \in Nat \ {0} /\ MaxAccepts \in Nat /\ MaxRequests \in Nat

VARIABLES
  conn,        \* connections_ by descriptor
  tasks,       \* tasks_ of the pool
  stopping,    \* stopping_ of the pool
  running,     \* the task of each worker
  ended,       \* the workers whose run has returned
  functors,    \* pending_functors_
  accepting,   \* the acceptor is open
  looping,     \* the loop has not quit
  main,        \* where main is in its shutdown
  requests     \* requests that have arrived

httpVars == <<conn, tasks, stopping, running, ended, functors, accepting, looping, main, requests>>

\* A connection: of its requests the first `arrived` are at the socket, `read` in the
\* input buffer and `parsed` handed on; answers wait in output and are then delivered.
NewConn(gen, open) ==
  [gen |-> gen, open |-> open, arrived |-> 0, read |-> 0, parsed |-> 0, eof |-> FALSE,
   reading |-> open, writing |-> FALSE, inFlight |-> FALSE, closeAfter |-> FALSE,
   output |-> <<>>, delivered |-> <<>>]

HttpInit ==
  /\ conn = [f \in Fds |-> NewConn(0, FALSE)]
  /\ tasks = <<>> /\ stopping = FALSE /\ running = [w \in Workers |-> NoTask] /\ ended = {}
  /\ functors = <<>> /\ accepting = TRUE /\ looping = TRUE /\ main = "serving" /\ requests = 0

-----------------------------------------------------------------------------
Refusal == <<0, 0>>      \* a 400, 413 or 503 of the server itself
ConnTo(f, c) == conn' = [conn EXCEPT ![f] = c]
close(f) == ConnTo(f, NewConn(conn[f].gen, FALSE))
LoopRest == UNCHANGED <<stopping, running, ended, accepting, looping, main, requests>>

\* queueResponse: the outcomes, one of them that the answer is too long for what is
\* left of the output buffer, or for an empty one.
Queued(c, answer, last) ==
  { LET closes == c.closeAfter \/ last \/ full IN
    [c EXCEPT !.output = IF full THEN <<Refusal>> ELSE Append(@, answer),
              !.closeAfter = closes, !.reading = @ /\ ~closes, !.writing = TRUE]
    : full \in BOOLEAN }

\* HttpRequestParser::parse on the input buffer: what comes next is not there yet, a
\* request, or neither (malformed or too large).
Outcomes(c) == IF c.parsed = c.read THEN {"incomplete"} ELSE {"request", "invalid"}

\* ThreadPool::submit accepts a task.
MaySubmit == ~stopping /\ Len(tasks) < QueueCapacity

\* The parsing loop of onRead: a request goes to the workers or is refused by them.
Parse(f, c) ==
  LET taken == [c EXCEPT !.parsed = @ + 1, !.reading = FALSE] IN
  \/ "incomplete" \in Outcomes(c) /\ ConnTo(f, c) /\ UNCHANGED tasks
  \/ "invalid" \in Outcomes(c) /\ UNCHANGED tasks /\ \E d \in Queued(c, Refusal, TRUE) : ConnTo(f, d)
  \/ /\ "request" \in Outcomes(c) /\ MaySubmit
     /\ ConnTo(f, [taken EXCEPT !.inFlight = TRUE])
     /\ \E keepAlive \in BOOLEAN :
          tasks' = Append(tasks, [fd |-> f, gen |-> c.gen, request |-> taken.parsed, keepAlive |-> keepAlive])
  \/ /\ "request" \in Outcomes(c) /\ ~MaySubmit /\ UNCHANGED tasks
     /\ \E d \in Queued(taken, Refusal, TRUE) : ConnTo(f, d)

\* Mutant: the request at the workers is forgotten.
ReadsAnyway(c) == c.open

MayRead(c) == c.open /\ ~c.inFlight

\* onRead on a connection in state c: an end of file closes it.
Read(f, c) == IF c.eof /\ c.arrived = c.read THEN close(f) /\ UNCHANGED tasks
              ELSE Parse(f, [c EXCEPT !.read = c.arrived])

onRead(f) ==
  /\ looping /\ conn[f].reading /\ MayRead(conn[f])
  /\ conn[f].arrived > conn[f].read \/ conn[f].eof
  /\ Read(f, conn[f]) /\ UNCHANGED functors /\ LoopRest

\* onWrite sends a part and waits to be able to send more.  The part is of whole answers:
\* that a full output buffer cuts off the rest of one half sent is not modelled.
onWritePart(f) ==
  /\ looping /\ conn[f].open /\ conn[f].writing
  /\ UNCHANGED <<tasks, functors>> /\ LoopRest
  /\ \E n \in 1..(Len(conn[f].output) - 1) :
       ConnTo(f, [conn[f] EXCEPT !.output = SubSeq(@, n + 1, Len(@)),
                                 !.delivered = @ \o SubSeq(conn[f].output, 1, n)])

\* Mutant: the input that is already there waits for more to arrive.
WriteAllAndWait(f) ==
  LET c == [conn[f] EXCEPT !.output = <<>>, !.delivered = @ \o conn[f].output, !.reading = TRUE] IN
  /\ looping /\ conn[f].open /\ conn[f].writing
  /\ IF c.closeAfter THEN close(f) ELSE ConnTo(f, c)
  /\ UNCHANGED <<tasks, functors>> /\ LoopRest

\* onWrite sends all: the connection closes, or reads again, starting with what its
\* buffer holds.  POLLOUT stays set, so this also happens with nothing to send and
\* while a request is at the workers.
onWrite(f) ==
  LET c == [conn[f] EXCEPT !.output = <<>>, !.delivered = @ \o conn[f].output, !.reading = TRUE] IN
  /\ looping /\ conn[f].open /\ conn[f].writing
  /\ IF c.closeAfter THEN close(f) /\ UNCHANGED tasks
     ELSE IF MayRead(c) /\ c.read > c.parsed THEN Read(f, c)
     ELSE ConnTo(f, c) /\ UNCHANGED tasks
  /\ UNCHANGED functors /\ LoopRest

\* The peer is gone: POLLERR, POLLHUP or a failed send.
onError(f) == looping /\ conn[f].open /\ close(f) /\ UNCHANGED <<tasks, functors>> /\ LoopRest

Accepted == FoldFunction(+, 0, [f \in Fds |-> conn[f].gen])

\* The acceptor's handleRead has a connection with this descriptor.
MayAccept(f) == looping /\ accepting /\ ~conn[f].open

\* onConnection; beyond max_connections the descriptor is closed at once.
onConnection(f) ==
  /\ MayAccept(f) /\ Accepted < MaxAccepts
  /\ ConnTo(f, NewConn(conn[f].gen + 1, TRUE)) /\ UNCHANGED <<tasks, functors>> /\ LoopRest

\* The client sends a request, or nothing more.
send(f) ==
  /\ conn[f].open /\ ~conn[f].eof /\ requests < MaxRequests /\ requests' = requests + 1
  /\ ConnTo(f, [conn[f] EXCEPT !.arrived = @ + 1])
  /\ UNCHANGED <<tasks, stopping, running, ended, functors, accepting, looping, main>>
shutdownWrite(f) ==
  /\ conn[f].open /\ ~conn[f].eof /\ ConnTo(f, [conn[f] EXCEPT !.eof = TRUE])
  /\ UNCHANGED <<tasks, functors>> /\ LoopRest

-----------------------------------------------------------------------------
\* EventLoop::runInLoop from another thread.
runInLoop(functor) == functors' = Append(functors, functor)

WorkerRest == UNCHANGED <<conn, stopping, accepting, looping, main, requests>>

\* ThreadPool::run: a worker takes the first task, also when the pool stops ...
take(w) ==
  /\ w \notin ended /\ running[w] = NoTask /\ tasks # <<>>
  /\ running' = [running EXCEPT ![w] = Head(tasks)] /\ tasks' = Tail(tasks)
  /\ UNCHANGED <<functors, ended>> /\ WorkerRest

\* Mutant: a stopping pool leaves its queue alone.
ReturnWhenStopping(w) ==
  /\ w \notin ended /\ running[w] = NoTask /\ stopping
  /\ ended' = ended \cup {w} /\ UNCHANGED <<tasks, running, functors>> /\ WorkerRest

\* ... and returns when it finds the queue empty then.
runReturns(w) ==
  /\ w \notin ended /\ running[w] = NoTask /\ tasks = <<>> /\ stopping
  /\ ended' = ended \cup {w} /\ UNCHANGED <<tasks, running, functors>> /\ WorkerRest

\* The task: dispatch, then the response goes to the loop.
respond(w) ==
  /\ running[w] # NoTask
  /\ runInLoop([kind |-> "response", task |-> running[w]])
  /\ running' = [running EXCEPT ![w] = NoTask]
  /\ UNCHANGED <<tasks, ended>> /\ WorkerRest

\* doPendingFunctors, one at a time.
NextFunctor(kind) ==
  looping /\ functors # <<>> /\ Head(functors).kind = kind /\ functors' = Tail(functors)

\* The weak pointer to the connection still locks.
Alive(t) == conn[t.fd].open /\ conn[t.fd].gen = t.gen

onAsyncResponse ==
  LET t == Head(functors).task IN
  /\ NextFunctor("response") /\ UNCHANGED tasks /\ LoopRest
  /\ IF Alive(t)
     THEN \E d \in Queued([conn[t.fd] EXCEPT !.inFlight = FALSE], <<t.gen, t.request>>, ~t.keepAlive) : ConnTo(t.fd, d)
     ELSE UNCHANGED conn

\* main: stop accepting in the loop and wait, stop the workers and join them, then
\* close the connections in the loop and quit.
ShutdownRest == UNCHANGED <<tasks, running, ended, requests>>
requestShutdown ==
  /\ main = "serving" /\ main' = "accepting"
  /\ runInLoop([kind |-> "stopAccepting"])
  /\ UNCHANGED <<conn, stopping, accepting, looping>> /\ ShutdownRest
stopAcceptingInLoop ==
  /\ NextFunctor("stopAccepting") /\ accepting' = FALSE /\ main' = "stopping"
  /\ UNCHANGED <<conn, stopping, looping>> /\ ShutdownRest

\* Mutant: the workers are not told to stop.
JoinWithoutStopping ==
  /\ main = "stopping" /\ main' = "workers"
  /\ UNCHANGED <<conn, stopping, functors, accepting, looping>> /\ ShutdownRest

\* ThreadPool::stop sets stopping_ and wakes the workers ...
stopPool ==
  /\ main = "stopping" /\ main' = "workers" /\ stopping' = TRUE
  /\ UNCHANGED <<conn, functors, accepting, looping>> /\ ShutdownRest

\* ... and joins them.
stopWorkers ==
  /\ main = "workers" /\ ended = Workers
  /\ main' = "loop" /\ runInLoop([kind |-> "stop"])
  /\ UNCHANGED <<conn, stopping, accepting, looping>> /\ ShutdownRest
stopInLoop ==
  /\ NextFunctor("stop") /\ looping' = FALSE /\ main' = "done"
  /\ conn' = [f \in Fds |-> NewConn(conn[f].gen, FALSE)]
  /\ UNCHANGED <<stopping, accepting>> /\ ShutdownRest

functorStep == onAsyncResponse \/ stopAcceptingInLoop \/ stopInLoop
mainStep == stopPool \/ stopWorkers
workerStep(w) == take(w) \/ respond(w) \/ runReturns(w)

HttpNext ==
  \/ \E f \in Fds : \/ onRead(f) \/ onWritePart(f) \/ onWrite(f) \/ onError(f)
                    \/ onConnection(f) \/ send(f) \/ shutdownWrite(f)
  \/ \E w \in Workers : workerStep(w)
  \/ functorStep \/ requestShutdown \/ mainStep

HttpSpec == HttpInit /\ [][HttpNext]_httpVars

-----------------------------------------------------------------------------
\* Whatever the order in which workers finish, and whoever had the descriptor before:
\* a connection's answers are those of its own requests, one each and in order; a
\* refusal of the server can only be the last (http_server.cc:45-129).
AnswersMatchRequests ==
  \A f \in Fds : LET all == conn[f].delivered \o conn[f].output IN
    \A i \in DOMAIN all : all[i] = <<conn[f].gen, i>> \/ (all[i] = Refusal /\ i = Len(all))

\* When the loop has quit every task was run and every response callback with it
\* (ecommerce_api_main.cc:641-655, "so their response callbacks are not lost").
CallbacksAreRun ==
  ~looping => tasks = <<>> /\ functors = <<>> /\ \A w \in Workers : running[w] = NoTask

\* A request in the input buffer does not wait for the client to send more: it is
\* handed on once the answers before it are written (http_server.cc:146-149).  One
\* that the workers have is answered.  Or the connection closes; all this also when
\* the server shuts down meanwhile (thread_pool.h:60-72, http_server.cc:107-113).
RequestsAreAnswered ==
  \A f \in Fds : /\ conn[f].read > conn[f].parsed ~> conn[f].read = conn[f].parsed
                 /\ conn[f].inFlight ~> ~conn[f].inFlight

\* A requested shutdown comes to its end (ecommerce_api_main.cc:640-655).
ShutdownEnds == main = "accepting" ~> main = "done"
=============================================================================
