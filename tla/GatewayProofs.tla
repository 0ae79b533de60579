--------------------------- MODULE GatewayProofs ----------------------------
(***************************************************************************)
(* The HTTP server, for any number of connections, workers and requests    *)
(* and any capacity of the queue, and the connection pools it leads to.    *)
(*                                                                         *)
(* That answers match requests rests on AnswersInv: a connection that is   *)
(* to be closed neither reads nor has a request at the workers, any other  *)
(* one has parsed as many requests as it has answers, one more while a     *)
(* request is at the workers; and of all tasks queued, running or answered *)
(* only one belongs to a connection, whoever has its descriptor.           *)
(*                                                                         *)
(* CallbacksAreRun is not inductive: that no functor is left when the loop *)
(* quits depends on the functor that quits being the last one ever queued. *)
(* ShutdownInv says so, and that the pool is stopped before its workers    *)
(* are joined and empty from then on.                                      *)
(*                                                                         *)
(* The pools come last, in a section of their own.                         *)
(***************************************************************************)
EXTENDS HttpServer, ConnectionPool, Counting, TLAPS

-----------------------------------------------------------------------------
(* Answers.                                                                *)

Task == [fd : Fds, gen : Nat, request : Nat, keepAlive : BOOLEAN]
Response(t) == [kind |-> "response", task |-> t]
Responses == [kind : {"response"}, task : Task]
Functors == Responses \cup [kind : {"stopAccepting", "stop"}]
Answer == Nat \X Nat

ConnType ==
  [gen : Nat, open : BOOLEAN, arrived : Nat, read : Nat, parsed : Nat, eof : BOOLEAN,
   reading : BOOLEAN, writing : BOOLEAN, inFlight : BOOLEAN, closeAfter : BOOLEAN,
   output : Seq(Answer), delivered : Seq(Answer)]

All(c) == c.delivered \o c.output

\* The i-th of the answers is right; one that is not is the refusal at the end.
Matches(gen, s) ==
  \A i \in 1..Len(s) : s[i] = <<gen, i>> \/ (s[i] = Refusal /\ i = Len(s))

\* Every answer is that of a request.
Exact(gen, s) == \A i \in 1..Len(s) : s[i] = <<gen, i>>

ConnInv(c) ==
  /\ c \in ConnType /\ Matches(c.gen, All(c))
  /\ (c.open /\ c.closeAfter) => ~c.reading /\ ~c.inFlight
  /\ ~c.closeAfter => /\ Exact(c.gen, All(c))
                      /\ c.parsed = Len(All(c)) + IF c.inFlight THEN 1 ELSE 0

Running(t) == \E w \in Workers : running[w] = t /\ t # NoTask
Pending(t) == t \in Range(tasks) \/ Running(t) \/ Response(t) \in Range(functors)

\* A member of T occurs in s once.
Once(s, T) == \A i, j \in DOMAIN s : (s[i] = s[j] /\ s[i] \in T) => i = j

\* Every task that is queued, running or answered is in one place only.
PlacesInv ==
  /\ Once(tasks, Task) /\ Once(functors, Responses)
  /\ \A v, w \in Workers : (running[v] = running[w] /\ running[v] # NoTask) => v = w
  /\ \A t \in Task : /\ ~(t \in Range(tasks) /\ Running(t))
                     /\ ~(t \in Range(tasks) /\ Response(t) \in Range(functors))
                     /\ ~(Running(t) /\ Response(t) \in Range(functors))

\* It belongs to the connection that has its descriptor, which then waits for it, or
\* to an earlier one; no two belong to the same.
TaskInv ==
  /\ \A t \in Task : Pending(t) =>
       /\ t.gen <= conn[t.fd].gen
       /\ Alive(t) => conn[t.fd].inFlight /\ t.request = conn[t.fd].parsed
  /\ \A s, t \in Task : (Pending(s) /\ Pending(t) /\ s.fd = t.fd /\ s.gen = t.gen) => s = t

AnswerTypes ==
  /\ conn = [f \in Fds |-> conn[f]] /\ tasks \in Seq(Task) /\ functors \in Seq(Functors)
  /\ running \in [Workers -> Task \cup {NoTask}]

AnswersInv ==
  AnswerTypes /\ (\A f \in Fds : ConnInv(conn[f])) /\ PlacesInv /\ TaskInv


\* A sequence that grows ...
LEMMA OnceAppend ==
  ASSUME NEW S, NEW T, NEW s \in Seq(S), NEW x \in S, Once(s, T), x \in T => x \notin Range(s)
  PROVE  /\ Append(s, x) \in Seq(S) /\ Once(Append(s, x), T)
         /\ Range(Append(s, x)) = Range(s) \cup {x}
<1> DEFINE a == Append(s, x)
<1>1. /\ a \in Seq(S) /\ Len(s) \in Nat /\ DOMAIN s = 1..Len(s)
      /\ DOMAIN a = 1..(Len(s) + 1) /\ a[Len(s) + 1] = x /\ \A i \in 1..Len(s) : a[i] = s[i]
  OBVIOUS
<1> HIDE DEF a
<1>2. Range(a) \subseteq Range(s) \cup {x}
  <2> SUFFICES ASSUME NEW i \in DOMAIN a PROVE a[i] \in Range(s) \cup {x}
    BY Zenon DEF Range
  <2>1. (i \in DOMAIN s /\ a[i] = s[i]) \/ a[i] = x
    BY <1>1
  <2> QED
    BY <2>1, Zenon DEF Range
<1>3. Range(s) \cup {x} \subseteq Range(a)
  <2>1. ASSUME NEW i \in DOMAIN s PROVE s[i] \in Range(a)
    <3>1. i \in DOMAIN a /\ a[i] = s[i]
      BY <1>1
    <3> QED
      BY <3>1, Zenon DEF Range
  <2>2. x \in Range(a)
    <3>1. Len(s) + 1 \in DOMAIN a /\ a[Len(s) + 1] = x
      BY <1>1
    <3> QED
      BY <3>1, Zenon DEF Range
  <2> QED
    BY <2>1, <2>2, Zenon DEF Range
<1>4. Once(a, T)
  <2>1. x \in T => \A i \in 1..Len(s) : s[i] # x
    BY <1>1, Zenon DEF Range
  <2> QED
    BY <1>1, <2>1 DEF Once
<1> QED
  BY <1>1, <1>2, <1>3, <1>4, Zenon DEF a

\* ... and one that loses its head.
LEMMA OnceTail ==
  ASSUME NEW S, NEW T, NEW s \in Seq(S), s # <<>>, Once(s, T)
  PROVE  /\ Head(s) \in S /\ Tail(s) \in Seq(S) /\ Once(Tail(s), T)
         /\ Range(s) = {Head(s)} \cup Range(Tail(s))
         /\ Head(s) \in T => Head(s) \notin Range(Tail(s))
<1> DEFINE t == Tail(s)
           h == Head(s)
<1>1. /\ h \in S /\ t \in Seq(S) /\ Len(s) \in Nat /\ Len(s) >= 1 /\ DOMAIN s = 1..Len(s)
      /\ DOMAIN t = 1..(Len(s) - 1) /\ h = s[1] /\ \A i \in 1..(Len(s) - 1) : t[i] = s[i + 1]
  OBVIOUS
<1> HIDE DEF t, h
<1>2. \A i \in DOMAIN t : i + 1 \in DOMAIN s /\ t[i] = s[i + 1] /\ i + 1 # 1
  BY <1>1
<1>3. Range(s) \subseteq {h} \cup Range(t)
  <2> SUFFICES ASSUME NEW i \in DOMAIN s PROVE s[i] = h \/ s[i] \in Range(t)
    BY Zenon DEF Range
  <2>1. s[i] = h \/ (i - 1 \in DOMAIN t /\ t[i - 1] = s[i])
    BY <1>1
  <2> QED
    BY <2>1, Zenon DEF Range
<1>4. {h} \cup Range(t) \subseteq Range(s)
  <2>1. 1 \in DOMAIN s
    BY <1>1
  <2> QED
    BY <1>1, <1>2, <2>1, Zenon DEF Range
<1>5. Once(t, T)
  <2> SUFFICES ASSUME NEW i \in DOMAIN t, NEW j \in DOMAIN t, t[i] = t[j], t[i] \in T PROVE i = j
    BY Zenon DEF Once
  <2>1. i + 1 = j + 1
    BY <1>2, Zenon DEF Once
  <2> QED
    BY <1>1, <2>1
<1>6. h \in T => h \notin Range(t)
  <2> SUFFICES ASSUME h \in T, NEW i \in DOMAIN t, t[i] = h PROVE FALSE
    BY Zenon DEF Range
  <2>1. 1 \in DOMAIN s
    BY <1>1
  <2>2. i + 1 = 1
    BY <1>1, <1>2, <2>1, Zenon DEF Once
  <2> QED
    BY <1>2, <2>2, Zenon
<1> QED
  BY <1>1, <1>3, <1>4, <1>5, <1>6, Zenon DEF t, h

\* Two sequences, one after the other.
LEMMA Joined ==
  ASSUME NEW S, NEW s \in Seq(S), NEW t \in Seq(S)
  PROVE  /\ s \o t \in Seq(S) /\ Len(s \o t) = Len(s) + Len(t) /\ Len(s) \in Nat /\ Len(t) \in Nat
         /\ \A i \in 1..Len(s) : (s \o t)[i] = s[i]
         /\ \A i \in 1..Len(t) : (s \o t)[Len(s) + i] = t[i]
  OBVIOUS

\* The answers, when one more waits in the output.
LEMMA JoinGrows ==
  ASSUME NEW S, NEW a \in Seq(S), NEW b \in Seq(S), NEW x \in S
  PROVE  /\ Len(a \o b) = Len(a) + Len(b) /\ Len(a \o Append(b, x)) = Len(a) + Len(b) + 1
         /\ Len(a) \in Nat /\ Len(b) \in Nat
         /\ \A i \in 1..(Len(a) + Len(b)) : (a \o Append(b, x))[i] = (a \o b)[i]
         /\ (a \o Append(b, x))[Len(a) + Len(b) + 1] = x
<1>1. Append(b, x) \in Seq(S) /\ Len(Append(b, x)) = Len(b) + 1 /\ Append(b, x)[Len(b) + 1] = x
  OBVIOUS
<1>2. \A i \in 1..Len(b) : Append(b, x)[i] = b[i]
  OBVIOUS
<1> QED
  BY <1>1, <1>2

\* ... when some of them leave the output for the socket ...
LEMMA JoinParts ==
  ASSUME NEW S, NEW a \in Seq(S), NEW b \in Seq(S), NEW n \in 0..Len(b)
  PROVE  LET s == (a \o SubSeq(b, 1, n)) \o SubSeq(b, n + 1, Len(b)) IN
         Len(s) = Len(a \o b) /\ \A i \in 1..Len(a \o b) : s[i] = (a \o b)[i]
<1> DEFINE x == SubSeq(b, 1, n)
           y == SubSeq(b, n + 1, Len(b))
<1>0. Len(a) \in Nat /\ Len(b) \in Nat /\ n \in Nat /\ n <= Len(b) /\ Len(a \o b) = Len(a) + Len(b)
  OBVIOUS
<1>1. x \in Seq(S) /\ Len(x) = n /\ \A i \in 1..n : x[i] = b[i]
  OBVIOUS
<1>2. y \in Seq(S) /\ Len(y) = Len(b) - n /\ \A i \in 1..(Len(b) - n) : y[i] = b[n + i]
  OBVIOUS
<1> HIDE DEF x, y
<1>z. PICK z : z = a \o x
  BY Zenon
<1>3. /\ z \in Seq(S) /\ Len(z) = Len(a) + Len(x) /\ \A i \in 1..Len(a) : z[i] = a[i]
      /\ \A i \in 1..Len(x) : z[Len(a) + i] = x[i]
  <2>1. x \in Seq(S)
    BY <1>1, Zenon
  <2>2. /\ a \o x \in Seq(S) /\ Len(a \o x) = Len(a) + Len(x)
        /\ \A i \in 1..Len(a) : (a \o x)[i] = a[i]
        /\ \A i \in 1..Len(x) : (a \o x)[Len(a) + i] = x[i]
    BY <2>1
  <2> QED
    BY <1>z, <2>2, Zenon
<1>4. /\ Len(z \o y) = Len(z) + Len(y) /\ \A i \in 1..Len(z) : (z \o y)[i] = z[i]
      /\ \A i \in 1..Len(y) : (z \o y)[Len(z) + i] = y[i]
  <2>1. z \in Seq(S) /\ y \in Seq(S)
    BY <1>2, <1>3, Zenon
  <2> QED
    BY <2>1
<1>5. ASSUME NEW i \in 1..(Len(a) + Len(b)) PROVE (z \o y)[i] = (a \o b)[i]
  <2>0. i <= Len(a) \/ (Len(a) < i /\ i <= Len(a) + n) \/ Len(a) + n < i
    BY <1>0
  <2>1. CASE i <= Len(a)
    <3>1. (z \o y)[i] = z[i] /\ z[i] = a[i] /\ (a \o b)[i] = a[i]
      BY <1>0, <1>1, <1>3, <1>4, <2>1
    <3> QED
      BY <3>1, Zenon
  <2>2. CASE Len(a) < i /\ i <= Len(a) + n
    <3>1. i - Len(a) \in 1..n /\ i \in 1..Len(z) /\ Len(a) + (i - Len(a)) = i
      BY <1>0, <1>1, <1>3, <2>2
    <3>2. (z \o y)[i] = z[i] /\ z[i] = x[i - Len(a)] /\ x[i - Len(a)] = b[i - Len(a)]
      BY <1>1, <1>3, <1>4, <3>1, Zenon
    <3>3. (a \o b)[i] = b[i - Len(a)]
      BY <1>0, <2>2
    <3> QED
      BY <3>2, <3>3, Zenon
  <2>3. CASE Len(a) + n < i
    <3>1. i - Len(z) \in 1..Len(y) /\ Len(z) + (i - Len(z)) = i /\ n + (i - Len(z)) = i - Len(a)
      BY <1>0, <1>1, <1>2, <1>3, <2>3
    <3>2. (z \o y)[i] = y[i - Len(z)] /\ y[i - Len(z)] = b[n + (i - Len(z))]
      BY <1>2, <1>4, <3>1, Zenon
    <3>3. (a \o b)[i] = b[i - Len(a)]
      BY <1>0, <2>3
    <3> QED
      BY <3>1, <3>2, <3>3, Zenon
  <2> QED
    BY <2>0, <2>1, <2>2, <2>3, Zenon
<1>6. Len(z \o y) = Len(a \o b)
  BY <1>0, <1>1, <1>2, <1>3, <1>4
<1> QED
  BY <1>0, <1>5, <1>6, <1>z, Zenon DEF x, y

\* ... and when a refusal replaces all that wait.
LEMMA JoinLast ==
  ASSUME NEW S, NEW a \in Seq(S), NEW b \in Seq(S), NEW x \in S
  PROVE  /\ Len(a \o b) >= Len(a) /\ Len(a \o <<x>>) = Len(a) + 1 /\ Len(a) \in Nat
         /\ Len(a \o b) \in Nat
         /\ \A i \in 1..Len(a) : (a \o <<x>>)[i] = (a \o b)[i]
         /\ (a \o <<x>>)[Len(a) + 1] = x
  OBVIOUS

\* A connection that sends or moves answers it has.
LEMMA SameAnswers ==
  ASSUME NEW c, ConnInv(c), NEW d \in ConnType,
         Len(All(d)) = Len(All(c)), \A i \in 1..Len(All(c)) : All(d)[i] = All(c)[i],
         d.gen = c.gen, d.closeAfter = c.closeAfter, d.parsed = c.parsed, d.inFlight = c.inFlight,
         (d.open /\ d.closeAfter) => (c.open /\ ~d.reading)
  PROVE  ConnInv(d)
<1>1. Matches(d.gen, All(d))
  BY Zenon DEF ConnInv, Matches
<1>2. ~d.closeAfter => Exact(d.gen, All(d))
  BY Zenon DEF ConnInv, Exact
<1> QED
  BY <1>1, <1>2, Zenon DEF ConnInv

\* A closed or a new connection.
LEMMA NewAnswers ==
  ASSUME NEW gen \in Nat, NEW open \in BOOLEAN
  PROVE  /\ ConnInv(NewConn(gen, open)) /\ NewConn(gen, open).gen = gen
         /\ NewConn(gen, open).open = open
<1> DEFINE c == NewConn(gen, open)
<1>1. c \in ConnType /\ c.gen = gen /\ c.open = open /\ ~c.closeAfter /\ ~c.inFlight /\ c.parsed = 0
  BY DEF NewConn, ConnType, Answer
<1>2. Len(All(c)) = 0
  BY DEF NewConn, All
<1> HIDE DEF c
<1>3. Matches(c.gen, All(c)) /\ Exact(c.gen, All(c))
  BY <1>2 DEF Matches, Exact
<1> QED
  BY <1>1, <1>2, <1>3 DEF ConnInv, c

\* queueResponse on a connection that is not to be closed and has no request at the
\* workers.
LEMMA QueuedAnswer ==
  ASSUME NEW c \in ConnType, ~c.closeAfter, ~c.inFlight, Exact(c.gen, All(c)),
         NEW answer \in Answer, NEW last \in BOOLEAN,
         \/ answer = <<c.gen, Len(All(c)) + 1>> /\ c.parsed = Len(All(c)) + 1
         \/ answer = Refusal /\ last,
         NEW d \in Queued(c, answer, last)
  PROVE  ConnInv(d) /\ d.gen = c.gen /\ d.open = c.open
<1>1. PICK full \in BOOLEAN :
        LET closes == c.closeAfter \/ last \/ full IN
        d = [c EXCEPT !.output = IF full THEN <<Refusal>> ELSE Append(c.output, answer),
                      !.closeAfter = closes, !.reading = c.reading /\ ~closes, !.writing = TRUE]
  BY Zenon DEF Queued, ConnType
<1>2. Refusal \in Answer
  BY Zenon DEF Refusal, Answer
<1>3. /\ d.gen = c.gen /\ d.open = c.open /\ d.parsed = c.parsed /\ d.inFlight = c.inFlight
      /\ d.closeAfter = (last \/ full) /\ (d.closeAfter => ~d.reading)
      /\ d.delivered = c.delivered /\ d.output = IF full THEN <<Refusal>> ELSE Append(c.output, answer)
  BY <1>1, Zenon DEF ConnType
<1>4. c.output \in Seq(Answer) /\ c.delivered \in Seq(Answer) /\ c.parsed \in Nat
  BY Zenon DEF ConnType
<1>5. d \in ConnType
  <2>1. d.output \in Seq(Answer)
    BY <1>2, <1>3, <1>4
  <2> QED
    BY <1>1, <2>1, Zenon DEF ConnType
<1>6. CASE ~full
  <2>1. /\ Len(All(d)) = Len(All(c)) + 1 /\ Len(All(c)) \in Nat
        /\ \A i \in 1..Len(All(c)) : All(d)[i] = All(c)[i]
        /\ All(d)[Len(All(c)) + 1] = answer
    <3> DEFINE a == c.delivered
               b == c.output
    <3>1. All(d) = a \o Append(b, answer) /\ All(c) = a \o b
      BY <1>3, <1>6, Zenon DEF All
    <3>2. a \in Seq(Answer) /\ b \in Seq(Answer)
      BY <1>4, Zenon
    <3> HIDE DEF a, b
    <3> QED
      BY <3>1, <3>2, JoinGrows
  <2>2. Matches(d.gen, All(d))
    BY <1>3, <2>1 DEF Matches, Exact
  <2>3. ~last => Exact(d.gen, All(d)) /\ d.parsed = Len(All(d))
    BY <1>3, <2>1 DEF Exact
  <2> QED
    BY <1>3, <1>5, <1>6, <2>2, <2>3 DEF ConnInv
<1>7. CASE full
  <2>1. /\ Len(All(d)) = Len(c.delivered) + 1 /\ Len(c.delivered) \in Nat
        /\ Len(All(c)) >= Len(c.delivered) /\ Len(All(c)) \in Nat
        /\ \A i \in 1..Len(c.delivered) : All(d)[i] = All(c)[i]
        /\ All(d)[Len(c.delivered) + 1] = Refusal
    <3> DEFINE a == c.delivered
               b == c.output
    <3>1. All(d) = a \o <<Refusal>> /\ All(c) = a \o b
      BY <1>3, <1>7, Zenon DEF All
    <3>2. a \in Seq(Answer) /\ b \in Seq(Answer)
      BY <1>4, Zenon
    <3>3. /\ Len(All(d)) = Len(a) + 1 /\ Len(a) \in Nat
          /\ Len(All(c)) >= Len(a) /\ Len(All(c)) \in Nat
          /\ \A i \in 1..Len(a) : All(d)[i] = All(c)[i]
          /\ All(d)[Len(a) + 1] = Refusal
      <4> HIDE DEF a, b
      <4> QED
        BY <1>2, <3>1, <3>2, JoinLast
    <3> QED
      BY <3>3, Zenon
  <2>2. Matches(d.gen, All(d))
    BY <1>3, <2>1 DEF Matches, Exact
  <2> QED
    BY <1>3, <1>5, <1>7, <2>2, Zenon DEF ConnInv
<1> QED
  BY <1>6, <1>7, Zenon


\* What ConnTo does.
LEMMA ConnAt ==
  ASSUME AnswerTypes, NEW f \in Fds, NEW d, ConnTo(f, d)
  PROVE  /\ conn' = [g \in Fds |-> conn'[g]] /\ conn'[f] = d
         /\ \A g \in Fds \ {f} : conn'[g] = conn[g]
<1>1. conn' = [conn EXCEPT ![f] = d] /\ DOMAIN conn = Fds
  BY Zenon DEF ConnTo, AnswerTypes
<1> QED
  BY <1>1, Zenon

\* A connection changes while no task moves.
LEMMA ConnChanges ==
  ASSUME AnswersInv, NEW f \in Fds, NEW d, ConnInv(d), ConnTo(f, d),
         UNCHANGED <<tasks, functors, running>>, d.gen >= conn[f].gen,
         (d.open /\ d.gen = conn[f].gen) =>
           conn[f].open /\ (conn[f].inFlight => d.inFlight /\ d.parsed = conn[f].parsed)
  PROVE  AnswersInv'
<1> USE DEF AnswersInv
<1>1. /\ conn' = [g \in Fds |-> conn'[g]] /\ conn'[f] = d
      /\ \A g \in Fds \ {f} : conn'[g] = conn[g]
  BY ConnAt, Zenon
<1>2. AnswerTypes'
  BY <1>1, Zenon DEF AnswerTypes
<1>3. \A g \in Fds : ConnInv(conn'[g])
  BY <1>1, Zenon
<1>4. \A t : (Running(t)' <=> Running(t)) /\ (Pending(t)' <=> Pending(t))
  BY Zenon DEF Running, Pending
<1>5. PlacesInv'
  BY <1>4, Zenon DEF PlacesInv
<1>6. ASSUME NEW t \in Task, Pending(t)
      PROVE  /\ t.gen <= conn'[t.fd].gen
             /\ Alive(t)' => conn'[t.fd].inFlight /\ t.request = conn'[t.fd].parsed
  <2>1. /\ t.gen <= conn[t.fd].gen /\ t.fd \in Fds /\ t.gen \in Nat
        /\ Alive(t) => conn[t.fd].inFlight /\ t.request = conn[t.fd].parsed
    BY <1>6, Zenon DEF TaskInv, Task
  <2>2. CASE t.fd = f
    <3>1. conn[f].gen \in Nat /\ d.gen \in Nat
      BY Zenon DEF ConnInv, ConnType
    <3> QED
      BY <1>1, <2>1, <2>2, <3>1 DEF Alive
  <2>3. CASE t.fd # f
    BY <1>1, <2>1, <2>3, Zenon DEF Alive
  <2> QED
    BY <2>2, <2>3, Zenon
<1>7. TaskInv'
  BY <1>4, <1>6, Zenon DEF TaskInv
<1> QED
  BY <1>2, <1>3, <1>5, <1>7, Zenon

\* ... when it is closed ...
LEMMA CloseKeeps ==
  ASSUME AnswersInv, NEW f \in Fds, close(f), UNCHANGED <<tasks, functors, running>>
  PROVE  AnswersInv'
<1>1. conn[f].gen \in Nat
  BY Zenon DEF AnswersInv, ConnInv, ConnType
<1>2. PICK d : d = NewConn(conn[f].gen, FALSE)
  BY Zenon
<1>3. ConnInv(d) /\ d.gen = conn[f].gen /\ ~d.open
  BY <1>1, <1>2, NewAnswers, Zenon
<1>4. d.gen >= conn[f].gen
  BY <1>1, <1>3
<1>5. ConnTo(f, d)
  BY <1>2, Zenon DEF close
<1> QED
  BY <1>3, <1>4, <1>5, ConnChanges, Zenon

\* ... and when it keeps what the tasks depend on.
LEMMA TasksKept ==
  ASSUME AnswersInv, NEW f \in Fds, NEW c, c = conn[f], NEW d, ConnInv(d), ConnTo(f, d),
         UNCHANGED <<tasks, functors, running>>,
         d.gen = c.gen, d.open = c.open, d.inFlight = c.inFlight, d.parsed = c.parsed
  PROVE  AnswersInv'
<1>1. c.gen \in Nat
  BY Zenon DEF AnswersInv, ConnInv, ConnType
<1>2. d.gen >= conn[f].gen
  BY <1>1
<1> QED
  BY <1>2, ConnChanges, Zenon

\* A connection that waits for none hands a request to the workers.
LEMMA Submitted ==
  ASSUME AnswersInv, NEW f \in Fds, conn[f].open, ~conn[f].inFlight,
         NEW d, ConnInv(d), ConnTo(f, d), d.gen = conn[f].gen, d.inFlight,
         NEW keepAlive \in BOOLEAN,
         tasks' = Append(tasks, [fd |-> f, gen |-> d.gen, request |-> d.parsed, keepAlive |-> keepAlive]),
         UNCHANGED <<functors, running>>
  PROVE  AnswersInv'
<1> USE DEF AnswersInv
<1>0. /\ conn' = [g \in Fds |-> conn'[g]] /\ conn'[f] = d
      /\ \A g \in Fds \ {f} : conn'[g] = conn[g]
  BY ConnAt, Zenon
<1> PICK n : n = [fd |-> f, gen |-> d.gen, request |-> d.parsed, keepAlive |-> keepAlive]
  BY Zenon
<1>1. n \in Task /\ n.fd = f /\ n.gen = d.gen /\ n.request = d.parsed /\ tasks' = Append(tasks, n)
  BY Zenon DEF Task, ConnInv, ConnType
<1>2. \A t \in Task : Pending(t) => ~(t.fd = f /\ t.gen = d.gen)
  BY Zenon DEF TaskInv, Alive
<1>3. ~Pending(n)
  BY <1>1, <1>2, Zenon
<1>4. /\ tasks' \in Seq(Task) /\ Once(tasks', Task)
      /\ Range(tasks') = Range(tasks) \cup {n}
  BY <1>1, <1>3, OnceAppend DEF AnswerTypes, PlacesInv, Pending
<1>5. AnswerTypes'
  BY <1>0, <1>4, Zenon DEF AnswerTypes
<1>6. \A g \in Fds : ConnInv(conn'[g])
  BY <1>0, Zenon
<1>7. \A t : (Running(t)' <=> Running(t)) /\ (Pending(t)' <=> (t = n \/ Pending(t)))
  BY <1>4, Zenon DEF Running, Pending
<1>8. PlacesInv'
  BY <1>3, <1>4, <1>7, Zenon DEF PlacesInv, Pending
<1>9. ASSUME NEW t \in Task, Pending(t)'
      PROVE  /\ t.gen <= conn'[t.fd].gen
             /\ Alive(t)' => conn'[t.fd].inFlight /\ t.request = conn'[t.fd].parsed
  <2>0. d.gen \in Nat /\ conn[f].gen \in Nat
    BY Zenon DEF ConnInv, ConnType
  <2>1. CASE t = n
    BY <1>0, <1>1, <2>0, <2>1
  <2>2. CASE t # n
    <3>1. /\ Pending(t) /\ t.gen <= conn[t.fd].gen /\ t.fd \in Fds /\ t.gen \in Nat
          /\ Alive(t) => conn[t.fd].inFlight /\ t.request = conn[t.fd].parsed
      BY <1>7, <1>9, <2>2, Zenon DEF TaskInv, Task
    <3>2. CASE t.fd = f
      BY <1>0, <1>2, <3>1, <3>2, Zenon DEF Alive
    <3>3. CASE t.fd # f
      BY <1>0, <3>1, <3>3, Zenon DEF Alive
    <3> QED
      BY <3>2, <3>3, Zenon
  <2> QED
    BY <2>1, <2>2, Zenon
<1>10. ASSUME NEW s \in Task, NEW t \in Task, Pending(s)', Pending(t)', s.fd = t.fd, s.gen = t.gen
       PROVE  s = t
  BY <1>1, <1>2, <1>7, <1>10 DEF TaskInv
<1>11. TaskInv'
  BY <1>9, <1>10, Zenon DEF TaskInv
<1> QED
  BY <1>5, <1>6, <1>8, <1>11, Zenon

\* The parsing loop, on a connection that may read.
LEMMA ParseKeeps ==
  ASSUME AnswersInv, NEW f \in Fds, conn[f].open, ~conn[f].inFlight,
         NEW c, ConnInv(c), c.open, ~c.inFlight, ~c.closeAfter, c.gen = conn[f].gen, Parse(f, c),
         UNCHANGED <<functors, running>>
  PROVE  AnswersInv'
<1>0. c \in ConnType /\ conn[f].gen \in Nat /\ Exact(c.gen, All(c)) /\ c.parsed = Len(All(c))
  BY DEF ConnInv, AnswersInv, ConnType
<1>1. PICK taken : taken = [c EXCEPT !.parsed = c.parsed + 1, !.reading = FALSE]
  BY Zenon
<1>2. /\ taken \in ConnType /\ taken.open /\ ~taken.inFlight /\ ~taken.closeAfter
      /\ taken.gen = c.gen /\ taken.parsed = c.parsed + 1 /\ All(taken) = All(c)
  <2>1. c.parsed + 1 \in Nat
    BY <1>0 DEF ConnType
  <2>2. taken \in ConnType
    BY <1>0, <1>1, <2>1, Zenon DEF ConnType
  <2>3. /\ taken.open = c.open /\ taken.inFlight = c.inFlight /\ taken.closeAfter = c.closeAfter
        /\ taken.gen = c.gen /\ taken.parsed = c.parsed + 1
        /\ taken.output = c.output /\ taken.delivered = c.delivered
    BY <1>0, <1>1, Zenon DEF ConnType
  <2> QED
    BY <2>2, <2>3, Zenon DEF All
<1>3. CASE UNCHANGED tasks /\ ConnTo(f, c)
  BY <1>0, <1>3, ConnChanges
<1>4. ASSUME NEW e \in {c, taken}, NEW d \in Queued(e, Refusal, TRUE), ConnTo(f, d), UNCHANGED tasks
      PROVE  AnswersInv'
  <2>1. Refusal \in Answer
    BY Zenon DEF Refusal, Answer
  <2>2. e \in ConnType /\ e.open /\ ~e.inFlight /\ ~e.closeAfter /\ e.gen = c.gen /\ Exact(e.gen, All(e))
    BY <1>0, <1>2, Zenon
  <2>3. ConnInv(d) /\ d.gen = e.gen /\ d.open = e.open
    BY <1>4, <2>1, <2>2, QueuedAnswer, Zenon
  <2> QED
    BY <1>0, <1>4, <2>2, <2>3, ConnChanges
<1>5. ASSUME NEW keepAlive \in BOOLEAN, ConnTo(f, [taken EXCEPT !.inFlight = TRUE]),
             tasks' = Append(tasks, [fd |-> f, gen |-> c.gen, request |-> taken.parsed, keepAlive |-> keepAlive])
      PROVE  AnswersInv'
  <2>1. PICK d : d = [taken EXCEPT !.inFlight = TRUE]
    BY Zenon
  <2>2. /\ d \in ConnType /\ d.inFlight /\ d.gen = c.gen /\ d.parsed = c.parsed + 1 /\ ~d.closeAfter
        /\ All(d) = All(c)
    BY <1>2, <2>1, Zenon DEF ConnType, All
  <2>3. ConnInv(d)
    BY <1>0, <2>2, Zenon DEF ConnInv
  <2>4. ConnTo(f, d) /\ tasks' = Append(tasks, [fd |-> f, gen |-> d.gen, request |-> d.parsed, keepAlive |-> keepAlive])
    BY <1>2, <1>5, <2>1, <2>2, Zenon
  <2> QED
    BY <2>2, <2>3, <2>4, Submitted, Zenon
<1> QED
  BY <1>1, <1>3, <1>4, <1>5, Zenon DEF Parse


\* onRead: an end of file, or what has arrived is parsed.
LEMMA ReadKeeps ==
  ASSUME AnswersInv, NEW f \in Fds, conn[f].open, ~conn[f].inFlight,
         NEW c, ConnInv(c), c.open, ~c.inFlight, ~c.closeAfter, c.gen = conn[f].gen, Read(f, c),
         UNCHANGED <<functors, running>>
  PROVE  AnswersInv'
<1>0. c \in ConnType /\ conn[f].gen \in Nat
  BY Zenon DEF ConnInv, AnswersInv, ConnType
<1>1. CASE close(f) /\ UNCHANGED tasks
  BY <1>1, CloseKeeps, Zenon
<1>2. CASE Parse(f, [c EXCEPT !.read = c.arrived])
  <2>1. PICK d : d = [c EXCEPT !.read = c.arrived]
    BY Zenon
  <2>2. d \in ConnType
    BY <1>0, <2>1, Zenon DEF ConnType
  <2>3. /\ d.open = c.open /\ d.inFlight = c.inFlight /\ d.closeAfter = c.closeAfter
        /\ d.gen = c.gen /\ d.parsed = c.parsed /\ d.reading = c.reading
        /\ d.output = c.output /\ d.delivered = c.delivered
    BY <1>0, <2>1, Zenon DEF ConnType
  <2>4. ConnInv(d)
    BY <2>2, <2>3, Zenon DEF ConnInv, All
  <2> QED
    BY <1>2, <2>1, <2>3, <2>4, ParseKeeps, Zenon
<1> QED
  BY <1>1, <1>2, Zenon DEF Read

\* A read of an open connection that waits for a request.
LEMMA OnReadKeeps ==
  ASSUME AnswersInv, NEW f \in Fds, onRead(f)
  PROVE  AnswersInv'
<1>1. ConnInv(conn[f])
  BY Zenon DEF AnswersInv
<1>2. /\ conn[f].open /\ ~conn[f].inFlight /\ ~conn[f].closeAfter /\ Read(f, conn[f])
      /\ UNCHANGED <<functors, running>>
  BY <1>1, Zenon DEF onRead, MayRead, LoopRest, ConnInv
<1> QED
  BY <1>1, <1>2, ReadKeeps, Zenon

\* onWrite, when a part is sent ...
LEMMA OnWritePartKeeps ==
  ASSUME AnswersInv, NEW f \in Fds, onWritePart(f)
  PROVE  AnswersInv'
<1>c. PICK c : c = conn[f]
  BY Zenon
<1>0. ConnInv(c) /\ c \in ConnType /\ c.output \in Seq(Answer) /\ c.delivered \in Seq(Answer)
  BY <1>c, Zenon DEF AnswersInv, ConnInv, ConnType
<1>1. PICK n \in 1..(Len(c.output) - 1) :
        ConnTo(f, [c EXCEPT !.output = SubSeq(c.output, n + 1, Len(c.output)),
                            !.delivered = c.delivered \o SubSeq(c.output, 1, n)])
  BY <1>c, Zenon DEF onWritePart
<1>d. PICK d : d = [c EXCEPT !.output = SubSeq(c.output, n + 1, Len(c.output)),
                           !.delivered = c.delivered \o SubSeq(c.output, 1, n)]
  BY Zenon
<1>2. /\ SubSeq(c.output, n + 1, Len(c.output)) \in Seq(Answer)
      /\ c.delivered \o SubSeq(c.output, 1, n) \in Seq(Answer)
  BY <1>0
<1>3. d \in ConnType
  BY <1>0, <1>2, <1>d, Zenon DEF ConnType
<1>4. /\ d.open = c.open /\ d.inFlight = c.inFlight /\ d.closeAfter = c.closeAfter
      /\ d.gen = c.gen /\ d.parsed = c.parsed /\ d.reading = c.reading
      /\ d.output = SubSeq(c.output, n + 1, Len(c.output))
      /\ d.delivered = c.delivered \o SubSeq(c.output, 1, n)
  BY <1>0, <1>d, Zenon DEF ConnType
<1>5. Len(All(d)) = Len(All(c)) /\ \A i \in 1..Len(All(c)) : All(d)[i] = All(c)[i]
  <2> DEFINE a == c.delivered
             b == c.output
  <2>1. a \in Seq(Answer) /\ b \in Seq(Answer) /\ n \in 0..Len(b)
    BY <1>0
  <2>2. All(c) = a \o b /\ All(d) = (a \o SubSeq(b, 1, n)) \o SubSeq(b, n + 1, Len(b))
    BY <1>4, Zenon DEF All
  <2> HIDE DEF a, b
  <2>3. LET s == (a \o SubSeq(b, 1, n)) \o SubSeq(b, n + 1, Len(b)) IN
        Len(s) = Len(a \o b) /\ \A i \in 1..Len(a \o b) : s[i] = (a \o b)[i]
    BY <2>1, JoinParts, Zenon
  <2> QED
    BY <2>2, <2>3, Zenon
<1>6. (d.open /\ d.closeAfter) => (c.open /\ ~d.reading)
  BY <1>0, <1>4, Zenon DEF ConnInv
<1>7. ConnInv(d)
  BY <1>0, <1>3, <1>4, <1>5, <1>6, SameAnswers, Zenon
<1>8. UNCHANGED <<tasks, functors, running>> /\ ConnTo(f, d)
  BY <1>1, <1>d, Zenon DEF onWritePart, LoopRest
<1> QED
  BY <1>c, <1>4, <1>7, <1>8, TasksKept, Zenon

\* ... and when all is.
LEMMA OnWriteKeeps ==
  ASSUME AnswersInv, NEW f \in Fds, onWrite(f)
  PROVE  AnswersInv'
<1>c. PICK c : c = conn[f]
  BY Zenon
<1>0. /\ ConnInv(c) /\ c \in ConnType /\ c.output \in Seq(Answer) /\ c.delivered \in Seq(Answer)
      /\ c.gen \in Nat
  BY <1>c, Zenon DEF AnswersInv, ConnInv, ConnType
<1>d. PICK d : d = [c EXCEPT !.output = <<>>, !.delivered = c.delivered \o c.output, !.reading = TRUE]
  BY Zenon
<1>1. /\ c.open /\ UNCHANGED <<functors, running>>
      /\ \/ d.closeAfter /\ close(f) /\ UNCHANGED tasks
         \/ ~d.closeAfter /\ MayRead(d) /\ Read(f, d)
         \/ ~d.closeAfter /\ ConnTo(f, d) /\ UNCHANGED tasks
  BY <1>c, <1>d, Zenon DEF onWrite, LoopRest
<1>2. d \in ConnType
  <2>1. <<>> \in Seq(Answer) /\ c.delivered \o c.output \in Seq(Answer)
    BY <1>0
  <2> QED
    BY <1>0, <1>d, <2>1, Zenon DEF ConnType
<1>3. /\ d.open = c.open /\ d.inFlight = c.inFlight /\ d.closeAfter = c.closeAfter
      /\ d.gen = c.gen /\ d.parsed = c.parsed
      /\ d.output = <<>> /\ d.delivered = c.delivered \o c.output
  BY <1>0, <1>d, Zenon DEF ConnType
<1>4. Len(All(d)) = Len(All(c)) /\ \A i \in 1..Len(All(c)) : All(d)[i] = All(c)[i]
  <2> DEFINE a == c.delivered \o c.output
  <2>1. a \in Seq(Answer) /\ <<>> \in Seq(Answer) /\ Len(<<>>) = 0
    BY <1>0
  <2>2. All(c) = a /\ All(d) = a \o <<>>
    BY <1>3, Zenon DEF All
  <2> HIDE DEF a
  <2> QED
    BY <2>1, <2>2, Joined
<1>5. ~d.closeAfter => ConnInv(d)
  BY <1>0, <1>2, <1>3, <1>4, SameAnswers, Zenon
<1>6. CASE close(f) /\ UNCHANGED tasks
  BY <1>1, <1>6, CloseKeeps, Zenon
<1>7. CASE ~d.closeAfter /\ MayRead(d) /\ Read(f, d)
  BY <1>c, <1>1, <1>3, <1>5, <1>7, ReadKeeps, Zenon DEF MayRead
<1>8. CASE ~d.closeAfter /\ ConnTo(f, d) /\ UNCHANGED tasks
  BY <1>c, <1>1, <1>3, <1>5, <1>8, TasksKept, Zenon
<1> QED
  BY <1>1, <1>6, <1>7, <1>8, Zenon

\* The other steps of a connection and its client.
LEMMA ConnStepKeeps ==
  ASSUME AnswersInv, NEW f \in Fds,
         onError(f) \/ onConnection(f) \/ send(f) \/ shutdownWrite(f)
  PROVE  AnswersInv'
<1> PICK c : c = conn[f]
  BY Zenon
<1>0. ConnInv(c) /\ c \in ConnType /\ c.gen \in Nat /\ c.arrived \in Nat
  BY Zenon DEF AnswersInv, ConnInv, ConnType
<1>1. UNCHANGED <<tasks, functors, running>>
  BY Zenon DEF onError, onConnection, send, shutdownWrite, LoopRest
<1>2. CASE onError(f)
  BY <1>1, <1>2, CloseKeeps, Zenon DEF onError
<1>3. CASE onConnection(f)
  <2>1. c.gen + 1 \in Nat /\ c.gen + 1 >= c.gen /\ c.gen + 1 # c.gen
    BY <1>0
  <2> QED
    BY <1>1, <1>3, <2>1, NewAnswers, ConnChanges, Zenon DEF onConnection
<1>4. ASSUME NEW n \in Nat, NEW eof \in BOOLEAN, ConnTo(f, [c EXCEPT !.arrived = n, !.eof = eof])
      PROVE  AnswersInv'
  <2>1. PICK d : d = [c EXCEPT !.arrived = n, !.eof = eof]
    BY Zenon
  <2>2. d \in ConnType
    BY <1>0, <2>1, Zenon DEF ConnType
  <2>3. /\ d.open = c.open /\ d.inFlight = c.inFlight /\ d.closeAfter = c.closeAfter
        /\ d.gen = c.gen /\ d.parsed = c.parsed /\ d.reading = c.reading
        /\ d.output = c.output /\ d.delivered = c.delivered
    BY <1>0, <2>1, Zenon DEF ConnType
  <2>4. ConnInv(d)
    BY <1>0, <2>2, <2>3, Zenon DEF ConnInv, All
  <2> QED
    BY <1>1, <1>4, <2>1, <2>3, <2>4, TasksKept, Zenon
<1>5. CASE send(f)
  <2>1. ConnTo(f, [c EXCEPT !.arrived = c.arrived + 1, !.eof = c.eof]) /\ c.eof \in BOOLEAN
    BY <1>0, <1>5, Zenon DEF send, ConnType
  <2>2. c.arrived + 1 \in Nat
    BY <1>0
  <2> QED
    BY <1>4, <2>1, <2>2, Zenon
<1>6. CASE shutdownWrite(f)
  <2>1. ConnTo(f, [c EXCEPT !.arrived = c.arrived, !.eof = TRUE])
    BY <1>0, <1>6, Zenon DEF shutdownWrite, ConnType
  <2> QED
    BY <1>0, <1>4, <2>1, Zenon
<1> QED
  BY <1>2, <1>3, <1>5, <1>6, Zenon


\* A connection stays, and of the pending tasks some.
LEMMA FewerTasks ==
  ASSUME TaskInv, UNCHANGED conn, \A t \in Task : Pending(t)' => Pending(t)
  PROVE  TaskInv'
  BY Zenon DEF TaskInv, Alive

\* A worker takes the first task ...
LEMMA TakeKeeps ==
  ASSUME AnswersInv, NEW w \in Workers, take(w)
  PROVE  AnswersInv'
<1> USE DEF AnswersInv
<1>0. /\ UNCHANGED <<conn, functors>> /\ tasks # <<>> /\ tasks' = Tail(tasks)
      /\ running' = [running EXCEPT ![w] = Head(tasks)] /\ running \in [Workers -> Task \cup {NoTask}]
  BY Zenon DEF take, WorkerRest, AnswerTypes
<1>1. PICK h : h = Head(tasks)
  BY Zenon
<1>2. /\ h \in Task /\ tasks' \in Seq(Task) /\ Once(tasks', Task) /\ h \notin Range(tasks')
      /\ Range(tasks) = {h} \cup Range(tasks')
  BY <1>0, <1>1, OnceTail, Zenon DEF AnswerTypes, PlacesInv
<1>3. /\ running' \in [Workers -> Task \cup {NoTask}] /\ running'[w] = h
      /\ \A v \in Workers \ {w} : running'[v] = running[v]
  BY <1>0, <1>1, <1>2, Zenon
<1>4. \A t \in Task : Running(t)' => Running(t) \/ t = h
  BY <1>3, Zenon DEF Running
<1>5. \A t \in Task : Pending(t)' => Pending(t)
  BY <1>0, <1>2, <1>4, Zenon DEF Pending
<1>6. AnswerTypes'
  BY <1>0, <1>2, <1>3, Zenon DEF AnswerTypes
<1>7. PlacesInv'
  <2>1. Once(tasks, Task)' /\ Once(functors, Responses)'
    BY <1>0, <1>2, Zenon DEF PlacesInv
  <2>2. \A v \in Workers : running[v] = h => h = NoTask
    BY <1>2, Zenon DEF PlacesInv, Running
  <2>3. \A v, u \in Workers : (running'[v] = running'[u] /\ running'[v] # NoTask) => v = u
    BY <1>3, <2>2, Zenon DEF PlacesInv
  <2>4. ASSUME NEW t \in Task
        PROVE  /\ ~(t \in Range(tasks) /\ Running(t))' /\ ~(t \in Range(tasks) /\ Response(t) \in Range(functors))'
               /\ ~(Running(t) /\ Response(t) \in Range(functors))'
    BY <1>0, <1>2, <1>4, Zenon DEF PlacesInv
  <2> QED
    BY <2>1, <2>3, <2>4, Zenon DEF PlacesInv
<1>8. TaskInv'
  BY <1>0, <1>5, FewerTasks, Zenon
<1> QED
  BY <1>0, <1>6, <1>7, <1>8, Zenon

\* ... and answers it.
LEMMA RespondKeeps ==
  ASSUME AnswersInv, NEW w \in Workers, respond(w)
  PROVE  AnswersInv'
<1> USE DEF AnswersInv
<1>1. PICK h : h = running[w]
  BY Zenon
<1>0. /\ UNCHANGED <<conn, tasks>> /\ h # NoTask /\ h \in Task
      /\ functors' = Append(functors, Response(h))
      /\ running' = [running EXCEPT ![w] = NoTask] /\ running \in [Workers -> Task \cup {NoTask}]
  BY <1>1, Zenon DEF respond, runInLoop, WorkerRest, AnswerTypes, Response
<1>2. Response(h) \in Responses /\ \A t : Response(t) = Response(h) => t = h
  BY <1>0, Zenon DEF Response, Responses
<1>3. Running(h)
  BY <1>0, <1>1, Zenon DEF Running
<1>4. /\ functors' \in Seq(Functors) /\ Once(functors', Responses)
      /\ Range(functors') = Range(functors) \cup {Response(h)}
  <2>1. Response(h) \in Functors /\ Response(h) \notin Range(functors)
    BY <1>0, <1>2, <1>3, Zenon DEF Functors, PlacesInv
  <2> QED
    BY <1>0, <2>1, OnceAppend DEF AnswerTypes, PlacesInv
<1>5. /\ running' \in [Workers -> Task \cup {NoTask}] /\ running'[w] = NoTask
      /\ \A v \in Workers \ {w} : running'[v] = running[v]
  BY <1>0, Zenon
<1>6. \A t \in Task : Running(t)' => Running(t) /\ t # h
  BY <1>1, <1>5, Zenon DEF Running, PlacesInv
<1>7. \A t \in Task : Pending(t)' => Pending(t)
  BY <1>0, <1>2, <1>3, <1>4, <1>6, Zenon DEF Pending
<1>8. AnswerTypes'
  BY <1>0, <1>4, <1>5, Zenon DEF AnswerTypes
<1>9. PlacesInv'
  <2>1. Once(tasks, Task)' /\ Once(functors, Responses)'
    BY <1>0, <1>4, Zenon DEF PlacesInv
  <2>2. \A v, u \in Workers : (running'[v] = running'[u] /\ running'[v] # NoTask) => v = u
    BY <1>5, Zenon DEF PlacesInv
  <2>3. ASSUME NEW t \in Task
        PROVE  /\ ~(t \in Range(tasks) /\ Running(t))' /\ ~(t \in Range(tasks) /\ Response(t) \in Range(functors))'
               /\ ~(Running(t) /\ Response(t) \in Range(functors))'
    BY <1>0, <1>2, <1>3, <1>4, <1>6, Zenon DEF PlacesInv
  <2> QED
    BY <2>1, <2>2, <2>3, Zenon DEF PlacesInv
<1>10. TaskInv'
  BY <1>0, <1>7, FewerTasks, Zenon
<1> QED
  BY <1>0, <1>8, <1>9, <1>10, Zenon

\* The loop takes the first functor.
LEMMA FunctorTaken ==
  ASSUME AnswersInv, NEW kind, NextFunctor(kind), UNCHANGED <<tasks, running>>,
         NEW h, h = Head(functors)
  PROVE  /\ h \in Functors /\ h.kind = kind /\ h \in Range(functors)
         /\ h \in Responses => h \notin Range(functors')
         /\ functors' \in Seq(Functors) /\ PlacesInv'
         /\ \A t \in Task : Pending(t)' => Pending(t)
<1> USE DEF AnswersInv
<1>1. /\ h \in Functors /\ functors' \in Seq(Functors) /\ Once(functors', Responses)
      /\ Range(functors) = {h} \cup Range(functors')
      /\ h \in Responses => h \notin Range(functors')
  BY OnceTail, Zenon DEF NextFunctor, AnswerTypes, PlacesInv
<1>2. \A t : Running(t)' <=> Running(t)
  BY Zenon DEF Running
<1>3. PlacesInv'
  BY <1>1, <1>2, Zenon DEF PlacesInv
<1>4. \A t \in Task : Pending(t)' => Pending(t)
  BY <1>1, <1>2, Zenon DEF Pending
<1> QED
  BY <1>1, <1>3, <1>4, Zenon DEF NextFunctor


\* A response reaches its connection, or finds it gone.
LEMMA OnAsyncResponseKeeps ==
  ASSUME AnswersInv, onAsyncResponse
  PROVE  AnswersInv'
<1>h. PICK h : h = Head(functors)
  BY Zenon
<1>1. NextFunctor("response") /\ UNCHANGED <<tasks, running>>
  BY Zenon DEF onAsyncResponse, LoopRest
<1>2. /\ h \in Functors /\ h.kind = "response" /\ h \in Range(functors)
      /\ h \in Responses => h \notin Range(functors')
      /\ functors' \in Seq(Functors) /\ PlacesInv'
      /\ \A t \in Task : Pending(t)' => Pending(t)
  BY <1>h, <1>1, FunctorTaken, Zenon
<1>t. PICK t : t = h.task
  BY Zenon
<1>3. t \in Task /\ h = Response(t) /\ h \in Responses
  BY <1>2, <1>t, Zenon DEF Functors, Responses, Response
<1>4. Pending(t) /\ ~Pending(t)'
  <2>1. Response(t) \in Range(functors) /\ Response(t) \notin Range(functors')
    BY <1>2, <1>3, Zenon
  <2>2. t \notin Range(tasks) /\ ~Running(t)
    BY <1>3, <2>1, Zenon DEF AnswersInv, PlacesInv
  <2> QED
    BY <1>1, <2>1, <2>2, Zenon DEF Pending, Running
<1>5. CASE ~Alive(t)
  <2>1. UNCHANGED conn
    BY <1>h, <1>t, <1>5, Zenon DEF onAsyncResponse
  <2>2. TaskInv'
    BY <1>2, <2>1, FewerTasks, Zenon DEF AnswersInv
  <2> QED
    BY <1>1, <1>2, <2>1, <2>2, Zenon DEF AnswersInv, AnswerTypes
<1>6. CASE Alive(t)
  <2>f. PICK f : f = t.fd
    BY Zenon
  <2>c. PICK c : c = conn[f]
    BY Zenon
  <2>1. /\ f \in Fds /\ ConnInv(c) /\ c \in ConnType /\ c.open /\ c.inFlight
        /\ c.gen = t.gen /\ c.parsed = t.request /\ t.keepAlive \in BOOLEAN
    BY <1>3, <1>4, <1>6, <2>f, <2>c, Zenon DEF AnswersInv, TaskInv, Task, Alive, ConnInv
  <2>2. ~c.closeAfter /\ Exact(c.gen, All(c)) /\ c.parsed = Len(All(c)) + 1
    BY <2>1, Zenon DEF ConnInv
  <2>e. PICK e : e = [c EXCEPT !.inFlight = FALSE]
    BY Zenon
  <2>3. /\ e \in ConnType /\ ~e.inFlight /\ e.closeAfter = c.closeAfter /\ e.gen = c.gen
        /\ e.open = c.open /\ e.parsed = c.parsed /\ All(e) = All(c)
    BY <2>1, <2>e, Zenon DEF ConnType, All
  <2>4. PICK d \in Queued(e, <<t.gen, t.request>>, ~t.keepAlive) : ConnTo(f, d)
    BY <1>h, <1>t, <1>6, <2>f, <2>c, <2>e, Zenon DEF onAsyncResponse
  <2>5. ConnInv(d) /\ d.gen = e.gen /\ d.open = e.open
    <3>a. PICK answer : answer = <<t.gen, t.request>>
      BY Zenon
    <3>1. /\ answer \in Answer /\ answer = <<e.gen, Len(All(e)) + 1>> /\ e.parsed = Len(All(e)) + 1
          /\ ~e.closeAfter /\ Exact(e.gen, All(e)) /\ (~t.keepAlive) \in BOOLEAN
      BY <1>3, <2>1, <2>2, <2>3, <3>a, Zenon DEF Answer, Task
    <3>2. d \in Queued(e, answer, ~t.keepAlive)
      BY <2>4, <3>a, Zenon
    <3> QED
      BY <2>3, <3>1, <3>2, QueuedAnswer, Zenon
  <2>6. /\ conn' = [g \in Fds |-> conn'[g]] /\ conn'[f] = d
        /\ \A g \in Fds \ {f} : conn'[g] = conn[g]
    BY <2>1, <2>4, ConnAt, Zenon DEF AnswersInv
  <2>7. ASSUME NEW u \in Task, Pending(u)'
        PROVE  /\ u.gen <= conn'[u.fd].gen
               /\ Alive(u)' => conn'[u.fd].inFlight /\ u.request = conn'[u.fd].parsed
    <3>1. /\ Pending(u) /\ u # t /\ u.fd \in Fds /\ u.gen <= conn[u.fd].gen
          /\ Alive(u) => conn[u.fd].inFlight /\ u.request = conn[u.fd].parsed
          /\ ~(u.fd = f /\ u.gen = t.gen)
      BY <1>2, <1>3, <1>4, <2>f, <2>7, Zenon DEF AnswersInv, TaskInv, Task
    <3>2. CASE u.fd = f
      BY <2>c, <2>1, <2>3, <2>5, <2>6, <3>1, <3>2, Zenon DEF Alive
    <3>3. CASE u.fd # f
      BY <2>6, <3>1, <3>3, Zenon DEF Alive
    <3> QED
      BY <3>2, <3>3, Zenon
  <2>8. TaskInv'
    BY <1>2, <2>7, Zenon DEF AnswersInv, TaskInv
  <2> QED
    BY <1>1, <1>2, <2>5, <2>6, <2>8, Zenon DEF AnswersInv, AnswerTypes
<1> QED
  BY <1>5, <1>6, Zenon

\* The functors of the shutdown.
LEMMA StopInLoopKeeps ==
  ASSUME AnswersInv, stopAcceptingInLoop \/ stopInLoop
  PROVE  AnswersInv'
<1>1. /\ \E kind : NextFunctor(kind)
      /\ UNCHANGED <<tasks, running>>
  BY Zenon DEF stopAcceptingInLoop, stopInLoop, ShutdownRest
<1>2. /\ functors' \in Seq(Functors) /\ PlacesInv'
      /\ \A t \in Task : Pending(t)' => Pending(t)
  BY <1>1, FunctorTaken, Zenon
<1>3. CASE UNCHANGED conn
  <2>1. TaskInv'
    BY <1>2, <1>3, FewerTasks, Zenon DEF AnswersInv
  <2> QED
    BY <1>1, <1>2, <1>3, <2>1, Zenon DEF AnswersInv, AnswerTypes
<1>4. CASE conn' = [f \in Fds |-> NewConn(conn[f].gen, FALSE)]
  <2>1. ASSUME NEW f \in Fds
        PROVE  ConnInv(conn'[f]) /\ conn'[f].gen = conn[f].gen /\ ~conn'[f].open
    <3>1. conn[f].gen \in Nat
      BY Zenon DEF AnswersInv, ConnInv, ConnType
    <3>2. conn'[f] = NewConn(conn[f].gen, FALSE)
      BY <1>4, Zenon
    <3> QED
      BY <3>1, <3>2, NewAnswers, Zenon
  <2>2. TaskInv'
    BY <1>2, <2>1, Zenon DEF AnswersInv, TaskInv, Alive, Task
  <2>3. AnswerTypes'
    BY <1>1, <1>2, <1>4, Zenon DEF AnswersInv, AnswerTypes
  <2> QED
    BY <1>2, <2>1, <2>2, <2>3, Zenon DEF AnswersInv
<1> QED
  BY <1>3, <1>4, Zenon DEF stopAcceptingInLoop, stopInLoop

\* main queues them and stops the pool.
LEMMA MainKeeps ==
  ASSUME AnswersInv, requestShutdown \/ stopPool \/ stopWorkers
  PROVE  AnswersInv'
<1> USE DEF AnswersInv
<1>1. UNCHANGED <<conn, tasks, running>>
  BY Zenon DEF requestShutdown, stopPool, stopWorkers, ShutdownRest
<1>2. functors' = functors \/ \E k \in {"stopAccepting", "stop"} : functors' = Append(functors, [kind |-> k])
  BY Zenon DEF requestShutdown, stopPool, stopWorkers, runInLoop
<1>3. /\ functors' \in Seq(Functors) /\ Once(functors', Responses)
      /\ \A t : Response(t) \in Range(functors') => Response(t) \in Range(functors)
  <2>1. CASE functors' = functors
    BY <2>1, Zenon DEF AnswerTypes, PlacesInv
  <2>2. ASSUME NEW k \in {"stopAccepting", "stop"}, functors' = Append(functors, [kind |-> k])
        PROVE  <1>3!:
    <3>n. PICK n : n = [kind |-> k]
      BY Zenon
    <3>1. n \in Functors /\ n \notin Responses /\ \A t : Response(t) # n
      BY <3>n, Zenon DEF Functors, Responses, Response
    <3>2. /\ functors' \in Seq(Functors) /\ Once(functors', Responses)
          /\ Range(functors') = Range(functors) \cup {n}
      BY <2>2, <3>n, <3>1, OnceAppend DEF AnswerTypes, PlacesInv
    <3> QED
      BY <3>1, <3>2, Zenon
  <2> QED
    BY <1>2, <2>1, <2>2, Zenon
<1>4. \A t : (Running(t)' <=> Running(t)) /\ (Pending(t)' => Pending(t))
  BY <1>1, <1>3, Zenon DEF Running, Pending
<1>5. PlacesInv'
  BY <1>1, <1>3, <1>4, Zenon DEF PlacesInv
<1>6. TaskInv'
  BY <1>1, <1>4, FewerTasks, Zenon
<1> QED
  BY <1>1, <1>3, <1>5, <1>6, Zenon DEF AnswerTypes

\* A worker that returns has no task.
LEMMA RunReturnsKeeps ==
  ASSUME AnswersInv, NEW w \in Workers, runReturns(w)
  PROVE  AnswersInv'
<1>1. UNCHANGED <<conn, tasks, running, functors>>
  BY Zenon DEF runReturns, WorkerRest
<1> QED
  BY <1>1 DEF AnswersInv, AnswerTypes, PlacesInv, TaskInv, Pending, Running, Alive

\* At first there are no connections and no tasks.
LEMMA AnswersInit ==
  ASSUME HttpInit
  PROVE  AnswersInv
<1>1. AnswerTypes
  BY DEF HttpInit, AnswerTypes
<1>2. \A t : ~Pending(t) /\ ~Running(t)
  BY DEF HttpInit, Pending, Running, Range
<1>3. PlacesInv
  BY <1>2 DEF HttpInit, PlacesInv, Once, Pending
<1>4. TaskInv
  BY <1>2, Zenon DEF TaskInv
<1>5. \A f \in Fds : ConnInv(conn[f])
  BY NewAnswers, Zenon DEF HttpInit
<1> QED
  BY <1>1, <1>3, <1>4, <1>5, Zenon DEF AnswersInv

\* For any number of connections, workers and requests: whatever the order in which the
\* workers finish and whoever had the descriptor before, the answers of a connection
\* are those of its own requests, one each and in order (http_server.cc:45-129).
THEOREM AnswersAlwaysMatchRequests == HttpSpec => []AnswersMatchRequests
<1>1. AnswersInv /\ [HttpNext]_httpVars => AnswersInv'
  <2> SUFFICES ASSUME AnswersInv, [HttpNext]_httpVars PROVE AnswersInv'
    BY Zenon
  <2>1. ASSUME NEW f \in Fds, onRead(f) \/ onWritePart(f) \/ onWrite(f) \/ onError(f) \/ onConnection(f)
                              \/ send(f) \/ shutdownWrite(f)
        PROVE  AnswersInv'
    BY <2>1, OnReadKeeps, OnWritePartKeeps, OnWriteKeeps, ConnStepKeeps, Zenon
  <2>2. ASSUME NEW w \in Workers, workerStep(w) PROVE AnswersInv'
    BY <2>2, TakeKeeps, RespondKeeps, RunReturnsKeeps, Zenon DEF workerStep
  <2>3. CASE functorStep \/ requestShutdown \/ mainStep
    BY <2>3, OnAsyncResponseKeeps, StopInLoopKeeps, MainKeeps, Zenon DEF functorStep, mainStep
  <2>4. CASE UNCHANGED httpVars
    BY <2>4 DEF httpVars, AnswersInv, AnswerTypes, PlacesInv, TaskInv, Pending, Running, Alive
  <2> QED
    BY <2>1, <2>2, <2>3, <2>4, Zenon DEF HttpNext
<1>2. AnswersInv => AnswersMatchRequests
  <2> SUFFICES ASSUME AnswersInv, NEW f \in Fds, NEW s, s = conn[f].delivered \o conn[f].output
               PROVE  \A i \in DOMAIN s : s[i] = <<conn[f].gen, i>> \/ (s[i] = Refusal /\ i = Len(s))
    BY Zenon DEF AnswersMatchRequests
  <2>1. Matches(conn[f].gen, s) /\ conn[f] \in ConnType
    BY Zenon DEF AnswersInv, ConnInv, All
  <2>2. conn[f].delivered \in Seq(Answer) /\ conn[f].output \in Seq(Answer)
    BY <2>1, Zenon DEF ConnType
  <2>3. DOMAIN s = 1..Len(s)
    BY <2>2
  <2> QED
    BY <2>1, <2>3, Zenon DEF Matches
<1> QED
  BY AnswersInit, <1>1, <1>2, PTL DEF HttpSpec

-----------------------------------------------------------------------------
(* Shutdown.                                                               *)

Kind(i) == functors[i].kind

\* The functors of main: one at a time, and the one that quits is the last.
FunctorInv ==
  /\ \A i, j \in 1..Len(functors) : (Kind(i) = "stopAccepting" /\ Kind(j) = "stopAccepting") => i = j
  /\ \A i \in 1..Len(functors) : Kind(i) = "stopAccepting" => main = "accepting"
  /\ \A i \in 1..Len(functors) : Kind(i) = "stop" => main = "loop" /\ i = Len(functors)

Drained == tasks = <<>> /\ \A w \in Workers : running[w] = NoTask

\* How far main is, what it has stopped so far, and that the pool stays empty.
StageInv ==
  /\ main \in {"serving", "accepting", "stopping", "workers", "loop", "done"}
  /\ main \in {"workers", "loop", "done"} => stopping
  /\ main \in {"loop", "done"} => Drained
  /\ ~looping => main = "done"
  /\ main = "done" => ~looping /\ functors = <<>>

\* A worker that has returned found the queue empty, and nothing is added to it since.
ExitInv ==
  /\ ended # {} => stopping /\ tasks = <<>>
  /\ \A w \in ended : running[w] = NoTask

IsSeq(s) == \E S : s \in Seq(S)

ShutdownInv == IsSeq(functors) /\ FunctorInv /\ StageInv /\ ExitInv

\* Append keeps a sequence a sequence ...
LEMMA Appended ==
  ASSUME NEW s, IsSeq(s), NEW x
  PROVE  /\ IsSeq(Append(s, x)) /\ Len(s) \in Nat /\ Len(Append(s, x)) = Len(s) + 1
         /\ \A i \in 1..Len(s) : Append(s, x)[i] = s[i]
         /\ Append(s, x)[Len(s) + 1] = x
<1>1. PICK S : s \in Seq(S)
  BY Zenon DEF IsSeq
<1>2. s \in Seq(S \cup {x}) /\ x \in S \cup {x}
  BY <1>1
<1>3. Append(s, x) \in Seq(S \cup {x})
  BY <1>2
<1>4. IsSeq(Append(s, x))
  BY <1>3, Zenon DEF IsSeq
<1> QED
  BY <1>2, <1>4

\* ... and so does Tail.
LEMMA Tailed ==
  ASSUME NEW s, IsSeq(s), s # <<>>
  PROVE  /\ IsSeq(Tail(s)) /\ Len(s) \in Nat /\ Len(s) >= 1 /\ Len(Tail(s)) = Len(s) - 1
         /\ \A i \in 1..(Len(s) - 1) : Tail(s)[i] = s[i + 1]
         /\ Head(s) = s[1]
         /\ Len(s) = 1 => Tail(s) = <<>>
<1>1. PICK S : s \in Seq(S)
  BY Zenon DEF IsSeq
<1>2. Tail(s) \in Seq(S)
  BY <1>1
<1>3. IsSeq(Tail(s))
  BY <1>2, Zenon DEF IsSeq
<1>4. Len(s) \in Nat /\ Len(s) >= 1 /\ Len(Tail(s)) = Len(s) - 1 /\ Head(s) = s[1]
  BY <1>1
<1>5. \A i \in 1..(Len(s) - 1) : Tail(s)[i] = s[i + 1]
  BY <1>1
<1>6. Len(s) = 1 => Tail(s) = <<>>
  <2>1. \A q \in Seq(S) : Len(q) = 0 => q = <<>>
    OBVIOUS
  <2>2. Len(s) = 1 => Len(Tail(s)) = 0
    BY <1>4
  <2> QED
    BY <1>2, <2>1, <2>2, Zenon
<1> QED
  BY <1>3, <1>4, <1>5, <1>6, Zenon

\* The invariant holds at first.
LEMMA ShutdownInit == HttpInit => ShutdownInv
<1> SUFFICES ASSUME HttpInit PROVE ShutdownInv
  BY Zenon
<1>1. functors = <<>> /\ functors \in Seq({})
  BY DEF HttpInit
<1>2. IsSeq(functors)
  BY <1>1, Zenon DEF IsSeq
<1>3. FunctorInv
  BY <1>1 DEF FunctorInv
<1>4. StageInv
  BY Zenon DEF HttpInit, StageInv
<1>5. ExitInv
  BY Zenon DEF HttpInit, ExitInv
<1> QED
  BY <1>2, <1>3, <1>4, <1>5, Zenon DEF ShutdownInv

\* The callbacks of a connection and its client: a task is queued only while the
\* pool is not stopping.
LEMMA ConnectionSteps ==
  ASSUME ShutdownInv, NEW f \in Fds,
         \/ onRead(f) \/ onWritePart(f) \/ onWrite(f) \/ onError(f)
         \/ onConnection(f) \/ send(f) \/ shutdownWrite(f)
  PROVE  ShutdownInv'
<1>1. UNCHANGED <<stopping, running, ended, looping, main, functors>>
  BY Zenon DEF onRead, onWritePart, onWrite, onError, onConnection, send, shutdownWrite, LoopRest
<1>2. ASSUME NEW c, Parse(f, c) PROVE UNCHANGED tasks \/ ~stopping
  BY <1>2, Zenon DEF Parse, MaySubmit
<1>3. ASSUME NEW c, Read(f, c) PROVE UNCHANGED tasks \/ ~stopping
  BY <1>2, <1>3, Zenon DEF Read
<1>4. UNCHANGED tasks \/ ~stopping
  BY <1>3, Zenon DEF onRead, onWritePart, onWrite, onError, onConnection, send, shutdownWrite
<1>5. IsSeq(functors)' /\ FunctorInv'
  BY <1>1, Zenon DEF ShutdownInv, FunctorInv, Kind
<1>6. StageInv'
  BY <1>1, <1>4, Zenon DEF ShutdownInv, StageInv, Drained
<1>7. ExitInv'
  BY <1>1, <1>4, Zenon DEF ShutdownInv, ExitInv
<1> QED
  BY <1>5, <1>6, <1>7, Zenon DEF ShutdownInv

\* A worker has a task only while main has not joined it.
LEMMA WorkerSteps ==
  ASSUME ShutdownInv, NEW w \in Workers, take(w) \/ respond(w)
  PROVE  ShutdownInv'
<1>1. UNCHANGED <<stopping, looping, main>>
  BY Zenon DEF take, respond, WorkerRest
<1>2. main \notin {"loop", "done"}
  BY Zenon DEF ShutdownInv, StageInv, Drained, take, respond
<1>3. StageInv'
  BY <1>1, <1>2, Zenon DEF ShutdownInv, StageInv
<1>4. CASE take(w)
  <2>1. ended = {} /\ UNCHANGED <<ended, functors>>
    BY <1>4, Zenon DEF ShutdownInv, ExitInv, take
  <2>2. ExitInv'
    BY <2>1, Zenon DEF ExitInv
  <2> QED
    BY <1>1, <1>3, <2>1, <2>2, Zenon DEF ShutdownInv, FunctorInv, Kind
<1>5. CASE respond(w)
  <2> DEFINE x == [kind |-> "response", task |-> running[w]]
  <2>1. functors' = Append(functors, x) /\ x.kind = "response"
    BY <1>5, Zenon DEF respond, runInLoop
  <2> HIDE DEF x
  <2>2. /\ IsSeq(functors') /\ Len(functors) \in Nat /\ Len(functors') = Len(functors) + 1
        /\ \A i \in 1..Len(functors) : functors'[i] = functors[i]
        /\ functors'[Len(functors) + 1] = x
    BY <2>1, Appended DEF ShutdownInv
  <2>3. FunctorInv'
    BY <1>1, <1>2, <2>1, <2>2 DEF ShutdownInv, FunctorInv, Kind
  <2>4. ExitInv'
    <3>1. w \notin ended /\ UNCHANGED <<tasks, ended>> /\ running' = [running EXCEPT ![w] = NoTask]
      BY <1>5, Zenon DEF ShutdownInv, ExitInv, respond
    <3>2. \A v \in ended : running'[v] = running[v]
      BY <3>1
    <3> QED
      BY <1>1, <3>1, <3>2, Zenon DEF ShutdownInv, ExitInv
  <2> QED
    BY <1>3, <2>2, <2>3, <2>4, Zenon DEF ShutdownInv
<1> QED
  BY <1>4, <1>5, Zenon

\* A worker returns only from a pool that stops and has no tasks.
LEMMA ReturnSteps ==
  ASSUME ShutdownInv, NEW w \in Workers, runReturns(w)
  PROVE  ShutdownInv'
<1>1. /\ UNCHANGED <<tasks, running, functors, stopping, looping, main>> /\ ended' = ended \cup {w}
      /\ running[w] = NoTask /\ tasks = <<>> /\ stopping
  BY Zenon DEF runReturns, WorkerRest
<1>2. IsSeq(functors)' /\ FunctorInv' /\ StageInv'
  BY <1>1, Zenon DEF ShutdownInv, FunctorInv, Kind, StageInv, Drained
<1>3. ExitInv'
  BY <1>1, Zenon DEF ShutdownInv, ExitInv
<1> QED
  BY <1>2, <1>3, Zenon DEF ShutdownInv

\* The loop's thread runs a functor.
LEMMA FunctorSteps ==
  ASSUME ShutdownInv, functorStep
  PROVE  ShutdownInv'
<1>0. functors # <<>> /\ functors' = Tail(functors) /\ looping /\ main # "done"
  BY Zenon DEF functorStep, onAsyncResponse, stopAcceptingInLoop, stopInLoop, NextFunctor, ShutdownInv, StageInv
<1>1. /\ IsSeq(functors') /\ Len(functors) \in Nat /\ Len(functors) >= 1 /\ Len(functors') = Len(functors) - 1
      /\ \A i \in 1..(Len(functors) - 1) : functors'[i] = functors[i + 1]
      /\ Head(functors) = functors[1]
      /\ Len(functors) = 1 => functors' = <<>>
  BY <1>0, Tailed, Zenon DEF ShutdownInv
<1>K. \A i \in 1..Len(functors') : i + 1 \in 1..Len(functors) /\ Kind(i)' = Kind(i + 1)
  BY <1>1 DEF Kind
<1>E. ExitInv'
  <2>1. UNCHANGED <<tasks, stopping, running, ended>>
    BY Zenon DEF functorStep, onAsyncResponse, stopAcceptingInLoop, stopInLoop, LoopRest, ShutdownRest
  <2> QED
    BY <2>1, Zenon DEF ShutdownInv, ExitInv
<1>N. \A i, j \in 1..Len(functors') : i + 1 = j + 1 => i = j
  BY <1>1
<1>2. CASE onAsyncResponse
  <2>1. UNCHANGED <<tasks, stopping, running, looping, main>>
    BY <1>2, Zenon DEF onAsyncResponse, LoopRest
  <2>2. FunctorInv'
    <3>1. \A i, j \in 1..Len(functors') : (Kind(i)' = "stopAccepting" /\ Kind(j)' = "stopAccepting") => i = j
      BY <1>K, <1>N, Zenon DEF ShutdownInv, FunctorInv
    <3>2. \A i \in 1..Len(functors') : Kind(i)' = "stopAccepting" => main' = "accepting"
      BY <1>K, <2>1, Zenon DEF ShutdownInv, FunctorInv
    <3>3. \A i \in 1..Len(functors') : Kind(i)' = "stop" => main' = "loop" /\ i = Len(functors')
      BY <1>1, <1>K, <2>1 DEF ShutdownInv, FunctorInv
    <3> QED
      BY <3>1, <3>2, <3>3, Zenon DEF FunctorInv
  <2>3. StageInv'
    BY <1>0, <2>1, Zenon DEF ShutdownInv, StageInv, Drained
  <2> QED
    BY <1>1, <1>E, <2>2, <2>3, Zenon DEF ShutdownInv
<1>3. CASE stopAcceptingInLoop
  <2>1. functors[1].kind = "stopAccepting" /\ main' = "stopping" /\ UNCHANGED <<stopping, looping>>
    BY <1>1, <1>3, Zenon DEF stopAcceptingInLoop, NextFunctor
  <2>2. main = "accepting"
    BY <1>1, <2>1 DEF ShutdownInv, FunctorInv, Kind
  <2>3. FunctorInv'
    <3>1. \A i \in 1..Len(functors') : Kind(i + 1) # "stopAccepting"
      <4>1. 1 \in 1..Len(functors) /\ Kind(1) = "stopAccepting" /\ \A i \in 1..Len(functors') : i + 1 # 1
        BY <1>1, <2>1 DEF Kind
      <4> QED
        BY <1>K, <4>1, Zenon DEF ShutdownInv, FunctorInv
    <3>2. \A i \in 1..Len(functors') : Kind(i + 1) # "stop"
      BY <1>K, <2>2, Zenon DEF ShutdownInv, FunctorInv
    <3> QED
      BY <1>K, <3>1, <3>2, Zenon DEF FunctorInv
  <2>4. StageInv'
    BY <1>0, <2>1, Zenon DEF ShutdownInv, StageInv
  <2> QED
    BY <1>1, <1>E, <2>3, <2>4, Zenon DEF ShutdownInv
<1>4. CASE stopInLoop
  <2>1. functors[1].kind = "stop" /\ main' = "done" /\ ~looping' /\ UNCHANGED <<stopping, tasks, running>>
    BY <1>1, <1>4, Zenon DEF stopInLoop, NextFunctor, ShutdownRest
  <2>2. main = "loop" /\ Len(functors) = 1
    BY <1>1, <2>1 DEF ShutdownInv, FunctorInv, Kind
  <2>3. functors' = <<>>
    BY <1>1, <2>2, Zenon
  <2>4. FunctorInv'
    BY <2>3 DEF FunctorInv
  <2>5. StageInv'
    BY <2>1, <2>2, <2>3, Zenon DEF ShutdownInv, StageInv, Drained
  <2> QED
    BY <1>1, <1>E, <2>4, <2>5, Zenon DEF ShutdownInv
<1> QED
  BY <1>2, <1>3, <1>4, Zenon DEF functorStep

\* main queues its functors one after the other.
LEMMA MainSteps ==
  ASSUME ShutdownInv, requestShutdown \/ stopPool \/ stopWorkers
  PROVE  ShutdownInv'
<1>E. ExitInv'
  <2>1. UNCHANGED <<tasks, running, ended>>
    BY Zenon DEF requestShutdown, stopPool, stopWorkers, ShutdownRest
  <2>2. stopping' = stopping \/ stopping' = TRUE
    BY Zenon DEF requestShutdown, stopPool, stopWorkers
  <2> QED
    BY <2>1, <2>2, Zenon DEF ShutdownInv, ExitInv
<1>1. CASE requestShutdown
  <2> DEFINE x == [kind |-> "stopAccepting"]
  <2>1. functors' = Append(functors, x) /\ x.kind = "stopAccepting"
    BY <1>1, Zenon DEF requestShutdown, runInLoop
  <2>2. main = "serving" /\ main' = "accepting" /\ UNCHANGED <<stopping, looping, tasks, running>>
    BY <1>1, Zenon DEF requestShutdown, ShutdownRest
  <2> HIDE DEF x
  <2>3. /\ IsSeq(functors') /\ Len(functors) \in Nat /\ Len(functors') = Len(functors) + 1
        /\ \A i \in 1..Len(functors) : functors'[i] = functors[i]
        /\ functors'[Len(functors) + 1] = x
    BY <2>1, Appended DEF ShutdownInv
  <2>4. FunctorInv'
    BY <2>1, <2>2, <2>3 DEF ShutdownInv, FunctorInv, Kind
  <2>5. StageInv'
    BY <2>2, Zenon DEF ShutdownInv, StageInv
  <2> QED
    BY <1>E, <2>3, <2>4, <2>5, Zenon DEF ShutdownInv
<1>2. CASE stopPool
  <2>1. main = "stopping" /\ main' = "workers" /\ stopping' /\ UNCHANGED <<functors, looping>>
    BY <1>2, Zenon DEF stopPool
  <2>2. FunctorInv'
    BY <2>1, Zenon DEF ShutdownInv, FunctorInv, Kind
  <2>3. StageInv'
    BY <2>1, Zenon DEF ShutdownInv, StageInv
  <2> QED
    BY <1>E, <2>1, <2>2, <2>3, Zenon DEF ShutdownInv
<1>3. CASE stopWorkers
  <2> DEFINE x == [kind |-> "stop"]
  <2>1. functors' = Append(functors, x) /\ x.kind = "stop"
    BY <1>3, Zenon DEF stopWorkers, runInLoop
  <2>2. main = "workers" /\ main' = "loop" /\ Drained /\ UNCHANGED <<stopping, looping, tasks, running>>
    BY <1>3, HttpAssumption, Zenon DEF stopWorkers, ShutdownRest, Drained, ShutdownInv, ExitInv
  <2> HIDE DEF x
  <2>3. /\ IsSeq(functors') /\ Len(functors) \in Nat /\ Len(functors') = Len(functors) + 1
        /\ \A i \in 1..Len(functors) : functors'[i] = functors[i]
        /\ functors'[Len(functors) + 1] = x
    BY <2>1, Appended DEF ShutdownInv
  <2>4. FunctorInv'
    BY <2>1, <2>2, <2>3 DEF ShutdownInv, FunctorInv, Kind
  <2>5. StageInv'
    BY <2>2, Zenon DEF ShutdownInv, StageInv, Drained
  <2> QED
    BY <1>E, <2>3, <2>4, <2>5, Zenon DEF ShutdownInv
<1> QED
  BY <1>1, <1>2, <1>3, Zenon

\* The invariant is inductive.
LEMMA ShutdownStep == ShutdownInv /\ [HttpNext]_httpVars => ShutdownInv'
<1> SUFFICES ASSUME ShutdownInv, [HttpNext]_httpVars PROVE ShutdownInv'
  BY Zenon
<1>1. CASE UNCHANGED httpVars
  BY <1>1, Zenon DEF httpVars, ShutdownInv, FunctorInv, StageInv, ExitInv, Kind, Drained
<1>2. CASE HttpNext
  BY <1>2, ConnectionSteps, WorkerSteps, ReturnSteps, FunctorSteps, MainSteps, Zenon DEF HttpNext, workerStep, mainStep
<1> QED
  BY <1>1, <1>2, Zenon

\* Whenever the shutdown was asked for and whatever was queued, running or answered
\* then: once the loop has quit no task, no running handler and no response callback
\* is left behind (ecommerce_api_main.cc:641-655).
THEOREM NoCallbackLost == HttpSpec => []CallbacksAreRun
<1>1. ShutdownInv => CallbacksAreRun
  BY Zenon DEF ShutdownInv, StageInv, Drained, CallbacksAreRun
<1> QED
  BY <1>1, ShutdownInit, ShutdownStep, PTL DEF HttpSpec

-----------------------------------------------------------------------------
(* Connection pools.  That nothing is lent when close frees the            *)
(* connections follows from in_use_ = 0 only because Lent is finite, and   *)
(* that connect may replace all of them only because a closed pool has     *)
(* none.                                                                   *)

Conns == Nat \X Nat

PoolTypes ==
  /\ all \subseteq Conns /\ free \subseteq all
  /\ inUse \in Nat /\ connects \in Nat
  /\ closer \in {"closed", "open", "closing"}
  /\ borrower \in [Borrowers -> [pc : {"out", "wait", "in", "failed"}, held : SUBSET Conns]]
  /\ \A t \in Borrowers : borrower[t].pc = "out" => borrower[t].held = {}

\* What close and connect rely on.
Closing ==
  /\ IsFiniteSet(Lent)
  /\ closer = "closed" => all = {}
  /\ closer = "open" => ~closing

LeaseInv == PoolTypes /\ LeasesAreOpen /\ Closing

\* A step that lends nothing and takes nothing back.
LEMMA SameLeases ==
  ASSUME LeaseInv, PoolTypes', UNCHANGED <<all, free, inUse>>,
         \A t \in Borrowers : borrower'[t].held = borrower[t].held,
         closer' = closer /\ closing' = closing
  PROVE  LeaseInv'
<1>1. Lent' = Lent
  BY Zenon DEF Lent
<1> QED
  BY <1>1, Zenon DEF LeaseInv, LeasesAreOpen, Closing

\* A connection goes from the free ones to a thread.
LEMMA Lend ==
  ASSUME Counting, LeaseInv, NEW t \in Borrowers, NEW c \in free,
         BorrowerTo(t, "in", borrower[t].held \cup {c}),
         free' = free \ {c}, inUse' = inUse + 1, BorrowRest
  PROVE  LeaseInv'
<1> USE DEF LeaseInv
<1>1. /\ borrower'[t].held = borrower[t].held \cup {c}
      /\ \A u \in Borrowers : u # t => borrower'[u].held = borrower[u].held
  BY Zenon DEF PoolTypes, BorrowerTo
<1>2. Lent' = Lent \cup {c}
  BY <1>1, Zenon DEF Lent
<1>3. c \notin Lent /\ c \in all
  BY Zenon DEF LeasesAreOpen, PoolTypes
<1>4. IsFiniteSet(Lent') /\ Cardinality(Lent') = Cardinality(Lent) + 1
  BY <1>2, <1>3, Zenon DEF Closing, Counting, MoreCounts
<1>5. PoolTypes'
  BY <1>3 DEF PoolTypes, BorrowerTo, BorrowRest
<1>6. \A u, v \in Borrowers : u # v => borrower'[u].held \cap borrower'[v].held = {}
  BY <1>1, <1>3 DEF LeasesAreOpen, Lent
<1>7. LeasesAreOpen'
  BY <1>2, <1>3, <1>4, <1>6, Zenon DEF LeasesAreOpen, PoolTypes, BorrowRest
<1> QED
  BY <1>4, <1>5, <1>7, Zenon DEF Closing, BorrowRest

\* A thread gives a connection back.
LEMMA GiveBack ==
  ASSUME Counting, LeaseInv, NEW t \in Borrowers, release(t)
  PROVE  LeaseInv'
<1> USE DEF LeaseInv
<1>1. PICK c \in borrower[t].held :
        /\ BorrowerTo(t, IF borrower[t].held = {c} THEN "out" ELSE borrower[t].pc, borrower[t].held \ {c})
        /\ inUse' = IF inUse > 0 THEN inUse - 1 ELSE 0
        /\ free' = IF closing \/ (pool = "mysql" /\ c \notin all) THEN free ELSE free \cup {c}
  BY Zenon DEF release
<1>2. BorrowRest /\ borrower[t].pc \in {"in", "failed"}
  BY Zenon DEF release
<1>3. /\ borrower'[t].held = borrower[t].held \ {c}
      /\ \A u \in Borrowers : u # t => borrower'[u].held = borrower[u].held
  BY <1>1, Zenon DEF PoolTypes, BorrowerTo
<1>4. c \in Lent /\ c \in all
  BY Zenon DEF Lent, LeasesAreOpen
<1>5. Lent' = Lent \ {c}
  BY <1>3, <1>4 DEF Lent, LeasesAreOpen
<1>6. IsFiniteSet(Lent') /\ Cardinality(Lent') = Cardinality(Lent) - 1
  BY <1>4, <1>5, Zenon DEF Closing, Counting, LessCounts
<1>7. Cardinality(Lent) \in Nat /\ Cardinality(Lent') \in Nat
  BY <1>6, Zenon DEF Closing, Counting, NatCounts
<1>8. inUse' = Cardinality(Lent') /\ inUse' \in Nat
  BY <1>1, <1>6, <1>7 DEF LeasesAreOpen
<1>9. free' \subseteq all /\ free' \subseteq free \cup {c} /\ (~closing => free' = free \cup {c})
  BY <1>1, <1>4, Zenon DEF PoolTypes
<1>10. PoolTypes'
  BY <1>1, <1>2, <1>8, <1>9, Zenon DEF PoolTypes, BorrowerTo, BorrowRest
<1>11. \A u, v \in Borrowers : u # v => borrower'[u].held \cap borrower'[v].held = {}
  BY <1>3, Zenon DEF LeasesAreOpen
<1>12. LeasesAreOpen'
  BY <1>2, <1>4, <1>5, <1>8, <1>9, <1>11, Zenon DEF LeasesAreOpen, Closing, BorrowRest
<1> QED
  BY <1>2, <1>6, <1>10, <1>12, Zenon DEF Closing, BorrowRest

\* The end of an acquire.
LEMMA ObtainKeeps ==
  ASSUME Counting, LeaseInv, NEW t \in Borrowers, Obtain(t), BorrowRest
  PROVE  LeaseInv'
<1>1. CASE closing \/ free = {}
  <2>1. /\ UNCHANGED <<all, free, inUse, connects, closer, closing>>
        /\ \/ borrower' = [borrower EXCEPT ![t] = Out] /\ borrower[t].held = {}
           \/ BorrowerTo(t, "failed", borrower[t].held)
    BY <1>1, Zenon DEF Obtain, BorrowRest
  <2>2. PICK pc \in {"out", "failed"} :
          borrower' = [borrower EXCEPT ![t] = [pc |-> pc, held |-> borrower[t].held]]
                      /\ (pc = "out" => borrower[t].held = {})
    BY <2>1, Zenon DEF BorrowerTo, Out
  <2>3. PoolTypes' /\ \A u \in Borrowers : borrower'[u].held = borrower[u].held
    BY <2>1, <2>2, Zenon DEF LeaseInv, PoolTypes
  <2> QED
    BY <2>1, <2>3, SameLeases, Zenon
<1>2. CASE ~(closing \/ free = {})
  <2>1. PICK c \in free : /\ BorrowerTo(t, "in", borrower[t].held \cup {c})
                          /\ free' = free \ {c} /\ inUse' = inUse + 1
    BY <1>2, Zenon DEF Obtain
  <2> QED
    BY <2>1, Lend, Zenon
<1> QED
  BY <1>1, <1>2, Zenon

\* The invariant holds of a pool that is not filled yet.
LEMMA LeaseInit ==
  ASSUME Counting, PoolInit
  PROVE  LeaseInv
<1>1. Lent = {}
  BY Zenon DEF PoolInit, Out, Lent
<1>2. PoolTypes
  BY Zenon DEF PoolInit, PoolTypes, Out
<1>3. LeasesAreOpen
  BY <1>1, Zenon DEF PoolInit, LeasesAreOpen, Out, Counting, EmptyCounts
<1> QED
  BY <1>1, <1>2, <1>3, Zenon DEF PoolInit, LeaseInv, Closing, Counting, EmptyCounts

\* The invariant is inductive.
LEMMA LeaseStep ==
  ASSUME Counting, LeaseInv, [PoolNext]_poolVars
  PROVE  LeaseInv'
<1>1. CASE connect
  <2>1. Lent = {} /\ all = {}
    BY <1>1, Zenon DEF connect, LeaseInv, Closing, LeasesAreOpen
  <2>2. Lent' = {}
    BY <1>1, <2>1, Zenon DEF connect, Lent
  <2>3. Opened \subseteq Conns
    BY PoolAssumption DEF Opened, Conns, LeaseInv, PoolTypes
  <2>4. PoolTypes'
    BY <1>1, <2>3 DEF connect, LeaseInv, PoolTypes
  <2>5. LeasesAreOpen'
    BY <1>1, <2>1, <2>2, Zenon DEF connect, LeaseInv, LeasesAreOpen
  <2> QED
    BY <1>1, <2>2, <2>4, <2>5, Zenon DEF connect, LeaseInv, Closing, Counting, EmptyCounts
<1>2. CASE beginClose
  <2>1. Lent' = Lent
    BY <1>2, Zenon DEF beginClose, Lent
  <2> QED
    BY <1>2, <2>1, Zenon DEF beginClose, LeaseInv, PoolTypes, LeasesAreOpen, Closing
<1>3. CASE endClose
  <2>1. Lent' = Lent
    BY <1>3, Zenon DEF endClose, Lent
  <2>2. CASE inUse = 0
    <3>1. Lent = {}
      BY <2>2, Zenon DEF LeaseInv, LeasesAreOpen, Closing, Counting, EmptyCounts
    <3> QED
      BY <1>3, <2>1, <2>2, <3>1, Zenon DEF endClose, LeaseInv, PoolTypes, LeasesAreOpen, Closing
  <2>3. CASE inUse # 0
    BY <1>3, <2>1, <2>3, Zenon DEF endClose, LeaseInv, PoolTypes, LeasesAreOpen, Closing
  <2> QED
    BY <2>2, <2>3, Zenon
<1>4. ASSUME NEW t \in Borrowers, acquire(t) PROVE LeaseInv'
  BY <1>4, ObtainKeeps, Zenon DEF acquire
<1>5. ASSUME NEW t \in Borrowers, sleep(t) PROVE LeaseInv'
  <2>1. PoolTypes' /\ \A u \in Borrowers : borrower'[u].held = borrower[u].held
    BY <1>5, Zenon DEF sleep, LeaseInv, PoolTypes, BorrowerTo, BorrowRest
  <2> QED
    BY <1>5, <2>1, SameLeases, Zenon DEF sleep, BorrowRest
<1>6. ASSUME NEW t \in Borrowers, wake(t) PROVE LeaseInv'
  <2>1. CASE closing \/ free # {}
    BY <1>6, <2>1, ObtainKeeps, Zenon DEF wake
  <2>2. CASE ~(closing \/ free # {})
    <3>1. PoolTypes'
      BY <1>6, <2>2, Zenon DEF wake, LeaseInv, PoolTypes, BorrowRest
    <3> QED
      BY <1>6, <2>2, <3>1, SameLeases, Zenon DEF wake, BorrowRest
  <2> QED
    BY <2>1, <2>2, Zenon
<1>7. ASSUME NEW t \in Borrowers, timeOut(t) PROVE LeaseInv'
  BY <1>7, ObtainKeeps, Zenon DEF timeOut
<1>8. ASSUME NEW t \in Borrowers, release(t) PROVE LeaseInv'
  BY <1>8, GiveBack, Zenon
<1>9. CASE UNCHANGED poolVars
  <2>1. PoolTypes'
    BY <1>9, Zenon DEF poolVars, LeaseInv, PoolTypes
  <2> QED
    BY <1>9, <2>1, SameLeases, Zenon DEF poolVars
<1> QED
  BY <1>1, <1>2, <1>3, <1>4, <1>5, <1>6, <1>7, <1>8, <1>9, Zenon DEF PoolNext, borrowerStep

INSTANCE FiniteSetTheorems

\* The library's theorems about finite sets.
LEMMA CountingHolds == Counting
<1>1. EmptyCounts
  BY FS_EmptySet, Zenon DEF EmptyCounts
<1>2. NatCounts
  BY FS_CardinalityType, Zenon DEF NatCounts
<1>3. PartCounts
  BY FS_Subset, Zenon DEF PartCounts
<1>4. MoreCounts
  BY FS_AddElement, Zenon DEF MoreCounts
<1>5. LessCounts
  BY FS_RemoveElement, Zenon DEF LessCounts
<1> QED
  BY <1>1, <1>2, <1>3, <1>4, <1>5, Zenon DEF Counting

\* Every lease is of an open connection and of nobody else's, and in_use_ counts them,
\* for every number of threads and connections: RedisKVStore::close and
\* MySqlConnectionPool::close, which wait for in_use_ = 0, free nothing that is used.
THEOREM LeasesAlwaysOpen == PoolSpec => []LeasesAreOpen
<1>1. LeaseInv => LeasesAreOpen
  BY Zenon DEF LeaseInv
<1>2. PoolInit => LeaseInv
  BY CountingHolds, LeaseInit, Zenon
<1>3. LeaseInv /\ [PoolNext]_poolVars => LeaseInv'
  BY CountingHolds, LeaseStep, Zenon
<1> QED
  BY <1>1, <1>2, <1>3, PTL DEF PoolSpec
=============================================================================
