-------------------------- MODULE MessagingProofs ---------------------------
(***************************************************************************)
(* Messages are neither lost nor handled twice without reason: the outbox, *)
(* the orders over Kafka and the in-memory broker, each for all values of  *)
(* its constants.                                                          *)
(*                                                                         *)
(* Outbox.  AppendedIsKept is not inductive: a rewrite replaces the file   *)
(* by what memory holds, so memory has to hold every event that is not     *)
(* published.  OutboxInv says so, and that no event is in memory twice.    *)
(*                                                                         *)
(* Kafka.  KafkaInv says of every record the consumer has left behind what *)
(* is claimed of the committed ones, and what the steps before have done   *)
(* for the record at hand.                                                 *)
(*                                                                         *)
(* Broker.  BrokerInv follows a delivery through the events it has copied, *)
(* AttemptInv the account of failed calls and dead letters.                *)
(***************************************************************************)
EXTENDS Outbox, KafkaOrders, InMemoryBroker, Counting, TLAPS

-----------------------------------------------------------------------------
(* Sequences and their ranges.                                             *)

\* An element that is appended ...
LEMMA RangeOfAppend ==
  ASSUME NEW S, NEW s \in Seq(S), NEW x
  PROVE  /\ Range(Append(s, x)) = Range(s) \cup {x}
         /\ (IsInjective(s) /\ x \notin Range(s)) => IsInjective(Append(s, x))
<1> DEFINE t == Append(s, x)
<1>1. /\ DOMAIN s = 1..Len(s) /\ Len(s) \in Nat /\ DOMAIN t = 1..(Len(s) + 1)
      /\ t[Len(s) + 1] = x /\ \A i \in 1..Len(s) : t[i] = s[i]
  OBVIOUS
<1> HIDE DEF t
<1>2. Range(t) = Range(s) \cup {x}
  BY <1>1 DEF Range
<1>3. (IsInjective(s) /\ x \notin Range(s)) => IsInjective(t)
  BY <1>1 DEF Range, IsInjective
<1> QED
  BY <1>2, <1>3, Zenon DEF t

\* ... one that is taken from the front ...
LEMMA RangeOfTail ==
  ASSUME NEW S, NEW s \in Seq(S), s # <<>>
  PROVE  /\ Tail(s) \in Seq(S) /\ Head(s) \in S
         /\ Range(s) = {Head(s)} \cup Range(Tail(s))
         /\ IsInjective(s) => (IsInjective(Tail(s)) /\ Head(s) \notin Range(Tail(s)))
<1> DEFINE t == Tail(s)
           h == Head(s)
<1>1. /\ t \in Seq(S) /\ h \in S /\ h = s[1] /\ Len(s) \in Nat /\ Len(s) >= 1
      /\ DOMAIN s = 1..Len(s) /\ DOMAIN t = 1..(Len(s) - 1)
      /\ \A i \in 1..(Len(s) - 1) : t[i] = s[i + 1]
  OBVIOUS
<1> HIDE DEF t, h
<1>2. Range(s) = {h} \cup Range(t)
  <2>1. ASSUME NEW y \in Range(s) PROVE y \in {h} \cup Range(t)
    <3>1. PICK i \in 1..Len(s) : y = s[i]
      BY <1>1, Zenon DEF Range
    <3>2. i = 1 \/ (i - 1 \in DOMAIN t /\ y = t[i - 1])
      BY <1>1, <3>1
    <3> QED
      BY <1>1, <3>1, <3>2, Zenon DEF Range
  <2>2. ASSUME NEW y \in {h} \cup Range(t) PROVE y \in Range(s)
    <3>1. CASE y = h
      BY <1>1, <3>1 DEF Range
    <3>2. CASE y \in Range(t)
      <4>1. PICK i \in 1..(Len(s) - 1) : y = t[i]
        BY <1>1, <3>2, Zenon DEF Range
      <4>2. i + 1 \in DOMAIN s /\ y = s[i + 1]
        BY <1>1, <4>1
      <4> QED
        BY <4>2, Zenon DEF Range
    <3> QED
      BY <2>2, <3>1, <3>2, Zenon
  <2> QED
    BY <2>1, <2>2, Zenon
<1>3. IsInjective(s) => (IsInjective(t) /\ h \notin Range(t))
  <2> SUFFICES ASSUME \A i, j \in 1..Len(s) : s[i] = s[j] => i = j
               PROVE  IsInjective(t) /\ h \notin Range(t)
    BY <1>1, Zenon DEF IsInjective
  <2>1. \A i, j \in 1..(Len(s) - 1) : t[i] = t[j] => i = j
    <3> TAKE i, j \in 1..(Len(s) - 1)
    <3>1. i + 1 \in 1..Len(s) /\ j + 1 \in 1..Len(s) /\ t[i] = s[i + 1] /\ t[j] = s[j + 1]
      BY <1>1
    <3>2. t[i] = t[j] => i + 1 = j + 1
      BY <3>1, Zenon
    <3> QED
      BY <3>2
  <2>2. \A i \in 1..(Len(s) - 1) : t[i] # h
    <3> TAKE i \in 1..(Len(s) - 1)
    <3>1. 1 \in 1..Len(s) /\ i + 1 \in 1..Len(s) /\ i + 1 # 1 /\ t[i] = s[i + 1]
      BY <1>1
    <3> QED
      BY <1>1, <3>1, Zenon
  <2> QED
    BY <1>1, <2>1, <2>2, Zenon DEF IsInjective, Range
<1> QED
  BY <1>1, <1>2, <1>3, Zenon DEF t, h

\* ... a sequence that is cut in two ...
LEMMA RangeOfParts ==
  ASSUME NEW S, NEW s \in Seq(S), NEW n \in 0..Len(s)
  PROVE  LET a == SubSeq(s, 1, n)
             b == SubSeq(s, n + 1, Len(s))
         IN  /\ a \in Seq(S) /\ b \in Seq(S)
             /\ Range(s) = Range(a) \cup Range(b)
             /\ IsInjective(s) => (IsInjective(a) /\ IsInjective(b) /\ Range(a) \cap Range(b) = {})
<1> DEFINE a == SubSeq(s, 1, n)
           b == SubSeq(s, n + 1, Len(s))
<1>1. /\ a \in Seq(S) /\ b \in Seq(S) /\ Len(s) \in Nat /\ DOMAIN s = 1..Len(s)
      /\ DOMAIN a = 1..n /\ DOMAIN b = 1..(Len(s) - n)
      /\ \A i \in 1..n : a[i] = s[i]
      /\ \A i \in 1..(Len(s) - n) : b[i] = s[n + i]
  OBVIOUS
<1> HIDE DEF a, b
<1>2. Range(s) = Range(a) \cup Range(b)
  <2>1. ASSUME NEW y \in Range(s) PROVE y \in Range(a) \cup Range(b)
    <3>1. PICK i \in 1..Len(s) : y = s[i]
      BY <1>1, Zenon DEF Range
    <3>2. (i \in DOMAIN a /\ y = a[i]) \/ (i - n \in DOMAIN b /\ y = b[i - n])
      BY <1>1, <3>1
    <3> QED
      BY <3>2, Zenon DEF Range
  <2>2. ASSUME NEW y \in Range(a) PROVE y \in Range(s)
    <3>1. PICK i \in 1..n : y = a[i]
      BY <1>1, <2>2, Zenon DEF Range
    <3>2. i \in DOMAIN s /\ y = s[i]
      BY <1>1, <3>1
    <3> QED
      BY <3>2, Zenon DEF Range
  <2>3. ASSUME NEW y \in Range(b) PROVE y \in Range(s)
    <3>1. PICK i \in 1..(Len(s) - n) : y = b[i]
      BY <1>1, <2>3, Zenon DEF Range
    <3>2. n + i \in DOMAIN s /\ y = s[n + i]
      BY <1>1, <3>1
    <3> QED
      BY <3>2, Zenon DEF Range
  <2> QED
    BY <2>1, <2>2, <2>3, Zenon
<1>3. IsInjective(s) => (IsInjective(a) /\ IsInjective(b) /\ Range(a) \cap Range(b) = {})
  <2> SUFFICES ASSUME \A i, j \in 1..Len(s) : s[i] = s[j] => i = j
               PROVE  IsInjective(a) /\ IsInjective(b) /\ Range(a) \cap Range(b) = {}
    BY <1>1, Zenon DEF IsInjective
  <2>1. IsInjective(a)
    BY <1>1 DEF IsInjective
  <2>2. \A i, j \in 1..(Len(s) - n) : b[i] = b[j] => i = j
    <3> TAKE i, j \in 1..(Len(s) - n)
    <3>1. n + i \in 1..Len(s) /\ n + j \in 1..Len(s) /\ b[i] = s[n + i] /\ b[j] = s[n + j]
      BY <1>1
    <3>2. b[i] = b[j] => n + i = n + j
      BY <3>1, Zenon
    <3> QED
      BY <3>2
  <2>3. \A i \in 1..n, j \in 1..(Len(s) - n) : a[i] # b[j]
    <3> TAKE i \in 1..n, j \in 1..(Len(s) - n)
    <3>1. i \in 1..Len(s) /\ n + j \in 1..Len(s) /\ a[i] = s[i] /\ b[j] = s[n + j] /\ i # n + j
      BY <1>1
    <3> QED
      BY <3>1, Zenon
  <2>4. IsInjective(b)
    BY <1>1, <2>2, Zenon DEF IsInjective
  <2>5. Range(a) \cap Range(b) = {}
    BY <1>1, <2>3 DEF Range
  <2> QED
    BY <2>1, <2>4, <2>5, Zenon
<1> QED
  BY <1>1, <1>2, <1>3, Zenon DEF a, b

\* ... and two that are joined.
LEMMA RangeOfJoin ==
  ASSUME NEW S, NEW s \in Seq(S), NEW t \in Seq(S)
  PROVE  /\ s \o t \in Seq(S) /\ Range(s \o t) = Range(s) \cup Range(t)
         /\ (IsInjective(s) /\ IsInjective(t) /\ Range(s) \cap Range(t) = {}) => IsInjective(s \o t)
<1> DEFINE j == s \o t
<1>1. /\ j \in Seq(S) /\ Len(s) \in Nat /\ Len(t) \in Nat /\ DOMAIN j = 1..(Len(s) + Len(t))
      /\ DOMAIN s = 1..Len(s) /\ DOMAIN t = 1..Len(t)
      /\ \A i \in 1..Len(s) : j[i] = s[i]
      /\ \A i \in 1..Len(t) : j[Len(s) + i] = t[i]
  OBVIOUS
<1> HIDE DEF j
<1>2. \A i \in DOMAIN j : \/ i \in 1..Len(s) /\ j[i] = s[i]
                          \/ i - Len(s) \in 1..Len(t) /\ j[i] = t[i - Len(s)]
  BY <1>1
<1>3. /\ \A i \in 1..Len(s) : i \in DOMAIN j
      /\ \A i \in 1..Len(t) : Len(s) + i \in DOMAIN j
  BY <1>1
<1>4. Range(j) = Range(s) \cup Range(t)
  <2>1. ASSUME NEW y \in Range(j) PROVE y \in Range(s) \cup Range(t)
    <3>1. PICK i \in DOMAIN j : y = j[i]
      BY Zenon DEF Range
    <3>2. (i \in DOMAIN s /\ y = s[i]) \/ (i - Len(s) \in DOMAIN t /\ y = t[i - Len(s)])
      BY <1>1, <1>2, <3>1, Zenon
    <3> QED
      BY <3>2, Zenon DEF Range
  <2>2. ASSUME NEW y \in Range(s) PROVE y \in Range(j)
    <3>1. PICK i \in 1..Len(s) : y = s[i]
      BY <1>1, <2>2, Zenon DEF Range
    <3>2. i \in DOMAIN j /\ y = j[i]
      BY <1>1, <1>3, <3>1, Zenon
    <3> QED
      BY <3>2, Zenon DEF Range
  <2>3. ASSUME NEW y \in Range(t) PROVE y \in Range(j)
    <3>1. PICK i \in 1..Len(t) : y = t[i]
      BY <1>1, <2>3, Zenon DEF Range
    <3>2. Len(s) + i \in DOMAIN j /\ y = j[Len(s) + i]
      BY <1>1, <1>3, <3>1, Zenon
    <3> QED
      BY <3>2, Zenon DEF Range
  <2> QED
    BY <2>1, <2>2, <2>3, Zenon
<1>5. (IsInjective(s) /\ IsInjective(t) /\ Range(s) \cap Range(t) = {}) => IsInjective(j)
  <2> SUFFICES ASSUME IsInjective(s), IsInjective(t), Range(s) \cap Range(t) = {},
                      NEW i \in DOMAIN j, NEW k \in DOMAIN j, j[i] = j[k]
               PROVE  i = k
    BY Zenon DEF IsInjective
  <2>0. \A x \in 1..Len(s), y \in 1..Len(t) : s[x] # t[y]
    BY <1>1, Zenon DEF Range
  <2>1. /\ (i \in 1..Len(s) /\ j[i] = s[i]) \/ (i - Len(s) \in 1..Len(t) /\ j[i] = t[i - Len(s)])
        /\ (k \in 1..Len(s) /\ j[k] = s[k]) \/ (k - Len(s) \in 1..Len(t) /\ j[k] = t[k - Len(s)])
    BY <1>2, Zenon
  <2>2. i \in Int /\ k \in Int /\ (i - Len(s) = k - Len(s) => i = k)
    BY <1>1
  <2>3. /\ \A x, y \in 1..Len(s) : s[x] = s[y] => x = y
        /\ \A x, y \in 1..Len(t) : t[x] = t[y] => x = y
    BY <1>1, Zenon DEF IsInjective
  <2> QED
    BY <2>0, <2>1, <2>2, <2>3, Zenon
<1> QED
  BY <1>1, <1>4, <1>5, Zenon DEF j

-----------------------------------------------------------------------------
(* The outbox.                                                             *)

OutboxTypes ==
  /\ file \in Seq(Events \cup {Torn})
  /\ pending \in Seq(Events) /\ batch \in Seq(Events) /\ failed \in Seq(Events)
  /\ process \in {"up", "stopping", "down", "refused"}
  /\ appended \in [Events -> {"no", "ok", "error"}]
  /\ copies \in [Events -> Nat] /\ stops \in Nat

\* The event is in memory, still to be handed over.
Waiting(e) == e \in Range(failed) \/ e \in Range(batch) \/ e \in Range(pending)

\* Between drains, and in a process that is not running, nothing is being drained.
DrainInv ==
  /\ dispatcher = "wait" => batch = <<>> /\ failed = <<>>
  /\ ~Running => dispatcher = "wait"

\* No event is twice in the file or twice in memory.
OnceInFile == \A i, j \in DOMAIN file : (file[i] = file[j] /\ file[i] # Torn) => i = j

OnceInMemory ==
  /\ IsInjective(failed) /\ IsInjective(batch) /\ IsInjective(pending)
  /\ Range(failed) \cap Range(batch) = {}
  /\ Range(failed) \cap Range(pending) = {}
  /\ Range(batch) \cap Range(pending) = {}

\* Where an event is: in the file and in memory only when it was appended, in both
\* while it is not published, and counted once more than the process ended only when
\* it has left memory.
EventInv(e) ==
  /\ appended[e] = "no" => /\ copies[e] = 0 /\ e \notin Range(file)
                           /\ Running => ~Waiting(e)
  /\ (appended[e] = "ok" /\ copies[e] = 0) => e \in Range(file) /\ (Running => Waiting(e))
  /\ copies[e] <= 1 + stops
  /\ (~Running \/ Waiting(e)) => copies[e] <= stops

OutboxInv ==
  /\ OutboxTypes /\ DrainInv /\ OnceInFile /\ (Running => OnceInMemory)
  /\ \A e \in Events : EventInv(e)

\* What an append leaves in the file, successful or not.
LEMMA FileGrows ==
  ASSUME OutboxTypes, OnceInFile, NEW e \in Events, e \notin Range(file),
         file' = Append(file, e) \/ \E rest \in Leftovers(e) : file' = file \o rest
  PROVE  /\ file' \in Seq(Events \cup {Torn}) /\ OnceInFile'
         /\ Range(file) \subseteq Range(file')
         /\ \A d \in Events : d \in Range(file') => (d = e \/ d \in Range(file))
<1>0. file \in Seq(Events \cup {Torn})
  BY Zenon DEF OutboxTypes
<1>1. file' = file \/ \E x \in {e, Torn} : file' = Append(file, x)
  BY <1>0 DEF Leftovers
<1>2. CASE file' = file
  BY <1>0, <1>2, Zenon DEF OnceInFile
<1>3. ASSUME NEW x \in {e, Torn}, file' = Append(file, x)
      PROVE  /\ file' \in Seq(Events \cup {Torn}) /\ OnceInFile'
             /\ Range(file) \subseteq Range(file')
             /\ \A d \in Events : d \in Range(file') => (d = e \/ d \in Range(file))
  <2>1. /\ file' \in Seq(Events \cup {Torn})
        /\ DOMAIN file = 1..Len(file) /\ Len(file) \in Nat /\ DOMAIN file' = 1..(Len(file) + 1)
        /\ file'[Len(file) + 1] = x /\ \A i \in 1..Len(file) : file'[i] = file[i]
    BY <1>0, <1>3
  <2>2. Range(file') = Range(file) \cup {x}
    BY <1>0, <1>3, RangeOfAppend, Zenon
  <2>3. x # Torn => x \notin Range(file)
    BY Zenon
  <2>4. OnceInFile'
    BY <2>1, <2>3 DEF OnceInFile, Range
  <2> QED
    BY <2>1, <2>2, <2>4, OutboxAssumption, Zenon
<1> QED
  BY <1>1, <1>2, <1>3, Zenon

\* append, by a request thread.
LEMMA AppendKeeps ==
  ASSUME OutboxInv, NEW e \in Events, append(e)
  PROVE  OutboxInv'
<1> USE DEF OutboxInv
<1>0. /\ process = "up" /\ Running /\ Running' /\ appended[e] = "no"
      /\ UNCHANGED <<batch, failed, dispatcher, process, copies, stops>>
  BY Zenon DEF append, drainVars, Running
<1>1. e \notin Range(file) /\ ~Waiting(e) /\ copies[e] = 0
  BY <1>0, Zenon DEF EventInv
<1>2. /\ file' \in Seq(Events \cup {Torn}) /\ OnceInFile'
      /\ Range(file) \subseteq Range(file')
      /\ \A d \in Events : d \in Range(file') => (d = e \/ d \in Range(file))
  BY <1>1, FileGrows, Zenon DEF append
<1>3. DrainInv'
  BY <1>0, Zenon DEF DrainInv
<1>4. CASE /\ file' = Append(file, e) /\ pending' = Append(pending, e)
           /\ appended' = [appended EXCEPT ![e] = "ok"]
  <2>1. pending \in Seq(Events) /\ appended \in [Events -> {"no", "ok", "error"}]
    BY Zenon DEF OutboxTypes
  <2>2. /\ Range(pending') = Range(pending) \cup {e}
        /\ IsInjective(pending')
    BY <1>0, <1>1, <1>4, <2>1, RangeOfAppend, Zenon DEF OnceInMemory, Waiting
  <2>3. e \in Range(file')
    BY <1>4, RangeOfAppend DEF OutboxTypes
  <2>4. \A d \in Events : Waiting(d)' <=> (d = e \/ Waiting(d))
    BY <1>0, <2>2, Zenon DEF Waiting
  <2>5. OnceInMemory'
    BY <1>0, <1>1, <2>2, Zenon DEF OnceInMemory, Waiting
  <2>6. OutboxTypes'
    BY <1>0, <1>2, <1>4, <2>1 DEF OutboxTypes
  <2>7. ASSUME NEW d \in Events PROVE EventInv(d)'
    <3>1. EventInv(d)
      BY Zenon
    <3>2. appended'[d] = (IF d = e THEN "ok" ELSE appended[d]) /\ copies'[d] = copies[d] /\ stops' = stops /\ stops \in Nat
      BY <1>0, <1>4, <2>1, Zenon DEF OutboxTypes
    <3>3. CASE d = e
      BY <1>0, <1>1, <2>3, <2>4, <3>2, <3>3 DEF EventInv
    <3>4. CASE d # e
      BY <1>0, <1>2, <2>4, <3>1, <3>2, <3>4, Zenon DEF EventInv
    <3> QED
      BY <3>3, <3>4, Zenon
  <2> QED
    BY <1>2, <1>3, <2>5, <2>6, <2>7, Zenon
<1>5. CASE pending' = pending /\ appended' = [appended EXCEPT ![e] = "error"]
  <2>1. OutboxTypes'
    BY <1>0, <1>2, <1>5, Zenon DEF OutboxTypes
  <2>2. OnceInMemory' /\ \A d \in Events : Waiting(d)' <=> Waiting(d)
    BY <1>0, <1>5, Zenon DEF OnceInMemory, Waiting
  <2>3. ASSUME NEW d \in Events PROVE EventInv(d)'
    <3>1. EventInv(d)
      BY Zenon
    <3>2. appended'[d] = (IF d = e THEN "error" ELSE appended[d]) /\ copies'[d] = copies[d] /\ stops' = stops
      BY <1>0, <1>5, Zenon DEF OutboxTypes
    <3> QED
      BY <1>0, <1>2, <2>2, <3>1, <3>2, Zenon DEF EventInv
  <2> QED
    BY <1>2, <1>3, <2>1, <2>2, <2>3, Zenon
<1> QED
  BY <1>4, <1>5, Zenon DEF append

\* The first critical section of drain.
LEMMA TakeKeeps ==
  ASSUME OutboxInv, wakeUp
  PROVE  OutboxInv'
<1> USE DEF OutboxInv
<1> DEFINE n == IF Len(pending) < Batch THEN Len(pending) ELSE Batch
<1>0. /\ Running /\ Running' /\ dispatcher = "wait" /\ dispatcher' # "wait"
      /\ batch' = SubSeq(pending, 1, n) /\ pending' = SubSeq(pending, n + 1, Len(pending))
      /\ UNCHANGED <<file, failed, process, appended, copies, stops>>
  BY Zenon DEF wakeUp, take, Running
<1>1. batch = <<>> /\ failed = <<>> /\ pending \in Seq(Events)
  BY <1>0, Zenon DEF DrainInv, OutboxTypes
<1>2. n \in 0..Len(pending)
  BY <1>1, OutboxAssumption
<1> HIDE DEF n
<1>3. /\ batch' \in Seq(Events) /\ pending' \in Seq(Events)
      /\ Range(pending) = Range(batch') \cup Range(pending')
      /\ IsInjective(batch') /\ IsInjective(pending') /\ Range(batch') \cap Range(pending') = {}
  BY <1>0, <1>1, <1>2, RangeOfParts, Zenon DEF OnceInMemory
<1>4. Range(failed) = {} /\ Range(batch) = {}
  BY <1>1 DEF Range
<1>5. OutboxTypes' /\ DrainInv' /\ OnceInFile'
  BY <1>0, <1>3, Zenon DEF OutboxTypes, DrainInv, OnceInFile
<1>6. OnceInMemory'
  BY <1>0, <1>3, <1>4, Zenon DEF OnceInMemory
<1>7. \A e \in Events : Waiting(e)' <=> Waiting(e)
  BY <1>0, <1>3, <1>4, Zenon DEF Waiting
<1>8. \A e \in Events : EventInv(e)'
  BY <1>0, <1>7, Zenon DEF EventInv
<1> QED
  BY <1>5, <1>6, <1>8, Zenon

\* drain hands one event of the batch to the publisher, which takes it.
LEMMA PublishedKeeps ==
  ASSUME OutboxInv, published
  PROVE  OutboxInv'
<1> USE DEF OutboxInv
<1> PICK h : h = Head(batch)
  BY Zenon
<1>0. /\ Running /\ Running' /\ batch # <<>> /\ batch' = Tail(batch)
      /\ copies' = [copies EXCEPT ![h] = copies[h] + 1]
      /\ UNCHANGED <<file, pending, failed, dispatcher, process, appended, stops>>
  BY Zenon DEF published, Running
<1>1. /\ batch \in Seq(Events) /\ copies \in [Events -> Nat] /\ stops \in Nat
      /\ IsInjective(batch)
  BY <1>0, Zenon DEF OutboxTypes, OnceInMemory
<1>2. /\ h \in Events /\ batch' \in Seq(Events)
      /\ Range(batch) = {h} \cup Range(batch') /\ IsInjective(batch') /\ h \notin Range(batch')
  BY <1>0, <1>1, RangeOfTail, Zenon
<1>3. Waiting(h) /\ ~Waiting(h)'
  <2>1. h \in Range(batch) /\ h \notin Range(failed) /\ h \notin Range(pending)
    BY <1>0, <1>2, Zenon DEF OnceInMemory
  <2> QED
    BY <1>0, <1>2, <2>1, Zenon DEF Waiting
<1>4. \A d \in Events \ {h} : Waiting(d)' <=> Waiting(d)
  BY <1>0, <1>2, Zenon DEF Waiting
<1>5. OutboxTypes' /\ OnceInFile'
  BY <1>0, <1>1, <1>2 DEF OutboxTypes, OnceInFile
<1>6. DrainInv'
  BY <1>0, <1>1, Zenon DEF DrainInv
<1>7. OnceInMemory'
  BY <1>0, <1>2, Zenon DEF OnceInMemory
<1>8. ASSUME NEW d \in Events PROVE EventInv(d)'
  <2>1. copies'[d] = (IF d = h THEN copies[h] + 1 ELSE copies[d]) /\ copies[d] \in Nat
    BY <1>0, <1>1, <1>2, Zenon
  <2>2. EventInv(d)
    BY Zenon
  <2>3. CASE d = h
    <3>1. Waiting(d) /\ ~Waiting(d)' /\ copies'[d] = copies[d] + 1
      BY <1>3, <2>1, <2>3, Zenon
    <3> QED
      BY <1>0, <1>1, <2>1, <2>2, <3>1, SMTT(30) DEF EventInv
  <2>4. CASE d # h
    BY <1>0, <1>4, <2>1, <2>2, <2>4, Zenon DEF EventInv
  <2> QED
    BY <2>3, <2>4, Zenon
<1> QED
  BY <1>5, <1>6, <1>7, <1>8, Zenon

\* ... or which refuses it.
LEMMA RefusedKeeps ==
  ASSUME OutboxInv, refused
  PROVE  OutboxInv'
<1> USE DEF OutboxInv
<1> DEFINE h == Head(batch)
<1>0. /\ Running /\ Running' /\ batch # <<>> /\ batch' = Tail(batch) /\ failed' = Append(failed, h)
      /\ UNCHANGED <<file, pending, dispatcher, process, appended, copies, stops>>
  BY Zenon DEF refused, Running
<1>1. /\ batch \in Seq(Events) /\ failed \in Seq(Events)
      /\ IsInjective(batch) /\ IsInjective(failed)
  BY <1>0, Zenon DEF OutboxTypes, OnceInMemory
<1>2. /\ h \in Events /\ batch' \in Seq(Events)
      /\ Range(batch) = {h} \cup Range(batch') /\ IsInjective(batch') /\ h \notin Range(batch')
  BY <1>0, <1>1, RangeOfTail, Zenon
<1> HIDE DEF h
<1>3. h \notin Range(failed)
  BY <1>0, <1>2, Zenon DEF OnceInMemory
<1>4. /\ failed' \in Seq(Events) /\ Range(failed') = Range(failed) \cup {h}
      /\ IsInjective(failed')
  BY <1>0, <1>1, <1>2, <1>3, RangeOfAppend
<1>5. OutboxTypes' /\ OnceInFile'
  BY <1>0, <1>2, <1>4, Zenon DEF OutboxTypes, OnceInFile
<1>6. DrainInv'
  BY <1>0, <1>1, Zenon DEF DrainInv
<1>7. OnceInMemory'
  BY <1>0, <1>2, <1>4, Zenon DEF OnceInMemory
<1>8. \A d \in Events : Waiting(d)' <=> Waiting(d)
  BY <1>0, <1>2, <1>4, Zenon DEF Waiting
<1>9. \A d \in Events : EventInv(d)'
  BY <1>0, <1>8, Zenon DEF EventInv
<1> QED
  BY <1>5, <1>6, <1>7, <1>9, Zenon

\* The second critical section of drain, with the rewrite that may fail.
LEMMA PutBackKeeps ==
  ASSUME OutboxInv, putBack
  PROVE  OutboxInv'
<1> USE DEF OutboxInv
<1>0. /\ Running /\ batch = <<>> /\ batch' = <<>> /\ failed' = <<>> /\ dispatcher' = "wait"
      /\ pending' = failed \o pending /\ file' \in {pending', file}
      /\ UNCHANGED <<appended, copies>>
  BY Zenon DEF putBack, Drained, Rewritten
<1>1. stops' \in {stops, stops + 1} /\ (~Running' => stops' = stops + 1) /\ process' \in {process, "down"}
  BY <1>0, Zenon DEF putBack, Drained, Running
<1>2. /\ pending \in Seq(Events) /\ failed \in Seq(Events) /\ stops \in Nat
      /\ IsInjective(pending) /\ IsInjective(failed) /\ Range(failed) \cap Range(pending) = {}
  BY <1>0, Zenon DEF OutboxTypes, OnceInMemory
<1>3. /\ pending' \in Seq(Events) /\ Range(pending') = Range(failed) \cup Range(pending)
      /\ IsInjective(pending')
  BY <1>0, <1>2, RangeOfJoin
<1>4. Range(batch) = {} /\ Range(batch') = {} /\ Range(failed') = {}
  BY <1>0 DEF Range
<1>5. \A d \in Events : Waiting(d)' <=> Waiting(d)
  BY <1>3, <1>4, Zenon DEF Waiting
<1>6. \A d \in Events : d \in Range(pending') <=> Waiting(d)
  BY <1>3, <1>4, Zenon DEF Waiting
<1>7. OutboxTypes'
  <2>1. pending' \in Seq(Events \cup {Torn})
    BY <1>3
  <2>2. file' \in Seq(Events \cup {Torn})
    BY <1>0, <2>1, Zenon DEF OutboxTypes
  <2>3. stops' \in Nat /\ process' \in {"up", "stopping", "down", "refused"}
    BY <1>1, <1>2 DEF OutboxTypes
  <2> QED
    BY <1>0, <1>3, <2>2, <2>3, Zenon DEF OutboxTypes
<1>8. DrainInv' /\ OnceInMemory'
  BY <1>0, <1>3, <1>4, Zenon DEF DrainInv, OnceInMemory
<1>9. OnceInFile'
  BY <1>0, <1>3, Zenon DEF OnceInFile, IsInjective
<1>10. ASSUME NEW d \in Events PROVE EventInv(d)'
  <2>1. EventInv(d) /\ copies[d] \in Nat
    BY Zenon DEF OutboxTypes
  <2>2. d \in Range(file') <=> (IF file' = file THEN d \in Range(file) ELSE Waiting(d))
    BY <1>0, <1>6, Zenon
  <2> QED
    BY <1>0, <1>1, <1>2, <1>5, <2>1, <2>2 DEF EventInv
<1> QED
  BY <1>7, <1>8, <1>9, <1>10, Zenon

\* A wait with nothing to publish, and the request to stop.
LEMMA QuietKeeps ==
  ASSUME OutboxInv, idle \/ stop
  PROVE  OutboxInv'
<1> USE DEF OutboxInv
<1>0. /\ Running /\ stops' \in {stops, stops + 1} /\ (~Running' => stops' = stops + 1)
      /\ process' \in {process, "stopping", "down"}
      /\ UNCHANGED <<file, pending, batch, failed, dispatcher, appended, copies>>
  BY Zenon DEF idle, stop, drainVars, Running
<1>1. ~Running' => dispatcher = "wait"
  BY Zenon DEF idle, stop, Running
<1>2. stops \in Nat /\ OutboxTypes'
  BY <1>0 DEF OutboxTypes
<1>3. DrainInv' /\ OnceInFile' /\ OnceInMemory'
  BY <1>0, <1>1, Zenon DEF DrainInv, OnceInFile, OnceInMemory
<1>4. ASSUME NEW d \in Events PROVE EventInv(d)'
  <2>1. EventInv(d) /\ copies[d] \in Nat /\ (Waiting(d)' <=> Waiting(d))
    BY <1>0, Zenon DEF OutboxTypes, Waiting
  <2> QED
    BY <1>0, <1>2, <2>1 DEF EventInv
<1> QED
  BY <1>2, <1>3, <1>4, Zenon

\* The process dies, perhaps in the middle of an append.
LEMMA DieKeeps ==
  ASSUME OutboxInv, die
  PROVE  OutboxInv'
<1> USE DEF OutboxInv
<1>0. /\ Running /\ ~Running' /\ process' = "down" /\ stops' = stops + 1 /\ dispatcher' = "wait"
      /\ pending' = <<>> /\ batch' = <<>> /\ failed' = <<>> /\ copies' = copies
  BY Zenon DEF die, Running
<1>1. /\ copies \in [Events -> Nat] /\ stops \in Nat /\ file \in Seq(Events \cup {Torn})
      /\ appended \in [Events -> {"no", "ok", "error"}]
  BY Zenon DEF OutboxTypes
<1>2. DrainInv'
  BY <1>0, Zenon DEF DrainInv
<1>3. CASE UNCHANGED <<file, appended>>
  <2>1. OutboxTypes' /\ OnceInFile'
    BY <1>0, <1>1, <1>3 DEF OutboxTypes, OnceInFile
  <2>2. ASSUME NEW d \in Events PROVE EventInv(d)'
    <3>1. EventInv(d) /\ copies[d] \in Nat
      BY <1>1, Zenon
    <3> QED
      BY <1>0, <1>1, <1>3, <3>1 DEF EventInv
  <2> QED
    BY <1>0, <1>2, <2>1, <2>2, Zenon
<1>4. ASSUME NEW e \in Events, process = "up", appended[e] = "no",
             \E rest \in Leftovers(e) : file' = file \o rest,
             appended' = [appended EXCEPT ![e] = "error"]
      PROVE  OutboxInv'
  <2>1. e \notin Range(file)
    BY <1>4, Zenon DEF EventInv
  <2>2. /\ file' \in Seq(Events \cup {Torn}) /\ OnceInFile'
        /\ Range(file) \subseteq Range(file')
        /\ \A d \in Events : d \in Range(file') => (d = e \/ d \in Range(file))
    BY <1>4, <2>1, FileGrows, Zenon
  <2>3. OutboxTypes'
    BY <1>0, <1>1, <1>4, <2>2 DEF OutboxTypes
  <2>4. ASSUME NEW d \in Events PROVE EventInv(d)'
    <3>1. EventInv(d) /\ copies[d] \in Nat /\ appended'[d] = (IF d = e THEN "error" ELSE appended[d])
      BY <1>1, <1>4, Zenon
    <3> QED
      BY <1>0, <1>1, <2>2, <3>1 DEF EventInv
  <2> QED
    BY <1>0, <1>2, <2>2, <2>3, <2>4, Zenon
<1> QED
  BY <1>3, <1>4, SMTT(30) DEF die

\* A process reads the file back, or rejects it.
LEMMA OpenKeeps ==
  ASSUME OutboxInv, open
  PROVE  OutboxInv'
<1> USE DEF OutboxInv
<1>0. /\ ~Running /\ process' \in {"up", "refused"}
      /\ UNCHANGED <<file, batch, failed, dispatcher, appended, copies, stops>>
  BY Zenon DEF open, drainVars, Running
<1>1. /\ file \in Seq(Events \cup {Torn}) /\ pending \in Seq(Events)
      /\ batch = <<>> /\ failed = <<>> /\ dispatcher = "wait" /\ copies \in [Events -> Nat]
  BY <1>0, Zenon DEF OutboxTypes, DrainInv
<1>2. Range(batch') = {} /\ Range(failed') = {} /\ IsInjective(batch') /\ IsInjective(failed')
  BY <1>0, <1>1 DEF Range, IsInjective
<1>3. DrainInv' /\ OnceInFile'
  BY <1>0, <1>1, Zenon DEF DrainInv, OnceInFile
<1>4. CASE Readable /\ process' = "up" /\ pending' = file
  <2>1. \A i \in 1..Len(file) : file[i] \in Events
    BY <1>1, <1>4 DEF Readable, Range
  <2>2. pending' \in Seq(Events)
    BY <1>1, <1>4, <2>1
  <2>3. IsInjective(pending')
    BY <1>1, <1>4, <2>1, OutboxAssumption DEF OnceInFile, IsInjective
  <2>4. OutboxTypes' /\ OnceInMemory'
    BY <1>0, <1>2, <1>4, <2>2, <2>3, Zenon DEF OutboxTypes, OnceInMemory
  <2>5. \A d \in Events : Waiting(d)' <=> d \in Range(file)
    BY <1>2, <1>4, SMTT(30) DEF Waiting
  <2>6. ASSUME NEW d \in Events PROVE EventInv(d)'
    BY <1>0, <1>4, <2>5, Zenon DEF EventInv
  <2> QED
    BY <1>3, <2>4, <2>6, Zenon
<1>5. CASE process' = "refused" /\ pending' = pending
  <2>1. OutboxTypes' /\ ~Running'
    BY <1>0, <1>5, Zenon DEF OutboxTypes, Running
  <2>2. ASSUME NEW d \in Events PROVE EventInv(d)'
    BY <1>0, <1>5, <2>1, Zenon DEF EventInv
  <2> QED
    BY <1>3, <2>1, <2>2, Zenon
<1> QED
  BY <1>4, <1>5, Zenon DEF open

\* Every step of the outbox keeps it.
LEMMA OutboxInvInductive == OutboxSpec => []OutboxInv
<1>1. OutboxInit => OutboxInv
  <2> SUFFICES ASSUME OutboxInit PROVE OutboxInv
    BY Zenon
  <2>1. OutboxTypes /\ DrainInv /\ OnceInFile
    BY DEF OutboxInit, OutboxTypes, DrainInv, OnceInFile
  <2>2. Range(file) = {} /\ Range(failed) = {} /\ Range(batch) = {} /\ Range(pending) = {}
    BY DEF OutboxInit, Range
  <2>3. OnceInMemory
    BY <2>2 DEF OutboxInit, OnceInMemory, IsInjective
  <2>4. \A e \in Events : EventInv(e)
    BY <2>2 DEF OutboxInit, EventInv, Waiting
  <2> QED
    BY <2>1, <2>3, <2>4, Zenon DEF OutboxInv
<1>2. OutboxInv /\ [OutboxNext]_outboxVars => OutboxInv'
  <2> SUFFICES ASSUME OutboxInv, [OutboxNext]_outboxVars PROVE OutboxInv'
    BY Zenon
  <2>1. CASE OutboxNext
    BY <2>1, AppendKeeps, TakeKeeps, PublishedKeeps, RefusedKeeps, PutBackKeeps,
       QuietKeeps, DieKeeps, OpenKeeps, SMTT(30) DEF OutboxNext
  <2>2. CASE UNCHANGED outboxVars
    BY <2>2, Zenon DEF outboxVars, OutboxInv, OutboxTypes, DrainInv, OnceInFile, OnceInMemory,
                EventInv, Waiting, Running
  <2> QED
    BY <2>1, <2>2, Zenon
<1> QED
  BY <1>1, <1>2, PTL DEF OutboxSpec

\* For any set of events and any batch size: an event whose append was acknowledged
\* stays in the file until the publisher has it, whatever drains, refused events,
\* failed rewrites, torn appends and restarts do (outbox.h:109, 122-129).
THEOREM AppendedIsKeptAlways == OutboxSpec => []AppendedIsKept
<1>1. OutboxInv => AppendedIsKept
  BY Zenon DEF OutboxInv, EventInv, AppendedIsKept
<1> QED
  BY <1>1, OutboxInvInductive, PTL

\* For any set of events and any batch size: one process never hands an event over
\* twice, so the number of copies is bounded by the ends of the process
\* (outbox.h:126-129).
THEOREM RedeliveredByRestartOnlyAlways == OutboxSpec => []RedeliveredByRestartOnly
<1>1. OutboxInv => RedeliveredByRestartOnly
  BY SMTT(30) DEF OutboxInv, EventInv, RedeliveredByRestartOnly
<1> QED
  BY <1>1, OutboxInvInductive, PTL

-----------------------------------------------------------------------------
(* The orders over Kafka.                                                  *)

Pcs == {"poll", "persist", "confirm", "failed", "compensate", "commit"}

Envelopes == [to : {"orders", "dlq"}, record : Records]

LogTypes ==
  /\ buffer \in Seq(Envelopes) /\ topic \in Seq(Records) /\ dlq \in Seq(Records)

ReplayTypes ==
  /\ replay \in [on : BOOLEAN, group : Nat, position : Nat, replayed : Nat]
  /\ replay.group <= inputs /\ (replay.on => replay.group # 0)
  /\ groups \in [1..MaxInputs -> Nat] /\ inputs \in 0..MaxInputs

ConsumerTypes ==
  /\ consumer \in [pc : Pcs, position : Nat, calls : Nat, refusal : BOOLEAN]
  /\ attempts = [i \in DOMAIN attempts |-> attempts[i]]
  /\ stock \in [Orders -> {"reserved", "confirmed", "released"}]
  /\ committed \in Nat

\* The consumer's place in the log.  While a record is handled its failures are
\* counted from the poll on, one for each call.
PlaceInv ==
  /\ DOMAIN attempts \subseteq 1..consumer.position
  /\ committed <= consumer.position /\ consumer.position <= Len(topic)
  /\ ~At("poll") => committed < consumer.position
  /\ consumer.pc \in {"persist", "confirm", "failed"} =>
       /\ consumer.position \in DOMAIN attempts
       /\ consumer.calls \in 1..Attempts /\ attempts[consumer.position] = consumer.calls - 1

\* What the steps before have done for the record that is being handled.
RecordInv ==
  /\ consumer.pc \in {"persist", "confirm", "compensate"} => Record \in Orders
  /\ At("confirm") => Record \in stored
  /\ At("compensate") => DeadLettered(Record)

Settled(i) == Sold(topic[i]) \/ DeadLettered(topic[i]) \/ i \in unsent \/ topic[i] \in lost

\* Left behind: every record before the position, and the one at it when its
\* handling is over.
LeftBehind(i) ==
  i < consumer.position \/ (i = consumer.position /\ consumer.pc \in {"poll", "commit"})

KafkaInv ==
  /\ LogTypes /\ ReplayTypes /\ ConsumerTypes /\ PlaceInv /\ RecordInv /\ StockFollowsOrder
  /\ \A i \in 1..Len(topic) : LeftBehind(i) => Settled(i)

\* Logs, buffer and replay may change while the consumer does nothing.
LEMMA LogsGrow ==
  ASSUME KafkaInv, UNCHANGED <<consumer, attempts, committed, stored, stock, unsent, lost>>,
         LogTypes', ReplayTypes', Len(topic) <= Len(topic'),
         \A i \in 1..Len(topic) : topic'[i] = topic[i],
         \A r : DeadLettered(r) => DeadLettered(r)'
  PROVE  KafkaInv'
<1> USE DEF KafkaInv
<1>0. Len(topic) \in Nat /\ Len(topic') \in Nat /\ consumer.position \in Nat
  BY DEF LogTypes, ConsumerTypes
<1>1. ConsumerTypes'
  BY SMTT(30) DEF ConsumerTypes
<1>2. PlaceInv'
  BY <1>0 DEF PlaceInv, At
<1>3. ~At("poll") => consumer.position \in 1..Len(topic)
  BY <1>0 DEF PlaceInv, ConsumerTypes
<1>4. RecordInv'
  <2>1. ~At("poll") => Record' = Record
    BY <1>3, ZenonT(30) DEF Record
  <2> QED
    BY <2>1, Zenon DEF RecordInv, At
<1>5. StockFollowsOrder'
  BY ZenonT(30) DEF StockFollowsOrder
<1>6. ASSUME NEW i \in 1..Len(topic'), LeftBehind(i)' PROVE Settled(i)'
  <2>1. LeftBehind(i) /\ i \in 1..Len(topic)
    BY <1>0, <1>6, SMTT(30) DEF LeftBehind, PlaceInv
  <2>2. Settled(i) /\ topic'[i] = topic[i]
    BY <2>1, Zenon
  <2> QED
    BY <2>2, Zenon DEF Settled, Sold
<1> QED
  BY <1>1, <1>2, <1>4, <1>5, <1>6, Zenon

\* push, by a request thread, and a replayed dead letter.
LEMMA BufferedGrows ==
  ASSUME LogTypes, NEW name \in {"orders", "dlq"}, NEW r \in Records,
         buffer' = Buffered(name, r)
  PROVE  /\ buffer' \in Seq(Envelopes)
         /\ Range(buffer') = Range(buffer) \cup {[to |-> name, record |-> r]}
<1>1. [to |-> name, record |-> r] \in Envelopes
  BY SMTT(30) DEF Envelopes
<1> QED
  BY <1>1, RangeOfAppend DEF LogTypes, Buffered

\* A message enters the producer's buffer.
LEMMA PushKeeps ==
  ASSUME KafkaInv, NEW o \in Records, push(o)
  PROVE  KafkaInv'
<1> USE DEF KafkaInv
<1>0. /\ buffer' = Buffered("orders", o)
      /\ UNCHANGED <<topic, dlq, consumer, attempts, committed, stored, stock, unsent,
                     lost, replay, groups>>
      /\ inputs < MaxInputs /\ inputs' = inputs + 1
  BY Zenon DEF push, Input, consumerVars, replayVars
<1>1. buffer' \in Seq(Envelopes) /\ Range(buffer) \subseteq Range(buffer')
  BY <1>0, BufferedGrows, SMTT(30)
<1>2. LogTypes' /\ \A r : DeadLettered(r) => DeadLettered(r)'
  BY <1>0, <1>1, Zenon DEF LogTypes, DeadLettered
<1>3. ReplayTypes'
  BY <1>0, KafkaAssumption DEF ReplayTypes
<1>4. Len(topic) <= Len(topic') /\ \A i \in 1..Len(topic) : topic'[i] = topic[i]
  BY <1>0, SMTT(30) DEF LogTypes
<1> QED
  BY <1>0, <1>2, <1>3, <1>4, LogsGrow, Zenon

\* librdkafka sends a record.
LEMMA TransmitKeeps ==
  ASSUME KafkaInv, transmit
  PROVE  KafkaInv'
<1> USE DEF KafkaInv
<1>0. /\ buffer # <<>> /\ buffer' = Tail(buffer)
      /\ UNCHANGED <<sent, consumer, attempts, committed, stored, stock, unsent, lost,
                     replay, groups, inputs>>
  BY Zenon DEF transmit, consumerVars, replayVars
<1>1. buffer \in Seq(Envelopes) /\ topic \in Seq(Records) /\ dlq \in Seq(Records)
  BY Zenon DEF LogTypes
<1> PICK m : m = Head(buffer)
  BY Zenon
<1>2. /\ m \in Envelopes /\ buffer' \in Seq(Envelopes) /\ Range(buffer) = {m} \cup Range(buffer')
  BY <1>0, <1>1, RangeOfTail, Zenon
<1>3. m.record \in Records /\ m.to \in {"orders", "dlq"} /\ m = [to |-> m.to, record |-> m.record]
  BY <1>2, Zenon DEF Envelopes
<1>4. /\ topic' = IF m.to = "orders" THEN Append(topic, m.record) ELSE topic
      /\ dlq' = IF m.to = "dlq" THEN Append(dlq, m.record) ELSE dlq
  BY Zenon DEF transmit
<1>5. /\ topic' \in Seq(Records) /\ Len(topic) <= Len(topic')
      /\ \A i \in 1..Len(topic) : topic'[i] = topic[i]
  BY <1>1, <1>3, <1>4
<1>6. dlq' \in Seq(Records) /\ Range(dlq') = IF m.to = "dlq" THEN Range(dlq) \cup {m.record} ELSE Range(dlq)
  <2>1. CASE m.to = "dlq"
    BY <1>1, <1>3, <1>4, <2>1, RangeOfAppend
  <2>2. CASE m.to # "dlq"
    BY <1>1, <1>4, <2>2, SMTT(30)
  <2> QED
    BY <2>1, <2>2, Zenon
<1>7. ASSUME NEW r, DeadLettered(r) PROVE DeadLettered(r)'
  <2>1. CASE r \in Range(dlq)
    BY <1>6, <2>1, Zenon DEF DeadLettered
  <2>2. CASE [to |-> "dlq", record |-> r] \in Range(buffer')
    BY <2>2, Zenon DEF DeadLettered
  <2>3. CASE m = [to |-> "dlq", record |-> r]
    BY <1>6, <2>3 DEF DeadLettered
  <2> QED
    BY <1>2, <1>7, <2>1, <2>2, <2>3, Zenon DEF DeadLettered
<1>8. LogTypes' /\ ReplayTypes'
  BY <1>0, <1>2, <1>5, <1>6, Zenon DEF LogTypes, ReplayTypes
<1> QED
  BY <1>0, <1>5, <1>7, <1>8, LogsGrow, Zenon

\* The replay of dead letters.
LEMMA ReplayKeeps ==
  ASSUME KafkaInv, startReplay \/ replayOne \/ endReplay
  PROVE  KafkaInv'
<1> USE DEF KafkaInv
<1>0. UNCHANGED <<topic, dlq, consumer, attempts, committed, stored, stock, unsent, lost>>
  BY Zenon DEF startReplay, replayOne, endReplay, consumerVars
<1>1. Len(topic) <= Len(topic') /\ \A i \in 1..Len(topic) : topic'[i] = topic[i]
  BY <1>0 DEF LogTypes
<1>2. LogTypes' /\ (\A r : DeadLettered(r) => DeadLettered(r)') /\ ReplayTypes'
  <2>1. CASE startReplay
    <3>1. /\ buffer' = buffer /\ groups' = groups /\ inputs < MaxInputs /\ inputs' = inputs + 1
          /\ replay' = [on |-> TRUE, group |-> replay.group + 1,
                        position |-> groups[replay.group + 1], replayed |-> 0]
      BY <2>1, Zenon DEF startReplay, Input
    <3>2. replay.group + 1 \in 1..MaxInputs /\ replay.group + 1 <= inputs' /\ inputs' \in 0..MaxInputs
      BY <3>1, KafkaAssumption DEF ReplayTypes
    <3>3. ReplayTypes'
      BY <3>1, <3>2, SMTT(30) DEF ReplayTypes
    <3> QED
      BY <1>0, <3>1, <3>3, Zenon DEF LogTypes, DeadLettered
  <2>2. CASE replayOne
    <3>1. /\ replay.on /\ replay.position < Len(dlq) /\ inputs' = inputs
          /\ buffer' = Buffered("orders", dlq[replay.position + 1])
          /\ replay' = [replay EXCEPT !.position = replay.position + 1, !.replayed = replay.replayed + 1]
          /\ groups' = [groups EXCEPT ![replay.group] = replay.position + 1]
      BY <2>2, Zenon DEF replayOne
    <3>2. dlq[replay.position + 1] \in Records
      BY <3>1 DEF LogTypes, ReplayTypes
    <3>3. buffer' \in Seq(Envelopes) /\ Range(buffer) \subseteq Range(buffer')
      BY <3>1, <3>2, BufferedGrows, Zenon
    <3>4. replay' = [on |-> replay.on, group |-> replay.group, position |-> replay.position + 1,
                     replayed |-> replay.replayed + 1]
      BY <3>1, Zenon DEF ReplayTypes
    <3>5. replay.group \in 1..MaxInputs /\ replay.position + 1 \in Nat
      BY <3>1, KafkaAssumption DEF ReplayTypes
    <3>6. groups' \in [1..MaxInputs -> Nat]
      BY <3>1, <3>5, Zenon DEF ReplayTypes
    <3>7. replay' \in [on : BOOLEAN, group : Nat, position : Nat, replayed : Nat]
      BY <3>4 DEF ReplayTypes
    <3>8. replay'.group = replay.group
      BY <3>4, Zenon
    <3>9. ReplayTypes'
      BY <3>1, <3>5, <3>6, <3>7, <3>8, SMTT(30) DEF ReplayTypes
    <3> QED
      BY <1>0, <3>3, <3>9, Zenon DEF LogTypes, DeadLettered
  <2>3. CASE endReplay
    <3>1. /\ buffer' = buffer /\ groups' = groups /\ inputs' = inputs
          /\ replay' = [on |-> FALSE, group |-> replay.group, position |-> replay.position,
                        replayed |-> replay.replayed]
      BY <2>3, ZenonT(30) DEF endReplay, ReplayTypes
    <3>2. ReplayTypes'
      BY <3>1, Zenon DEF ReplayTypes
    <3> QED
      BY <1>0, <3>1, <3>2, Zenon DEF LogTypes, DeadLettered
  <2> QED
    BY <2>1, <2>2, <2>3, SMTT(30)
<1> QED
  BY <1>0, <1>1, <1>2, LogsGrow, Zenon

\* What a step of the consumer leaves alone, and what was settled stays settled.
LEMMA ConsumerFrame ==
  ASSUME KafkaInv, Others,
         buffer' = buffer \/ (buffer' = Buffered("dlq", Record) /\ Record \in Records),
         stored \subseteq stored', unsent \subseteq unsent',
         \A o \in Orders : stock[o] = "confirmed" => stock'[o] = "confirmed"
  PROVE  /\ LogTypes' /\ ReplayTypes' /\ topic' = topic /\ lost' = lost
         /\ \A r : DeadLettered(r) => DeadLettered(r)'
         /\ \A i : Settled(i) => Settled(i)'
<1> USE DEF KafkaInv
<1>0. UNCHANGED <<topic, dlq, lost, replay, groups, inputs>>
  BY ZenonT(30) DEF Others, replayVars
<1>1. buffer' \in Seq(Envelopes) /\ Range(buffer) \subseteq Range(buffer')
  BY BufferedGrows, ZenonT(30) DEF LogTypes
<1>2. LogTypes' /\ ReplayTypes' /\ \A r : DeadLettered(r) => DeadLettered(r)'
  BY <1>0, <1>1, Zenon DEF LogTypes, ReplayTypes, DeadLettered
<1>3. \A r : Sold(r) => Sold(r)'
  BY SMTT(30) DEF Sold
<1>4. \A i : Settled(i) => Settled(i)'
  BY <1>0, <1>2, <1>3, Zenon DEF Settled
<1> QED
  BY <1>0, <1>2, <1>4, Zenon

\* The fields of the consumer, and the record it handles.
LEMMA Handled ==
  ASSUME KafkaInv
  PROVE  /\ consumer.pc \in Pcs /\ consumer.position \in Nat /\ consumer.calls \in Nat
         /\ consumer.refusal \in BOOLEAN /\ Len(topic) \in Nat
         /\ ~At("poll") => /\ consumer.position \in 1..Len(topic) /\ Record \in Records
                           /\ Record \notin Garbled => Record \in Orders
<1> USE DEF KafkaInv
<1>1. /\ consumer.pc \in Pcs /\ consumer.position \in Nat /\ consumer.calls \in Nat
      /\ consumer.refusal \in BOOLEAN /\ Len(topic) \in Nat /\ committed \in Nat
  BY DEF ConsumerTypes, LogTypes
<1>2. ~At("poll") => consumer.position \in 1..Len(topic)
  BY <1>1 DEF PlaceInv
<1> QED
  BY <1>1, <1>2 DEF LogTypes, Record, Records

\* A record set aside is left behind; going on with a record does not leave it.
LEMMA PollKeeps ==
  ASSUME KafkaInv, poll
  PROVE  KafkaInv'
<1> USE DEF KafkaInv
<1> DEFINE p == consumer.position
           pc == IF topic[p + 1] \in Garbled THEN "failed" ELSE "persist"
<1>0. /\ At("poll") /\ p < Len(topic) /\ Others
      /\ consumer' = [consumer EXCEPT !.position = p + 1, !.calls = 1, !.refusal = FALSE, !.pc = pc]
      /\ attempts' = [i \in DOMAIN attempts \cup {p + 1} |-> IF i \in DOMAIN attempts THEN attempts[i] ELSE 0]
      /\ UNCHANGED <<buffer, committed, stored, stock, unsent>>
  BY Zenon DEF poll
<1>1. p \in Nat /\ Len(topic) \in Nat /\ committed \in Nat /\ topic \in Seq(Records)
  BY Handled, Zenon DEF ConsumerTypes, LogTypes
<1>2. consumer'.pc = pc /\ consumer'.position = p + 1 /\ consumer'.calls = 1
  BY <1>0, Zenon DEF ConsumerTypes
<1>3. /\ LogTypes' /\ ReplayTypes' /\ topic' = topic /\ lost' = lost
      /\ \A r : DeadLettered(r) => DeadLettered(r)'
      /\ \A i : Settled(i) => Settled(i)'
  BY <1>0, ConsumerFrame, Zenon
<1>4. ConsumerTypes'
  <2>0. pc \in Pcs
    BY Zenon DEF Pcs
  <2>1. consumer' = [pc |-> pc, position |-> p + 1, calls |-> 1, refusal |-> FALSE]
    BY <1>0, Zenon DEF ConsumerTypes
  <2>2. attempts' = [i \in DOMAIN attempts' |-> attempts'[i]]
    BY <1>0, Zenon
  <2>3. consumer' \in [pc : Pcs, position : Nat, calls : Nat, refusal : BOOLEAN]
    BY <1>1, <2>0, <2>1
  <2> QED
    BY <1>0, <2>2, <2>3, Zenon DEF ConsumerTypes
<1>5. PlaceInv'
  <2>1. DOMAIN attempts \subseteq 1..p /\ committed <= p
    BY Zenon DEF PlaceInv
  <2>2. p + 1 \notin DOMAIN attempts
    BY <1>1, <2>1
  <2>3. DOMAIN attempts' = DOMAIN attempts \cup {p + 1} /\ attempts'[p + 1] = 0
    BY <1>0, <2>2, Zenon
  <2>4. DOMAIN attempts' \subseteq 1..(p + 1)
    BY <1>1, <2>1, <2>3
  <2> HIDE DEF p, pc
  <2> QED
    BY <1>0, <1>1, <1>2, <1>3, <2>1, <2>3, <2>4, KafkaAssumption DEF PlaceInv, At
<1>6. RecordInv'
  <2>1. Record' = topic[p + 1] /\ topic[p + 1] \in Records
    BY <1>0, <1>1, <1>2, <1>3 DEF Record
  <2>2. consumer'.pc = "persist" => Record' \in Orders
    BY <1>2, <2>1, Zenon DEF Records
  <2> QED
    BY <1>2, <2>2, Zenon DEF RecordInv, At
<1>7. StockFollowsOrder'
  BY <1>0, <1>3, Zenon DEF StockFollowsOrder
<1>8. ASSUME NEW i \in 1..Len(topic'), LeftBehind(i)' PROVE Settled(i)'
  <2>1. LeftBehind(i)
    BY <1>0, <1>1, <1>2, <1>8, SMTT(30) DEF LeftBehind, At
  <2> QED
    BY <1>3, <2>1, Zenon
<1> QED
  BY <1>3, <1>4, <1>5, <1>6, <1>7, <1>8, Zenon

\* What remains to be shown of a step that goes on with the polled record or ends
\* its handling, once its effect on the consumer is known.
LEMMA HandlingKeeps ==
  ASSUME KafkaInv, Others, ~At("poll"), UNCHANGED committed \/ At("commit"),
         committed' \in {committed, consumer.position},
         buffer' = buffer \/ (buffer' = Buffered("dlq", Record) /\ Record \in Records),
         stored \subseteq stored', unsent \subseteq unsent',
         \A o \in Orders : stock[o] = "confirmed" => stock'[o] = "confirmed",
         ConsumerTypes', DOMAIN attempts' = DOMAIN attempts,
         consumer'.position = consumer.position,
         consumer'.pc = "poll" \/ UNCHANGED committed,
         RecordInv', StockFollowsOrder',
         consumer'.pc \in {"persist", "confirm", "failed"} =>
           /\ consumer'.position \in DOMAIN attempts' /\ consumer'.calls \in 1..Attempts
           /\ attempts'[consumer'.position] = consumer'.calls - 1,
         consumer'.pc \in {"poll", "commit"} => Settled(consumer.position)'
  PROVE  KafkaInv'
<1> USE DEF KafkaInv
<1>1. /\ LogTypes' /\ ReplayTypes' /\ topic' = topic
      /\ \A i : Settled(i) => Settled(i)'
  BY ConsumerFrame, SMTT(30)
<1>2. /\ consumer.position \in Nat /\ committed \in Nat /\ Len(topic) \in Nat
      /\ consumer.position <= Len(topic) /\ committed < consumer.position
  BY Handled, ZenonT(30) DEF PlaceInv, ConsumerTypes
<1>3. PlaceInv'
  BY <1>1, <1>2, SMTT(30) DEF PlaceInv, At
<1>4. ASSUME NEW i \in 1..Len(topic'), LeftBehind(i)' PROVE Settled(i)'
  <2>1. CASE i = consumer.position
    BY <1>2, <1>4, <2>1, SMTT(30) DEF LeftBehind
  <2>2. CASE i # consumer.position
    BY <1>1, <1>4, <2>2, Zenon DEF LeftBehind
  <2> QED
    BY <2>1, <2>2, ZenonT(30)
<1> QED
  BY <1>1, <1>3, <1>4, ZenonT(30)

\* The consumer goes on with the record at hand.
LEMMA GoesOn ==
  ASSUME ConsumerTypes, NEW pc \in Pcs, NEW refusal \in BOOLEAN,
         consumer' = [consumer EXCEPT !.pc = pc, !.refusal = refusal]
  PROVE  /\ consumer'.pc = pc /\ consumer'.position = consumer.position
         /\ consumer'.calls = consumer.calls
         /\ consumer' \in [pc : Pcs, position : Nat, calls : Nat, refusal : BOOLEAN]
<1>1. consumer' = [pc |-> pc, position |-> consumer.position, calls |-> consumer.calls,
                   refusal |-> refusal]
  BY Zenon DEF ConsumerTypes
<1>2. consumer.position \in Nat /\ consumer.calls \in Nat
  BY Zenon DEF ConsumerTypes
<1> QED
  BY <1>1, <1>2, Zenon

\* The consumer goes to another step with the record at hand.
LEMMA GoesTo ==
  ASSUME ConsumerTypes, NEW pc \in Pcs, GoTo(pc)
  PROVE  /\ consumer'.pc = pc /\ consumer'.position = consumer.position
         /\ consumer'.calls = consumer.calls
         /\ consumer' \in [pc : Pcs, position : Nat, calls : Nat, refusal : BOOLEAN]
<1>1. consumer' = [consumer EXCEPT !.pc = pc, !.refusal = consumer.refusal]
  BY Zenon DEF GoTo, ConsumerTypes
<1>2. consumer.refusal \in BOOLEAN
  BY Zenon DEF ConsumerTypes
<1> QED
  BY <1>1, <1>2, GoesOn, Zenon

\* The order is stored, or found, or refused.
LEMMA PersistKeeps ==
  ASSUME KafkaInv, persist
  PROVE  KafkaInv'
<1> USE DEF KafkaInv
<1>0. /\ At("persist") /\ Others /\ UNCHANGED <<buffer, attempts, committed, stock, unsent>>
      /\ stored' \in {stored, stored \cup {Record}}
  BY Zenon DEF persist
<1>1. PICK pc \in {"confirm", "failed"} : GoTo(pc) /\ (pc = "confirm" => Record \in stored')
  BY Zenon DEF persist
<1>2. /\ consumer'.pc = pc /\ consumer'.position = consumer.position
      /\ consumer'.calls = consumer.calls
      /\ consumer' \in [pc : Pcs, position : Nat, calls : Nat, refusal : BOOLEAN]
  BY <1>1, GoesTo, Zenon DEF Pcs
<1>3. ConsumerTypes'
  BY <1>0, <1>2, ZenonT(30) DEF ConsumerTypes
<1>4. topic' = topic /\ lost' = lost /\ (\A r : DeadLettered(r) => DeadLettered(r)')
  BY <1>0, ConsumerFrame, Zenon
<1>5. RecordInv'
  <2>1. Record' = Record /\ Record \in Orders
    BY <1>0, <1>2, <1>4, Zenon DEF RecordInv, Record, At
  <2> QED
    BY <1>1, <1>2, <2>1, Zenon DEF RecordInv, At
<1>6. StockFollowsOrder'
  BY <1>0, <1>4, Zenon DEF StockFollowsOrder
<1>7. /\ consumer.position \in DOMAIN attempts /\ consumer.calls \in 1..Attempts
      /\ attempts[consumer.position] = consumer.calls - 1
  BY <1>0, SMTT(30) DEF PlaceInv, At
<1> QED
  BY <1>0, <1>1, <1>2, <1>3, <1>5, <1>6, <1>7, HandlingKeeps, Zenon DEF At

\* The stock is confirmed.
LEMMA ConfirmKeeps ==
  ASSUME KafkaInv, confirm
  PROVE  KafkaInv'
<1> USE DEF KafkaInv
<1> DEFINE p == consumer.position
           confirmed == [stock EXCEPT ![Record] = "confirmed"]
<1>0. At("confirm") /\ Others /\ UNCHANGED <<buffer, committed, stored, unsent>>
  BY Zenon DEF confirm
<1>1. /\ Record \in Orders /\ Record \in stored /\ p \in DOMAIN attempts
      /\ consumer.calls \in 1..Attempts /\ attempts[p] = consumer.calls - 1
  BY <1>0, Zenon DEF RecordInv, PlaceInv, At
<1>2. stock \in [Orders -> {"reserved", "confirmed", "released"}]
  BY Zenon DEF ConsumerTypes
<1>3. stock' = stock \/ (stock' = confirmed /\ stock[Record] # "released")
  BY Zenon DEF confirm
<1>4. /\ stock' \in [Orders -> {"reserved", "confirmed", "released"}]
      /\ \A o \in Orders : stock'[o] = stock[o] \/ (stock'[o] = "confirmed" /\ o = Record)
  BY <1>1, <1>2, <1>3, SMTT(30)
<1>5. /\ topic' = topic /\ lost' = lost /\ (\A r : DeadLettered(r) => DeadLettered(r)')
      /\ \A i : Settled(i) => Settled(i)'
  BY <1>0, <1>4, ConsumerFrame, SMTT(30)
<1>6. StockFollowsOrder'
  BY <1>0, <1>1, <1>4, <1>5, ZenonT(30) DEF StockFollowsOrder
<1> HIDE DEF confirmed
<1>7. CASE stock' = confirmed /\ GoTo("commit") /\ attempts' = [attempts EXCEPT ![p] = 0]
  <2>1. /\ consumer'.pc = "commit" /\ consumer'.position = p
        /\ consumer' \in [pc : Pcs, position : Nat, calls : Nat, refusal : BOOLEAN]
    BY <1>7, GoesTo, Zenon DEF Pcs
  <2>2. DOMAIN attempts' = DOMAIN attempts /\ attempts' = [i \in DOMAIN attempts' |-> attempts'[i]]
    BY <1>7, Zenon
  <2>3. ConsumerTypes'
    BY <1>0, <1>4, <2>1, <2>2, Zenon DEF ConsumerTypes
  <2>4. RecordInv'
    BY <2>1, Zenon DEF RecordInv, At
  <2>5. Sold(topic[p])'
    <3>1. stock'[Record] = "confirmed"
      BY <1>1, <1>2, <1>7, Zenon DEF confirmed
    <3>2. topic'[consumer'.position] = Record
      BY <1>5, <2>1, Zenon DEF Record
    <3> QED
      BY <1>0, <1>1, <3>1, <3>2, Zenon DEF Sold
  <2>6. Settled(p)'
    BY <1>5, <2>5, Zenon DEF Settled
  <2> QED
    BY <1>0, <1>4, <1>6, <2>1, <2>2, <2>3, <2>4, <2>6, HandlingKeeps, Zenon DEF At
<1>8. CASE attempts' = attempts /\ \E refusal \in BOOLEAN :
             consumer' = [consumer EXCEPT !.pc = "failed", !.refusal = refusal]
  <2>1. /\ consumer'.pc = "failed" /\ consumer'.position = p /\ consumer'.calls = consumer.calls
        /\ consumer' \in [pc : Pcs, position : Nat, calls : Nat, refusal : BOOLEAN]
    BY <1>8, GoesOn, Zenon DEF Pcs
  <2>2. ConsumerTypes'
    <3>1. attempts' = attempts
      BY <1>8, Zenon
    <3> QED
      BY <1>0, <1>4, <2>1, <3>1, ZenonT(30) DEF ConsumerTypes
  <2>3. RecordInv'
    BY <2>1, Zenon DEF RecordInv, At
  <2> QED
    BY <1>0, <1>1, <1>4, <1>6, <1>8, <2>1, <2>2, <2>3, HandlingKeeps, SMTT(30) DEF At
<1>9. GoTo("failed") => \E refusal \in BOOLEAN :
             consumer' = [consumer EXCEPT !.pc = "failed", !.refusal = refusal]
  <2>1. GoTo("failed") => consumer' = [consumer EXCEPT !.pc = "failed", !.refusal = consumer.refusal]
    BY ZenonT(30) DEF GoTo, ConsumerTypes
  <2> QED
    BY <2>1, Zenon DEF ConsumerTypes
<1> QED
  BY <1>7, <1>8, <1>9, Zenon DEF confirm, confirmed

\* handle is called again, or the record is given up.
LEMMA RetryGoesOn ==
  ASSUME KafkaInv, At("failed"), Retry
  PROVE  /\ consumer' \in [pc : Pcs, position : Nat, calls : Nat, refusal : BOOLEAN]
         /\ consumer'.position = consumer.position
         /\ consumer.calls < Attempts =>
              /\ consumer'.calls = consumer.calls + 1
              /\ consumer'.pc = IF Record \in Garbled THEN "failed" ELSE "persist"
         /\ ~(consumer.calls < Attempts) => consumer'.pc = "poll"
<1>0. consumer.position \in Nat /\ consumer.calls \in Nat
  BY Handled, Zenon
<1>1. CASE consumer.calls < Attempts
  <2>1. PICK pc : pc = IF Record \in Garbled THEN "failed" ELSE "persist"
    BY Zenon
  <2>2. consumer' = [consumer EXCEPT !.calls = consumer.calls + 1, !.refusal = FALSE, !.pc = pc]
    BY <1>1, <2>1, Zenon DEF Retry
  <2>3. consumer' = [pc |-> pc, position |-> consumer.position, calls |-> consumer.calls + 1,
                     refusal |-> FALSE]
    BY <2>2, Zenon DEF KafkaInv, ConsumerTypes
  <2>4. pc \in Pcs
    BY <2>1, Zenon DEF Pcs
  <2> QED
    BY <1>0, <1>1, <2>1, <2>3, <2>4
<1>2. CASE ~(consumer.calls < Attempts)
  <2>1. consumer' = [pc |-> "poll", position |-> consumer.position, calls |-> 0, refusal |-> FALSE]
    BY <1>2, SMTT(30) DEF Retry, Polling
  <2> QED
    BY <1>0, <1>2, <2>1, Zenon DEF Pcs
<1> QED
  BY <1>1, <1>2, Zenon

\* An attempt failed.
LEMMA FailedKeeps ==
  ASSUME KafkaInv, handleFailed
  PROVE  KafkaInv'
<1> USE DEF KafkaInv
<1> DEFINE p == consumer.position
           count == attempts[p] + 1
<1>0. At("failed") /\ Others /\ UNCHANGED <<committed, stored, stock>>
  BY SMTT(30) DEF handleFailed
<1>1. /\ Record \in Records /\ (Record \notin Garbled => Record \in Orders) /\ p \in DOMAIN attempts
      /\ consumer.calls \in 1..Attempts /\ count = consumer.calls /\ consumer.calls \in Nat
  BY <1>0, Handled DEF PlaceInv, At
<1>2. ASSUME NEW c, attempts' = [attempts EXCEPT ![p] = c]
      PROVE  /\ DOMAIN attempts' = DOMAIN attempts /\ attempts'[p] = c
             /\ attempts' = [i \in DOMAIN attempts' |-> attempts'[i]]
  BY <1>1, <1>2, ZenonT(30)
<1>3. ASSUME buffer' = buffer \/ buffer' = Buffered("dlq", Record), unsent \subseteq unsent'
      PROVE  /\ topic' = topic /\ lost' = lost /\ (\A r : DeadLettered(r) => DeadLettered(r)')
             /\ StockFollowsOrder'
  <2>1. topic' = topic /\ lost' = lost /\ (\A r : DeadLettered(r) => DeadLettered(r)')
    BY <1>0, <1>1, <1>3, ConsumerFrame, Zenon
  <2> QED
    BY <1>0, <2>1, Zenon DEF StockFollowsOrder
<1>4. CASE /\ count < Attempts /\ attempts' = [attempts EXCEPT ![p] = count]
           /\ Retry /\ UNCHANGED <<buffer, unsent>>
  <2>1. /\ consumer' \in [pc : Pcs, position : Nat, calls : Nat, refusal : BOOLEAN]
        /\ consumer'.position = p /\ consumer'.calls = consumer.calls + 1
        /\ consumer'.pc = IF Record \in Garbled THEN "failed" ELSE "persist"
    BY <1>0, <1>1, <1>4, RetryGoesOn, ZenonT(30)
  <2>2. /\ DOMAIN attempts' = DOMAIN attempts /\ attempts'[p] = count
        /\ attempts' = [i \in DOMAIN attempts' |-> attempts'[i]]
    BY <1>2, <1>4, ZenonT(30)
  <2>3. ConsumerTypes'
    BY <1>0, <2>1, <2>2, Zenon DEF ConsumerTypes
  <2>4. Record' = Record /\ StockFollowsOrder'
    BY <1>3, <1>4, <2>1, Zenon DEF Record
  <2>5. RecordInv'
    BY <1>1, <2>1, <2>4, ZenonT(30) DEF RecordInv, At
  <2>6. consumer'.calls \in 1..Attempts /\ attempts'[p] = consumer'.calls - 1
    BY <1>1, <1>4, <2>1, <2>2, KafkaAssumption
  <2> QED
    BY <1>0, <1>1, <1>4, <2>1, <2>2, <2>3, <2>4, <2>5, <2>6, HandlingKeeps, ZenonT(30) DEF At
<1>5. CASE /\ count >= Attempts /\ attempts' = [attempts EXCEPT ![p] = Attempts]
           /\ unsent' = unsent \cup {p} /\ UNCHANGED buffer
           /\ IF consumer.refusal THEN GoTo("commit") ELSE Retry
  <2>1. /\ consumer' \in [pc : Pcs, position : Nat, calls : Nat, refusal : BOOLEAN]
        /\ consumer'.position = p /\ consumer'.pc \in {"poll", "commit"}
    <3>1. CASE GoTo("commit")
      BY <3>1, GoesTo, SMTT(30) DEF Pcs
    <3>2. CASE Retry
      BY <1>0, <1>1, <1>5, <3>2, RetryGoesOn, KafkaAssumption
    <3> QED
      BY <1>5, <3>1, <3>2, SMTT(30)
  <2>2. /\ DOMAIN attempts' = DOMAIN attempts
        /\ attempts' = [i \in DOMAIN attempts' |-> attempts'[i]]
    BY <1>2, <1>5, ZenonT(30)
  <2>3. ConsumerTypes'
    BY <1>0, <2>1, <2>2, Zenon DEF ConsumerTypes
  <2>4. StockFollowsOrder' /\ RecordInv'
    BY <1>3, <1>5, <2>1, ZenonT(30) DEF RecordInv, At
  <2>5. Settled(p)'
    BY <1>5, <2>1, SMTT(30) DEF Settled
  <2> QED
    BY <1>0, <1>5, <2>1, <2>2, <2>3, <2>4, <2>5, HandlingKeeps, Zenon DEF At
<1>6. CASE /\ buffer' = Buffered("dlq", Record) /\ UNCHANGED unsent
           /\ attempts' = [attempts EXCEPT ![p] = 0]
           /\ GoTo(IF Record \in Garbled THEN "commit" ELSE "compensate")
  <2>1. /\ consumer' \in [pc : Pcs, position : Nat, calls : Nat, refusal : BOOLEAN]
        /\ consumer'.position = p
        /\ consumer'.pc = IF Record \in Garbled THEN "commit" ELSE "compensate"
    BY <1>6, GoesTo, ZenonT(30) DEF Pcs
  <2>2. /\ DOMAIN attempts' = DOMAIN attempts
        /\ attempts' = [i \in DOMAIN attempts' |-> attempts'[i]]
    BY <1>2, <1>6, Zenon
  <2>3. ConsumerTypes'
    BY <1>0, <2>1, <2>2, ZenonT(30) DEF ConsumerTypes
  <2>4. Record' = Record /\ StockFollowsOrder' /\ topic' = topic
    BY <1>3, <1>6, <2>1, ZenonT(30) DEF Record
  <2>5. [to |-> "dlq", record |-> Record] \in Range(buffer')
    BY <1>1, <1>6, BufferedGrows, ZenonT(30)
  <2>6. DeadLettered(Record)' /\ Settled(p)'
    BY <2>1, <2>4, <2>5, ZenonT(30) DEF DeadLettered, Settled, Record
  <2>7. RecordInv'
    BY <1>1, <2>1, <2>4, <2>6, ZenonT(30) DEF RecordInv, At
  <2> QED
    BY <1>0, <1>1, <1>6, <2>1, <2>2, <2>3, <2>4, <2>6, <2>7, HandlingKeeps, ZenonT(30) DEF At
<1> QED
  BY <1>4, <1>5, <1>6, ZenonT(30) DEF handleFailed

\* The order is given up: its stock is released.
LEMMA CompensateKeeps ==
  ASSUME KafkaInv, compensate
  PROVE  KafkaInv'
<1> USE DEF KafkaInv
<1> DEFINE p == consumer.position
<1>0. /\ At("compensate") /\ Others /\ GoTo("commit")
      /\ UNCHANGED <<buffer, attempts, committed, stored, unsent>>
  BY ZenonT(30) DEF compensate
<1>1. Record \in Orders /\ DeadLettered(Record)
  BY <1>0, ZenonT(30) DEF RecordInv, At
<1>2. /\ stock' \in [Orders -> {"reserved", "confirmed", "released"}]
      /\ \A o \in Orders : \/ stock'[o] = stock[o]
                           \/ o = Record /\ stock[o] = "reserved" /\ stock'[o] = "released"
  BY <1>1, ZenonT(30) DEF compensate, ConsumerTypes
<1>3. /\ consumer'.pc = "commit" /\ consumer'.position = p
      /\ consumer' \in [pc : Pcs, position : Nat, calls : Nat, refusal : BOOLEAN]
  BY <1>0, GoesTo, Zenon DEF Pcs
<1>4. ConsumerTypes'
  BY <1>0, <1>2, <1>3, ZenonT(30) DEF ConsumerTypes
<1>5. \A o \in Orders : stock[o] = "confirmed" => stock'[o] = "confirmed"
  BY <1>2, Zenon
<1>6. topic' = topic /\ lost' = lost /\ (\A r : DeadLettered(r) => DeadLettered(r)')
  BY <1>0, <1>5, ConsumerFrame, ZenonT(30)
<1>7. StockFollowsOrder'
  BY <1>0, <1>1, <1>2, <1>6, ZenonT(30) DEF StockFollowsOrder
<1>8. RecordInv'
  BY <1>3, SMTT(30) DEF RecordInv, At
<1>9. Settled(p)'
  <2>1. topic'[consumer'.position] = Record
    BY <1>3, <1>6, SMTT(30) DEF Record
  <2> QED
    BY <1>1, <1>6, <2>1, SMTT(30) DEF Settled
<1> QED
  BY <1>0, <1>3, <1>4, <1>5, <1>7, <1>8, <1>9, HandlingKeeps, ZenonT(30) DEF At

\* The offset is committed.
LEMMA CommitKeeps ==
  ASSUME KafkaInv, commit
  PROVE  KafkaInv'
<1> USE DEF KafkaInv
<1> DEFINE p == consumer.position
<1>0. /\ At("commit") /\ Others /\ consumer' = Polling(p) /\ committed' \in {committed, p}
      /\ UNCHANGED <<buffer, attempts, stored, stock, unsent>>
  BY SMTT(30) DEF commit
<1>1. p \in Nat /\ committed \in Nat /\ p \in 1..Len(topic)
  BY <1>0, Handled, SMTT(30) DEF ConsumerTypes, At
<1>2. /\ consumer'.pc = "poll" /\ consumer'.position = p
      /\ consumer' \in [pc : Pcs, position : Nat, calls : Nat, refusal : BOOLEAN]
  BY <1>0, <1>1, Zenon DEF Polling, Pcs
<1>3. committed' \in Nat
  BY <1>0, <1>1, Zenon
<1>4. ConsumerTypes'
  BY <1>0, <1>2, <1>3, Zenon DEF ConsumerTypes
<1>5. /\ topic' = topic /\ lost' = lost /\ (\A r : DeadLettered(r) => DeadLettered(r)')
      /\ \A i : Settled(i) => Settled(i)'
  BY <1>0, ConsumerFrame, Zenon
<1>6. StockFollowsOrder'
  BY <1>0, <1>5, Zenon DEF StockFollowsOrder
<1>7. RecordInv'
  BY <1>2, Zenon DEF RecordInv, At
<1>8. Settled(p)'
  <2>1. Settled(p)
    BY <1>0, <1>1, Zenon DEF LeftBehind, At
  <2> QED
    BY <1>2, <1>5, <2>1, Zenon
<1> QED
  BY <1>0, <1>2, <1>4, <1>6, <1>7, <1>8, HandlingKeeps, ZenonT(30) DEF At

\* The process dies: what it had buffered is lost, and the group resumes behind its
\* committed offset, where every record is settled.
LEMMA KillKeeps ==
  ASSUME KafkaInv, kill
  PROVE  KafkaInv'
<1> USE DEF KafkaInv
<1>0. /\ buffer' = <<>> /\ consumer' = Polling(committed) /\ attempts' = <<>> /\ replay' = NoReplay
      /\ lost' = lost \cup {b.record : b \in {c \in Range(buffer) : c.to = "dlq"}}
      /\ inputs < MaxInputs /\ inputs' = inputs + 1
      /\ UNCHANGED <<topic, dlq, committed, stored, stock, unsent, groups>>
  BY Zenon DEF kill, Input
<1>1. committed \in Nat /\ Len(topic) \in Nat /\ consumer.position \in Nat
  BY Handled, SMTT(30) DEF ConsumerTypes
<1>2. LogTypes'
  <2>1. <<>> \in Seq(Envelopes)
    OBVIOUS
  <2> QED
    BY <1>0, <2>1, Zenon DEF LogTypes
<1>3. ReplayTypes'
  BY <1>0, KafkaAssumption, SMTT(30) DEF ReplayTypes, NoReplay
<1>4. /\ consumer'.pc = "poll" /\ consumer'.position = committed
      /\ consumer' \in [pc : Pcs, position : Nat, calls : Nat, refusal : BOOLEAN]
  BY <1>0, <1>1, Zenon DEF Polling, Pcs
<1>5. DOMAIN attempts' = {} /\ attempts' = [i \in DOMAIN attempts' |-> attempts'[i]]
  BY <1>0
<1>6. ConsumerTypes'
  BY <1>0, <1>4, <1>5, Zenon DEF ConsumerTypes
<1>7. PlaceInv'
  BY <1>0, <1>1, <1>4, <1>5 DEF PlaceInv, At
<1>8. RecordInv'
  BY <1>4, Zenon DEF RecordInv, At
<1>9. ASSUME NEW r, DeadLettered(r) \/ r \in lost PROVE DeadLettered(r)' \/ r \in lost'
  BY <1>0, <1>9, SMTT(30) DEF DeadLettered
<1>10. StockFollowsOrder'
  BY <1>0, <1>9, ZenonT(30) DEF StockFollowsOrder
<1>11. ASSUME NEW i \in 1..Len(topic'), LeftBehind(i)' PROVE Settled(i)'
  <2>1. LeftBehind(i)
    BY <1>0, <1>1, <1>4, <1>11, SMTT(30) DEF LeftBehind, PlaceInv, At
  <2>2. Settled(i)
    BY <1>0, <2>1, Zenon
  <2> QED
    BY <1>0, <1>9, <2>2, SMTT(30) DEF Settled, Sold
<1> QED
  BY <1>2, <1>3, <1>6, <1>7, <1>8, <1>10, <1>11, SMTT(30)

\* Every step of the consumer, the operator and the log keeps it.
LEMMA KafkaInvInductive == KafkaSpec => []KafkaInv
<1>1. KafkaInit => KafkaInv
  <2> SUFFICES ASSUME KafkaInit PROVE KafkaInv
    BY Zenon
  <2>1. LogTypes /\ Len(topic) = 0
    BY DEF KafkaInit, LogTypes
  <2>2. ReplayTypes
    BY KafkaAssumption DEF KafkaInit, ReplayTypes, NoReplay
  <2>3. /\ consumer.pc = "poll" /\ consumer.position = 0 /\ DOMAIN attempts = {}
        /\ consumer \in [pc : Pcs, position : Nat, calls : Nat, refusal : BOOLEAN]
    BY DEF KafkaInit, Polling, Pcs
  <2>4. ConsumerTypes
    BY <2>3 DEF KafkaInit, ConsumerTypes
  <2>5. PlaceInv /\ RecordInv /\ StockFollowsOrder
    BY <2>1, <2>3 DEF KafkaInit, PlaceInv, RecordInv, StockFollowsOrder, At
  <2> QED
    BY <2>1, <2>2, <2>4, <2>5 DEF KafkaInv
<1>2. KafkaInv /\ [KafkaNext]_kafkaVars => KafkaInv'
  <2> SUFFICES ASSUME KafkaInv, [KafkaNext]_kafkaVars PROVE KafkaInv'
    BY Zenon
  <2>1. CASE consumerStep
    BY <2>1, PollKeeps, PersistKeeps, ConfirmKeeps, FailedKeeps, CompensateKeeps, CommitKeeps, Zenon
    DEF consumerStep
  <2>2. CASE UNCHANGED kafkaVars
    <3>1. UNCHANGED <<buffer, topic, dlq, consumer, attempts, committed, stored, stock, unsent,
                      lost, replay, groups, inputs>>
      BY <2>2, SMTT(30) DEF kafkaVars
    <3>2. LogTypes' /\ ReplayTypes' /\ (\A r : DeadLettered(r) => DeadLettered(r)')
      BY <3>1, Zenon DEF KafkaInv, LogTypes, ReplayTypes, DeadLettered
    <3>3. Len(topic) <= Len(topic') /\ \A i \in 1..Len(topic) : topic'[i] = topic[i]
      BY <3>1 DEF KafkaInv, LogTypes
    <3> QED
      BY <3>1, <3>2, <3>3, LogsGrow, Zenon
  <2> QED
    BY <2>1, <2>2, PushKeeps, TransmitKeeps, ReplayKeeps, KillKeeps, Zenon DEF KafkaNext
<1> QED
  BY <1>1, <1>2, PTL DEF KafkaSpec

\* For any orders, garbled records and number of attempts: every record up to the
\* committed offset became a sold order or a dead letter, or is one whose dead letter
\* was refused or lost with the producer's buffer (kafka_client.cc:98-99,
\* kafka_flash_sale_consumer.cc:97-101).
THEOREM CommittedIsSettledAlways == KafkaSpec => []CommittedIsSettled
<1>1. KafkaInv => CommittedIsSettled
  <2> SUFFICES ASSUME KafkaInv, NEW i \in 1..committed PROVE Settled(i)
    BY Zenon DEF CommittedIsSettled, Settled
  <2>1. committed \in Nat /\ consumer.position \in Nat /\ Len(topic) \in Nat
    BY Handled, Zenon DEF KafkaInv, ConsumerTypes
  <2>2. i \in 1..Len(topic) /\ LeftBehind(i)
    BY <2>1 DEF KafkaInv, PlaceInv, LeftBehind, At
  <2> QED
    BY <2>2, Zenon DEF KafkaInv
<1> QED
  BY <1>1, KafkaInvInductive, PTL

\* For any orders, garbled records and number of attempts: the stock of an order is
\* confirmed only when the order is stored and released only when it is a dead letter
\* (kafka_flash_sale_consumer.cc:22-51).
THEOREM StockFollowsOrderAlways == KafkaSpec => []StockFollowsOrder
<1>1. KafkaInv => StockFollowsOrder
  BY Zenon DEF KafkaInv
<1> QED
  BY <1>1, KafkaInvInductive, PTL

-----------------------------------------------------------------------------
(* The in-memory broker.                                                   *)

DeliveryType ==
  [on : BOOLEAN, events : SUBSET Messages, subs : 0..MaxSubs, next : Nat, ok : BOOLEAN,
   delivered : SUBSET Messages, dead : SUBSET Pairs]

BrokerTypes ==
  /\ queue \in SUBSET Messages /\ sequence \in [Messages -> Nat] /\ subscribed \in 0..MaxSubs
  /\ deadLetters \in [Pairs -> Nat] /\ audience \in [Messages -> Nat]
  /\ delivery \in [Deliverers -> DeliveryType]

\* Sequence numbers tell published events apart.
SequenceInv ==
  /\ \A m, n \in Messages : (Published(m) /\ sequence[m] = sequence[n]) => m = n
  /\ \A m \in Messages : sequence[m] <= Cardinality({n \in Messages : Published(n)})

\* The subscription's part in the event is over, as far as a deliver knows.
Over(d, s, m) == <<s, m>> \in handled \/ deadLetters[<<s, m>>] > 0 \/ <<s, m>> \in d.dead

\* A running deliver: it serves all whom its events were published to, what it calls
\* delivered is over for all of them, the event at hand for those already called, and
\* its dead letters are for calls it will not make again.
DeliverInv(t) ==
  LET d == delivery[t] IN
  /\ d.on \/ d = NoDelivery
  /\ d.on => d.next \in 1..d.subs
  /\ \A m \in d.events \cup d.delivered : Published(m) /\ audience[m] <= d.subs
  /\ \A m \in d.delivered, s \in 1..d.subs : Over(d, s, m)
  /\ \A m \in d.events, s \in 1..d.subs : (Turn(t, m) /\ d.ok /\ s < d.next) => Over(d, s, m)
  /\ \A m \in d.events, s \in 1..d.subs : <<s, m>> \in d.dead => (Turn(t, m) /\ s < d.next)

QueueInv ==
  /\ \A m \in Messages : audience[m] <= subscribed
  /\ \A m \in queue : Published(m)

BrokerInv ==
  /\ BrokerTypes /\ SequenceInv /\ QueueInv /\ DeliveredToAll
  /\ \A t \in Deliverers : DeliverInv(t)

\* A thread outside deliver.
LEMMA NoDeliveryTyped == NoDelivery \in DeliveryType
<1>1. 0 \in 0..MaxSubs /\ 1 \in Nat
  BY BrokerAssumption
<1> QED
  BY <1>1, Zenon DEF NoDelivery, DeliveryType

\* publish gives the event a number of its own.
LEMMA PublishNumbers ==
  ASSUME Counting, BrokerInv, NEW m \in Messages, publish(m)
  PROVE  sequence' \in [Messages -> Nat] /\ SequenceInv' /\ sequence'[m] # 0
<1> DEFINE P == {n \in Messages : Published(n)}
<1>1. IsFiniteSet(P) /\ Cardinality(P) \in Nat
  <2>1. P \subseteq Messages
    BY Zenon
  <2>2. IsFiniteSet(P)
    BY <2>1, BrokerAssumption, Zenon DEF Counting, PartCounts
  <2> QED
    BY <2>2, Zenon DEF Counting, NatCounts
<1>2. PICK k \in Nat : k = Cardinality(P)
  BY <1>1, Zenon
<1>3. sequence \in [Messages -> Nat] /\ sequence[m] = 0 /\ sequence' = [sequence EXCEPT ![m] = 1 + k]
  BY <1>2, Zenon DEF BrokerInv, BrokerTypes, publish, Published
<1>4. P' = P \cup {m} /\ m \notin P
  BY <1>3 DEF Published
<1>5. Cardinality(P') = k + 1
  BY <1>1, <1>2, <1>4, Zenon DEF Counting, MoreCounts
<1>6. \A n \in Messages : sequence[n] <= k
  BY <1>2, Zenon DEF BrokerInv, SequenceInv
<1>7. \A x, y \in Messages : (sequence[x] # 0 /\ sequence[x] = sequence[y]) => x = y
  BY Zenon DEF BrokerInv, SequenceInv, Published
<1>8. \A x, y \in Messages : (sequence'[x] # 0 /\ sequence'[x] = sequence'[y]) => x = y
  BY <1>2, <1>3, <1>6, <1>7
<1>9. \A n \in Messages : sequence'[n] <= k + 1
  BY <1>2, <1>3, <1>6
<1> HIDE DEF P
<1>10. SequenceInv'
  BY <1>5, <1>8, <1>9, Zenon DEF SequenceInv, Published, P
<1> QED
  BY <1>2, <1>3, <1>10

\* A deliver that is not touched by a step keeps its invariant, if what is over
\* stays over and its events keep their numbers and audience.
LEMMA DeliverKept ==
  ASSUME NEW t \in Deliverers, DeliverInv(t), delivery'[t] = delivery[t],
         handled \subseteq handled',
         \A s \in 1..delivery[t].subs, m \in delivery[t].events \cup delivery[t].delivered :
           deadLetters[<<s, m>>] > 0 => deadLetters'[<<s, m>>] > 0,
         \A m \in delivery[t].events \cup delivery[t].delivered :
           sequence'[m] = sequence[m] /\ audience'[m] = audience[m]
  PROVE  DeliverInv(t)'
<1>1. PICK d : d = delivery[t]
  BY Zenon
<1>2. \A m \in d.events \cup d.delivered, s \in 1..d.subs : Over(d, s, m) => Over(d, s, m)'
  BY <1>1, Zenon DEF Over
<1>3. \A m \in d.events : Turn(t, m)' <=> Turn(t, m)
  BY <1>1, Zenon DEF Turn
<1>4. \A m \in d.events \cup d.delivered : Published(m)' /\ audience'[m] <= d.subs
  BY <1>1, Zenon DEF DeliverInv, Published
<1> QED
  BY <1>1, <1>2, <1>3, <1>4, Zenon DEF DeliverInv

\* publish: the event is in the queue.
LEMMA PublishBroker ==
  ASSUME Counting, BrokerInv, NEW m \in Messages, publish(m)
  PROVE  BrokerInv'
<1>1. sequence' \in [Messages -> Nat] /\ SequenceInv' /\ sequence'[m] # 0
  BY PublishNumbers, Zenon
<1>2. /\ BrokerTypes /\ QueueInv /\ DeliveredToAll /\ sequence[m] = 0
      /\ queue' = queue \cup {m} /\ audience' = [audience EXCEPT ![m] = subscribed]
      /\ UNCHANGED <<subscribed, deadLetters, delivery, handled>>
  BY Zenon DEF BrokerInv, publish, Published
<1>3. \A n \in Messages \ {m} : sequence'[n] = sequence[n] /\ audience'[n] = audience[n]
  BY Zenon DEF publish, BrokerInv, BrokerTypes
<1>4. BrokerTypes'
  BY <1>1, <1>2 DEF BrokerTypes
<1>5. QueueInv'
  <2>1. audience'[m] = subscribed /\ subscribed \in Nat
    BY <1>2 DEF BrokerTypes
  <2> QED
    BY <1>1, <1>2, <1>3, <2>1 DEF QueueInv, Published, BrokerTypes
<1>6. DeliveredToAll'
  BY <1>2, <1>3, Zenon DEF DeliveredToAll, Published
<1>7. ASSUME NEW t \in Deliverers PROVE DeliverInv(t)'
  <2>1. DeliverInv(t) /\ delivery[t] \in DeliveryType
    BY Zenon DEF BrokerInv, BrokerTypes
  <2>2. \A n \in delivery[t].events \cup delivery[t].delivered : n \in Messages \ {m}
    BY <1>2, <2>1, Zenon DEF DeliverInv, Published, DeliveryType
  <2> QED
    BY <1>2, <1>3, <2>1, <2>2, DeliverKept, Zenon
<1> QED
  BY <1>1, <1>4, <1>5, <1>6, <1>7, Zenon DEF BrokerInv

\* subscribe: a later subscriber is in no audience yet.
LEMMA SubscribeBroker ==
  ASSUME BrokerInv, subscribe
  PROVE  BrokerInv'
<1>1. /\ BrokerTypes /\ QueueInv /\ SequenceInv /\ DeliveredToAll
      /\ subscribed < MaxSubs /\ subscribed' = subscribed + 1
      /\ UNCHANGED <<queue, sequence, deadLetters, delivery, audience, handled>>
  BY Zenon DEF BrokerInv, subscribe
<1>2. subscribed' \in 0..MaxSubs
  BY <1>1, BrokerAssumption DEF BrokerTypes
<1>3. BrokerTypes' /\ SequenceInv' /\ DeliveredToAll'
  BY <1>1, <1>2, Zenon DEF BrokerTypes, SequenceInv, DeliveredToAll, Published
<1>4. QueueInv'
  BY <1>1 DEF QueueInv, BrokerTypes, Published
<1>5. \A t \in Deliverers : DeliverInv(t)'
  BY <1>1, DeliverKept, Zenon DEF BrokerInv
<1> QED
  BY <1>3, <1>4, <1>5, Zenon DEF BrokerInv

\* The first critical section of deliver.
LEMMA BeginBroker ==
  ASSUME BrokerInv, NEW t \in Deliverers, NEW events \in SUBSET Messages, beginDeliver(t, events)
  PROVE  BrokerInv'
<1> DEFINE e == [NoDelivery EXCEPT !.on = TRUE, !.events = events, !.subs = subscribed]
<1>1. /\ BrokerTypes /\ QueueInv /\ SequenceInv /\ DeliveredToAll
      /\ subscribed # 0 /\ events \subseteq queue /\ delivery' = [delivery EXCEPT ![t] = e]
      /\ UNCHANGED <<queue, sequence, subscribed, deadLetters, audience, handled>>
  BY Zenon DEF BrokerInv, beginDeliver
<1>2. /\ e.on = TRUE /\ e.events = events /\ e.subs = subscribed /\ e.next = 1 /\ e.ok = TRUE
      /\ e.delivered = {} /\ e.dead = {}
  BY Zenon DEF NoDelivery
<1>3. e \in DeliveryType
  BY <1>1, Zenon DEF NoDelivery, DeliveryType, BrokerTypes
<1> HIDE DEF e
<1>4. delivery'[t] = e /\ \A v \in Deliverers \ {t} : delivery'[v] = delivery[v]
  BY <1>1, Zenon DEF BrokerTypes
<1>5. BrokerTypes' /\ SequenceInv' /\ QueueInv' /\ DeliveredToAll'
  BY <1>1, <1>3, Zenon DEF BrokerTypes, SequenceInv, QueueInv, DeliveredToAll, Published
<1>6. DeliverInv(t)'
  <2>1. e.next \in 1..e.subs /\ subscribed \in Nat
    BY <1>1, <1>2 DEF BrokerTypes
  <2>2. \A m \in events : Published(m)' /\ audience'[m] <= subscribed
    BY <1>1, Zenon DEF QueueInv, Published
  <2> QED
    BY <1>2, <1>4, <2>1, <2>2 DEF DeliverInv
<1>7. ASSUME NEW v \in Deliverers \ {t} PROVE DeliverInv(v)'
  BY <1>1, <1>4, DeliverKept, Zenon DEF BrokerInv
<1> QED
  BY <1>5, <1>6, <1>7, Zenon DEF BrokerInv

\* A handler was called for the event at hand.
CallMade(t, m, fine, dead) ==
  LET p == <<delivery[t].next, m>> IN
  /\ Turn(t, m) /\ fine \in BOOLEAN /\ dead \in {{}, {p}}
  /\ fine => p \in handled' \/ p \in dead
  /\ delivery' = [delivery EXCEPT ![t] = AfterCall(delivery[t], m, fine, dead)]
  /\ handled \subseteq handled'
  /\ UNCHANGED <<queue, sequence, subscribed, deadLetters, audience>>

\* Both outcomes of a call.
LEMMA Calls ==
  ASSUME BrokerTypes, NEW t \in Deliverers, NEW m \in Messages
  PROVE  /\ handlerOk(t, m) => CallMade(t, m, TRUE, {})
         /\ handlerFailed(t, m) =>
              LET p == <<delivery[t].next, m>>
              IN  CallMade(t, m, tries[p] + 1 >= MaxAttempts, IF tries[p] + 1 >= MaxAttempts THEN {p} ELSE {})
<1>1. handlerOk(t, m) => CallMade(t, m, TRUE, {})
  BY Zenon DEF handlerOk, CallMade
<1>2. ASSUME handlerFailed(t, m), NEW p, p = <<delivery[t].next, m>>
      PROVE  CallMade(t, m, tries[p] + 1 >= MaxAttempts, IF tries[p] + 1 >= MaxAttempts THEN {p} ELSE {})
  <2>1. PICK fine : fine = (tries[p] + 1 >= MaxAttempts)
    BY Zenon
  <2>2. fine \in BOOLEAN
    BY <2>1
  <2>3. /\ Turn(t, m) /\ handled' = handled
        /\ delivery' = [delivery EXCEPT ![t] = AfterCall(delivery[t], m, fine, IF fine THEN {p} ELSE {})]
        /\ UNCHANGED <<queue, sequence, subscribed, deadLetters, audience>>
    BY <1>2, <2>1, Zenon DEF handlerFailed, HandlerFails
  <2>4. (IF fine THEN {p} ELSE {}) \in {{}, {p}} /\ (fine => p \in (IF fine THEN {p} ELSE {}))
    BY Zenon
  <2>5. CallMade(t, m, fine, IF fine THEN {p} ELSE {})
    BY <1>2, <2>2, <2>3, <2>4, Zenon DEF CallMade
  <2> QED
    BY <2>1, <2>5, Zenon
<1> QED
  BY <1>1, <1>2, Zenon

\* The locals e after a call, from those before it.
Follows(d, e, m, fine, dead) ==
  /\ e \in DeliveryType /\ e.on = d.on /\ e.subs = d.subs /\ e.dead = d.dead \cup dead
  /\ d.next = d.subs => /\ e.next = 1 /\ e.ok = TRUE /\ e.events = d.events \ {m}
                        /\ e.delivered = IF d.ok /\ fine THEN d.delivered \cup {m} ELSE d.delivered
  /\ d.next # d.subs => /\ e.next = d.next + 1 /\ e.ok = (d.ok /\ fine) /\ e.events = d.events
                        /\ e.delivered = d.delivered

\* A call yields such locals.
LEMMA AfterCallFacts ==
  ASSUME NEW d \in DeliveryType, NEW m \in d.events, NEW fine \in BOOLEAN, NEW dead \in SUBSET Pairs,
         d.next \in 1..d.subs, NEW e, e = AfterCall(d, m, fine, dead)
  PROVE  Follows(d, e, m, fine, dead)
<1>2. /\ d.on \in BOOLEAN /\ d.events \in SUBSET Messages /\ d.subs \in 0..MaxSubs /\ d.next \in Nat
      /\ d.ok \in BOOLEAN /\ d.delivered \in SUBSET Messages /\ d.dead \in SUBSET Pairs
  BY Zenon DEF DeliveryType
<1>3. /\ e.on = d.on /\ e.subs = d.subs /\ e.dead = d.dead \cup dead
      /\ e.next = (IF d.next = d.subs THEN 1 ELSE d.next + 1)
      /\ e.ok = (d.next = d.subs \/ (d.ok /\ fine))
      /\ e.events = (IF d.next = d.subs THEN d.events \ {m} ELSE d.events)
      /\ e.delivered = (IF d.next = d.subs /\ d.ok /\ fine THEN d.delivered \cup {m} ELSE d.delivered)
  BY Zenon DEF AfterCall
<1>4. /\ e.next \in Nat /\ e.events \in SUBSET Messages /\ e.delivered \in SUBSET Messages
      /\ e.dead \in SUBSET Pairs
  <2>1. d.next + 1 \in Nat /\ 1 \in Nat
    BY <1>2
  <2> QED
    BY <1>2, <1>3, <2>1, Zenon
<1>5. e = [on |-> e.on, events |-> e.events, subs |-> e.subs, next |-> e.next, ok |-> e.ok,
           delivered |-> e.delivered, dead |-> e.dead]
  BY Zenon DEF AfterCall
<1>6. e.ok \in BOOLEAN
  BY <1>3, Zenon
<1>7. e \in DeliveryType
  BY <1>2, <1>3, <1>4, <1>5, <1>6, Zenon DEF DeliveryType
<1> QED
  BY <1>3, <1>7, Zenon DEF Follows

\* A thread with events at hand delivers, and its next subscription is one of its own.
LEMMA Delivering ==
  ASSUME NEW t, DeliverInv(t), delivery[t] \in DeliveryType, NEW m \in delivery[t].events
  PROVE  /\ delivery[t].on = TRUE /\ delivery[t].next \in 1..delivery[t].subs
         /\ delivery[t].subs \in 0..MaxSubs
<1>1. /\ delivery[t].on \/ delivery[t] = NoDelivery
      /\ delivery[t].on => delivery[t].next \in 1..delivery[t].subs
  BY Zenon DEF DeliverInv
<1>2. NoDelivery.events = {}
  BY Zenon DEF NoDelivery
<1>3. delivery[t].on \in BOOLEAN /\ delivery[t].subs \in 0..MaxSubs
  BY Zenon DEF DeliveryType
<1> QED
  BY <1>1, <1>2, <1>3, Zenon

\* A thread that delivers nothing has nothing to account for.
LEMMA Undelivering ==
  ASSUME NEW t, delivery'[t] = NoDelivery
  PROVE  DeliverInv(t)'
<1>1. NoDelivery.on = FALSE /\ NoDelivery.events = {} /\ NoDelivery.delivered = {}
  BY Zenon DEF NoDelivery
<1> QED
  BY <1>1, Zenon DEF DeliverInv

\* A call of a handler: the event at hand goes on to the next subscriber, or is over.
LEMMA CallBroker ==
  ASSUME BrokerInv, NEW t \in Deliverers, NEW m \in Messages, NEW fine, NEW dead, CallMade(t, m, fine, dead)
  PROVE  BrokerInv'
<1>1. PICK d \in DeliveryType : d = delivery[t]
  BY Zenon DEF BrokerInv, BrokerTypes
<1>2. PICK e : e = AfterCall(d, m, fine, dead)
  BY Zenon
<1>3. PICK p : p = <<d.next, m>>
  BY Zenon
<1>4. /\ BrokerTypes /\ QueueInv /\ SequenceInv /\ DeliveredToAll /\ DeliverInv(t)
      /\ Turn(t, m) /\ m \in d.events /\ fine \in BOOLEAN /\ dead \in {{}, {p}}
      /\ fine => p \in handled' \/ p \in dead
      /\ delivery' = [delivery EXCEPT ![t] = e] /\ handled \subseteq handled'
      /\ UNCHANGED <<queue, sequence, subscribed, deadLetters, audience>>
  <2>1. /\ Turn(t, m) /\ fine \in BOOLEAN /\ dead \in {{}, {p}}
        /\ fine => p \in handled' \/ p \in dead
        /\ delivery' = [delivery EXCEPT ![t] = e]
    BY <1>1, <1>2, <1>3, Zenon DEF CallMade
  <2>2. handled \subseteq handled' /\ UNCHANGED <<queue, sequence, subscribed, deadLetters, audience>>
    BY Zenon DEF CallMade
  <2>3. BrokerTypes /\ QueueInv /\ SequenceInv /\ DeliveredToAll /\ DeliverInv(t)
    BY Zenon DEF BrokerInv
  <2>4. m \in d.events
    BY <1>1, <2>1, Zenon DEF Turn
  <2> QED
    BY <2>1, <2>2, <2>3, <2>4, Zenon
<1>5. d.on = TRUE /\ d.next \in 1..d.subs /\ d.subs \in 0..MaxSubs
  BY <1>1, <1>4, Delivering, Zenon
<1>6. p \in Pairs /\ dead \in SUBSET Pairs /\ \A s, n : <<s, n>> \in dead => (n = m /\ s = d.next)
  <2>1. dead \in {{}, {p}}
    BY <1>4, Zenon
  <2>2. p \in Pairs
    BY <1>3, <1>5, BrokerAssumption DEF Pairs
  <2> QED
    BY <1>3, <2>1, <2>2
<1>7. /\ e \in DeliveryType /\ e.on = d.on /\ e.subs = d.subs /\ e.dead = d.dead \cup dead
      /\ d.next = d.subs => /\ e.next = 1 /\ e.ok = TRUE /\ e.events = d.events \ {m}
                            /\ e.delivered = IF d.ok /\ fine THEN d.delivered \cup {m} ELSE d.delivered
      /\ d.next # d.subs => /\ e.next = d.next + 1 /\ e.ok = (d.ok /\ fine) /\ e.events = d.events
                            /\ e.delivered = d.delivered
  <2>1. Follows(d, e, m, fine, dead)
    BY <1>2, <1>4, <1>5, <1>6, AfterCallFacts, Zenon
  <2> QED
    BY <2>1, Zenon DEF Follows
<1>8. delivery'[t] = e /\ \A v \in Deliverers \ {t} : delivery'[v] = delivery[v]
  BY <1>4, Zenon DEF BrokerTypes
<1>9. BrokerTypes' /\ SequenceInv' /\ QueueInv' /\ DeliveredToAll'
  <2>1. delivery' \in [Deliverers -> DeliveryType]
    BY <1>4, <1>7, Zenon DEF BrokerTypes
  <2>2. SequenceInv' /\ QueueInv'
    BY <1>4, Zenon DEF SequenceInv, QueueInv, Published
  <2>3. DeliveredToAll'
    BY <1>4, Zenon DEF DeliveredToAll, Published
  <2> QED
    BY <1>4, <2>1, <2>2, <2>3, Zenon DEF BrokerTypes
<1>10. ASSUME NEW v \in Deliverers \ {t} PROVE DeliverInv(v)'
  BY <1>4, <1>8, DeliverKept, Zenon DEF BrokerInv
<1>11. DeliverInv(t)'
  <2>1. \A n \in Messages, s \in 1..d.subs : Over(d, s, n) => Over(e, s, n)'
    BY <1>4, <1>7, Zenon DEF Over
  <2>2. /\ \A n \in d.events \cup d.delivered : Published(n) /\ audience[n] <= d.subs
        /\ \A n \in d.delivered, s \in 1..d.subs : Over(d, s, n)
        /\ d.ok => \A s \in 1..d.subs : s < d.next => Over(d, s, m)
        /\ \A n \in d.events, s \in 1..d.subs : <<s, n>> \in d.dead => (Turn(t, n) /\ s < d.next)
    BY <1>1, <1>4, Zenon DEF DeliverInv
  <2>3. fine => Over(e, d.next, m)'
    BY <1>3, <1>4, <1>7, Zenon DEF Over
  <2>4. \A n \in d.events : Turn(t, n) => n = m
    <3>1. ASSUME NEW n \in d.events, Turn(t, n) PROVE n = m
      <4>1. n \in Messages /\ sequence[n] <= sequence[m] /\ sequence[m] <= sequence[n] /\ Published(m)
        BY <1>1, <1>4, <2>2, <3>1, Zenon DEF Turn, DeliveryType
      <4>2. sequence[n] \in Nat /\ sequence[m] \in Nat
        BY <1>4, <4>1, Zenon DEF BrokerTypes
      <4> QED
        BY <1>4, <4>1, <4>2 DEF SequenceInv
    <3> QED
      BY <3>1, Zenon
  <2>5. e.events \subseteq d.events /\ e.delivered \subseteq d.delivered \cup {m} /\ d.subs \in Nat
        /\ d.events \subseteq Messages /\ d.delivered \subseteq Messages
    <3>1. d.subs \in Nat
      BY <1>5
    <3>2. d.events \subseteq Messages /\ d.delivered \subseteq Messages
      BY <1>1, Zenon DEF DeliveryType
    <3>3. e.events \subseteq d.events /\ e.delivered \subseteq d.delivered \cup {m}
      BY <1>7, Zenon
    <3> QED
      BY <3>1, <3>2, <3>3, Zenon
  <2>6. \A n \in e.events \cup e.delivered : Published(n)' /\ audience'[n] <= e.subs
    BY <1>4, <1>7, <2>2, <2>5, Zenon DEF Published
  <2>7. e.next \in 1..e.subs
    BY <1>5, <1>7
  <2>8. CASE d.next = d.subs
    <3>1. \A n \in e.delivered, s \in 1..e.subs : Over(e, s, n)'
      <4>1. \A n \in d.delivered, s \in 1..d.subs : Over(e, s, n)'
        BY <2>1, <2>2, <2>5, Zenon
      <4>2. ASSUME d.ok, fine, NEW s \in 1..d.subs PROVE Over(e, s, m)'
        <5>1. s < d.next \/ s = d.next
          BY <1>5, <2>8
        <5> QED
          BY <1>4, <2>1, <2>2, <2>3, <4>2, <5>1, Zenon
      <4> QED
        BY <1>7, <2>8, <4>1, <4>2, Zenon
    <3>2. \A n \in e.events, s \in 1..e.subs : <<s, n>> \notin e.dead
      <4>1. ASSUME NEW n \in d.events \ {m}, NEW s \in 1..d.subs, <<s, n>> \in d.dead \cup dead PROVE FALSE
        <5>1. <<s, n>> \notin dead
          BY <1>6, <4>1, Zenon
        <5>2. Turn(t, n)
          BY <2>2, <4>1, <5>1, Zenon
        <5> QED
          BY <2>4, <4>1, <5>2, Zenon
      <4> QED
        BY <1>7, <2>8, <4>1, Zenon
    <3>3. \A s \in 1..e.subs : ~(s < e.next)
      BY <1>7, <2>8
    <3> QED
      BY <1>5, <1>7, <1>8, <2>6, <2>7, <3>1, <3>2, <3>3, Zenon DEF DeliverInv
  <2>9. CASE d.next # d.subs
    <3>1. \A n \in d.events : Turn(t, n)' <=> Turn(t, n)
      BY <1>1, <1>4, <1>7, <1>8, <2>9 DEF Turn
    <3>2. \A n \in e.delivered, s \in 1..e.subs : Over(e, s, n)'
      BY <1>7, <2>1, <2>2, <2>5, <2>9, Zenon
    <3>3. \A n \in e.events, s \in 1..e.subs : (Turn(t, n)' /\ e.ok /\ s < e.next) => Over(e, s, n)'
      <4>1. ASSUME d.ok, fine, NEW s \in 1..d.subs, s < d.next + 1 PROVE Over(e, s, m)'
        <5>1. s < d.next \/ s = d.next
          BY <1>5, <4>1
        <5> QED
          BY <1>4, <2>1, <2>2, <2>3, <4>1, <5>1, Zenon
      <4> QED
        BY <1>7, <2>4, <2>9, <3>1, <4>1, Zenon
    <3>4. \A n \in e.events, s \in 1..e.subs : <<s, n>> \in e.dead => (Turn(t, n)' /\ s < e.next)
      <4>1. ASSUME NEW n \in d.events, NEW s \in 1..d.subs, <<s, n>> \in d.dead
            PROVE  Turn(t, n)' /\ s < d.next + 1
        <5>1. s < d.next => s < d.next + 1
          BY <1>5, <4>1
        <5> QED
          BY <2>2, <3>1, <4>1, <5>1, Zenon
      <4>2. ASSUME NEW n \in d.events, NEW s \in 1..d.subs, <<s, n>> \in dead
            PROVE  Turn(t, n)' /\ s < d.next + 1
        <5>1. n = m /\ s = d.next
          BY <1>6, <4>2, Zenon
        <5>2. d.next < d.next + 1
          BY <1>5
        <5> QED
          BY <1>4, <3>1, <5>1, <5>2, Zenon
      <4> QED
        BY <1>7, <2>9, <4>1, <4>2, Zenon
    <3> QED
      BY <1>5, <1>7, <1>8, <2>6, <2>7, <3>2, <3>3, <3>4, Zenon DEF DeliverInv
  <2> QED
    BY <2>8, <2>9, Zenon
<1> QED
  BY <1>9, <1>10, <1>11, Zenon DEF BrokerInv

\* The last critical section of deliver.
LEMMA EndBroker ==
  ASSUME BrokerInv, NEW t \in Deliverers, endDeliver(t)
  PROVE  BrokerInv'
<1>1. PICK d \in DeliveryType : d = delivery[t]
  BY Zenon DEF BrokerInv, BrokerTypes
<1>2. /\ BrokerTypes /\ QueueInv /\ SequenceInv /\ DeliveredToAll /\ DeliverInv(t) /\ d.on
      /\ queue' = queue \ d.delivered
      /\ deadLetters' = [p \in Pairs |-> deadLetters[p] + IF p \in d.dead THEN 1 ELSE 0]
      /\ delivery' = [delivery EXCEPT ![t] = NoDelivery]
      /\ UNCHANGED <<sequence, subscribed, audience, handled>>
  BY <1>1, Zenon DEF BrokerInv, endDeliver
<1>0. deadLetters \in [Pairs -> Nat]
  BY <1>2, Zenon DEF BrokerTypes
<1>5. \A p \in Pairs : deadLetters'[p] = deadLetters[p] + IF p \in d.dead THEN 1 ELSE 0
  BY <1>2, Zenon
<1>3. deadLetters' \in [Pairs -> Nat]
  <2>1. \A p \in Pairs : deadLetters'[p] \in Nat
    BY <1>0, <1>5
  <2>2. deadLetters' = [p \in Pairs |-> deadLetters'[p]]
    BY <1>2, Zenon
  <2> QED
    BY <2>1, <2>2, Zenon
<1>4. \A p \in Pairs : /\ deadLetters[p] > 0 => deadLetters'[p] > 0
                       /\ p \in d.dead => deadLetters'[p] > 0
  <2>1. ASSUME NEW p \in Pairs
        PROVE  /\ deadLetters[p] > 0 => deadLetters'[p] > 0
               /\ p \in d.dead => deadLetters'[p] > 0
    <3>1. PICK a \in Nat : a = deadLetters[p]
      BY <1>0, Zenon
    <3>2. deadLetters'[p] = IF p \in d.dead THEN a + 1 ELSE a + 0
      BY <1>5, <3>1, Zenon
    <3>3. a + 1 > 0 /\ a + 0 = a
      OBVIOUS
    <3> QED
      BY <3>1, <3>2, <3>3, Zenon
  <2> QED
    BY <2>1, Zenon
<1>6. BrokerTypes' /\ SequenceInv' /\ QueueInv'
  <2>1. delivery' \in [Deliverers -> DeliveryType] /\ queue' \in SUBSET Messages
    BY <1>2, NoDeliveryTyped, Zenon DEF BrokerTypes
  <2> QED
    BY <1>2, <1>3, <2>1, Zenon DEF BrokerTypes, SequenceInv, QueueInv, Published
<1>7. d.subs \in 0..MaxSubs /\ d.delivered \subseteq Messages /\ d.events \subseteq Messages /\ MaxSubs \in Nat
  BY BrokerAssumption, Zenon DEF DeliveryType
<1>8. ASSUME NEW m \in Messages, NEW s \in 1..audience[m], audience[m] <= MaxSubs,
             <<s, m>> \in handled \/ deadLetters[<<s, m>>] > 0 \/ <<s, m>> \in d.dead
      PROVE  <<s, m>> \in handled' \/ deadLetters'[<<s, m>>] > 0
  <2>1. audience[m] \in Nat
    BY <1>2, Zenon DEF BrokerTypes
  <2>2. <<s, m>> \in Pairs
    BY <1>7, <1>8, <2>1 DEF Pairs
  <2> QED
    BY <1>2, <1>4, <1>8, <2>2, Zenon
<1>9. \A m \in Messages : audience[m] <= MaxSubs /\ audience[m] \in Nat
  BY <1>2, BrokerAssumption DEF QueueInv, BrokerTypes
<1>10. DeliveredToAll'
  <2>1. SUFFICES ASSUME NEW m \in Messages, Published(m), m \notin queue', NEW s \in 1..audience[m]
                 PROVE  <<s, m>> \in handled' \/ deadLetters'[<<s, m>>] > 0
    BY <1>2, Zenon DEF DeliveredToAll, Published
  <2>2. CASE m \notin queue
    BY <1>2, <1>8, <1>9, <2>1, <2>2, Zenon DEF DeliveredToAll
  <2>3. CASE m \in d.delivered
    <3>1. audience[m] <= d.subs /\ \A x \in 1..d.subs : Over(d, x, m)
      BY <1>1, <1>2, <2>3, Zenon DEF DeliverInv
    <3>2. PICK a, b \in Nat : a = audience[m] /\ b = d.subs /\ s \in 1..a /\ a <= b
      <4>1. d.subs \in Nat
        BY <1>7
      <4> QED
        BY <1>9, <2>1, <3>1, <4>1, Zenon
    <3>3. s \in 1..d.subs
      BY <3>2
    <3> QED
      BY <1>8, <1>9, <3>1, <3>3, Zenon DEF Over
  <2> QED
    BY <1>2, <2>1, <2>2, <2>3, Zenon
<1>11. DeliverInv(t)'
  <2>1. delivery'[t] = NoDelivery
    BY <1>2, Zenon DEF BrokerTypes
  <2> QED
    BY <2>1, Undelivering, Zenon
<1>12. ASSUME NEW v \in Deliverers \ {t} PROVE DeliverInv(v)'
  <2>1. delivery'[v] = delivery[v] /\ delivery[v] \in DeliveryType /\ DeliverInv(v)
    BY <1>2, Zenon DEF BrokerTypes, BrokerInv
  <2>2. \A s \in 1..delivery[v].subs, m \in delivery[v].events \cup delivery[v].delivered : <<s, m>> \in Pairs
    BY <1>7, <2>1 DEF DeliveryType, Pairs
  <2> QED
    BY <1>2, <1>4, <2>1, <2>2, DeliverKept, Zenon
<1> QED
  BY <1>6, <1>10, <1>11, <1>12, Zenon DEF BrokerInv

\* The invariant holds at first ...
LEMMA BrokerStart ==
  ASSUME Counting, BrokerInit
  PROVE  BrokerInv
<1>2. BrokerTypes
  BY NoDeliveryTyped, BrokerAssumption DEF BrokerInit, BrokerTypes
<1>3. \A m \in Messages : sequence[m] = 0 /\ audience[m] = 0
  BY Zenon DEF BrokerInit
<1>4. SequenceInv
  <2>1. {n \in Messages : Published(n)} = {}
    BY <1>3, Zenon DEF Published
  <2>2. Cardinality({n \in Messages : Published(n)}) = 0
    BY <2>1, Zenon DEF Counting, EmptyCounts
  <2> QED
    BY <1>3, <2>2 DEF SequenceInv, Published
<1>5. QueueInv /\ DeliveredToAll
  BY <1>3 DEF BrokerInit, QueueInv, DeliveredToAll, Published
<1>6. \A t \in Deliverers : DeliverInv(t)
  BY Zenon DEF BrokerInit, DeliverInv, NoDelivery
<1> QED
  BY <1>2, <1>4, <1>5, <1>6, Zenon DEF BrokerInv

\* ... and is inductive.
LEMMA BrokerInductive ==
  ASSUME Counting, BrokerInv, [BrokerNext]_brokerVars
  PROVE  BrokerInv'
<1>1. ASSUME NEW t \in Deliverers, NEW m \in Messages, handlerOk(t, m) \/ handlerFailed(t, m) PROVE BrokerInv'
  <2>1. \E fine, dead : CallMade(t, m, fine, dead)
    BY <1>1, Calls, Zenon DEF BrokerInv
  <2> QED
    BY <2>1, CallBroker, Zenon
<1>2. CASE UNCHANGED brokerVars
  <2>1. UNCHANGED <<queue, sequence, subscribed, deadLetters, delivery, audience, handled>>
    BY <1>2, Zenon DEF brokerVars
  <2>2. BrokerTypes' /\ SequenceInv' /\ QueueInv' /\ DeliveredToAll'
    BY <2>1, Zenon DEF BrokerInv, BrokerTypes, SequenceInv, QueueInv, DeliveredToAll, Published
  <2>3. \A t \in Deliverers : DeliverInv(t)'
    BY <2>1, DeliverKept, Zenon DEF BrokerInv
  <2> QED
    BY <2>2, <2>3, Zenon DEF BrokerInv
<1> QED
  BY <1>1, <1>2, PublishBroker, SubscribeBroker, BeginBroker, EndBroker, Zenon DEF BrokerNext

-----------------------------------------------------------------------------
(* The attempts of the broker.                                             *)

Holders(p) == {t \in Deliverers : p \in delivery[t].dead}

\* The pair that is called is one ...
LEMMA CallPair ==
  ASSUME BrokerInv, NEW t \in Deliverers, NEW m \in Messages, NEW fine, NEW dead, CallMade(t, m, fine, dead)
  PROVE  /\ <<delivery[t].next, m>> \in Pairs /\ <<delivery[t].next, m>> \notin delivery[t].dead
         /\ delivery[t].next \in 1..delivery[t].subs /\ m \in delivery[t].events
<1>1. delivery[t] \in DeliveryType /\ DeliverInv(t) /\ m \in delivery[t].events
  <2>1. Turn(t, m)
    BY Zenon DEF CallMade
  <2>2. m \in delivery[t].events
    BY <2>1, Zenon DEF Turn
  <2> QED
    BY <2>2, Zenon DEF BrokerInv, BrokerTypes
<1>2. delivery[t].next \in 1..delivery[t].subs /\ delivery[t].subs \in 0..MaxSubs /\ MaxSubs \in Nat
  BY <1>1, BrokerAssumption, Delivering, Zenon
<1>3. <<delivery[t].next, m>> \in Pairs
  BY <1>2 DEF Pairs
<1>4. <<delivery[t].next, m>> \in delivery[t].dead => delivery[t].next < delivery[t].next
  BY <1>1, <1>2, Zenon DEF DeliverInv
<1>5. ~(delivery[t].next < delivery[t].next)
  BY <1>2
<1> QED
  BY <1>1, <1>2, <1>3, <1>4, <1>5, Zenon

\* The threads that hold a dead letter of the pair stay, or thread t joins them.
SameHolders(q) == Holders(q)' = Holders(q)
NewHolder(q, t) == Holders(q)' = Holders(q) \cup {t} /\ t \notin Holders(q)

\* ... and its dead letter is the only one a call makes.
LEMMA CallHolders ==
  ASSUME BrokerInv, NEW t \in Deliverers, NEW m \in Messages, NEW fine, NEW dead, CallMade(t, m, fine, dead),
         NEW q \in Pairs
  PROVE  (q \notin dead => SameHolders(q)) /\ (q \in dead => NewHolder(q, t))
<1>1. /\ delivery \in [Deliverers -> DeliveryType] /\ dead \in {{}, {<<delivery[t].next, m>>}} /\ fine \in BOOLEAN
      /\ delivery' = [delivery EXCEPT ![t] = AfterCall(delivery[t], m, fine, dead)]
  BY Zenon DEF BrokerInv, BrokerTypes, CallMade
<1>2. delivery'[t].dead = delivery[t].dead \cup dead
  BY <1>1, Zenon DEF AfterCall
<1>3. \A v \in Deliverers \ {t} : delivery'[v] = delivery[v]
  BY <1>1, Zenon
<1>4. q \in dead => q \notin delivery[t].dead
  BY <1>1, CallPair
<1> QED
  BY <1>2, <1>3, <1>4, Zenon DEF SameHolders, NewHolder, Holders

AttemptInv ==
  /\ tries \in [Pairs -> Nat] /\ failures \in [Pairs -> Nat]
  /\ DeadAfterMaxAttempts

\* What one failed call more does to the account.
LEMMA Account ==
  ASSUME NEW g \in Nat, NEW n \in Nat, NEW f \in Nat, NEW k \in Nat, g * k + n <= f
  PROVE  /\ g * k + 0 <= f /\ g * k + (n + 1) <= f + 1
         /\ n + 1 >= k => (g + 1) * k + 0 <= f + 1
<1>1. PICK x \in Nat : x = g * k
  OBVIOUS
<1>2. (g + 1) * k = x + k
  BY <1>1
<1> QED
  BY <1>1, <1>2

\* The threads that hold a dead letter can be counted.
LEMMA FewHolders ==
  ASSUME Counting, BrokerTypes, NEW p \in Pairs
  PROVE  IsFiniteSet(Holders(p)) /\ Cardinality(Holders(p)) \in Nat /\ GivenUp(p) \in Nat
         /\ GivenUp(p) = deadLetters[p] + Cardinality(Holders(p))
<1>1. IsFiniteSet(Holders(p))
  BY BrokerAssumption, Zenon DEF Holders, Counting, PartCounts
<1>2. Cardinality(Holders(p)) \in Nat
  BY <1>1, Zenon DEF Counting, NatCounts
<1>3. GivenUp(p) = deadLetters[p] + Cardinality(Holders(p))
  BY Zenon DEF GivenUp, Holders
<1> QED
  BY <1>1, <1>2, <1>3 DEF BrokerTypes

\* The account of every pair is kept when nobody makes or files a dead letter of it
\* and its counters stay or are lowered.
LEMMA AccountKept ==
  ASSUME Counting, AttemptInv, BrokerTypes, NEW p \in Pairs, SameHolders(p),
         deadLetters'[p] = deadLetters[p], failures'[p] = failures[p], tries'[p] \in {0, tries[p]}
  PROVE  GivenUp(p)' * MaxAttempts + tries'[p] <= failures'[p]
<1>1. GivenUp(p)' = GivenUp(p) /\ GivenUp(p) \in Nat
  BY FewHolders, Zenon DEF GivenUp, SameHolders, Holders
<1>2. GivenUp(p) * MaxAttempts + tries[p] <= failures[p]
  BY Zenon DEF AttemptInv, DeadAfterMaxAttempts
<1>3. tries[p] \in Nat /\ failures[p] \in Nat /\ MaxAttempts \in Nat
  BY BrokerAssumption, Zenon DEF AttemptInv
<1> QED
  BY <1>1, <1>2, <1>3, Account, Zenon

\* The handler returned Ok.
LEMMA OkAttempts ==
  ASSUME Counting, AttemptInv, BrokerInv, NEW t \in Deliverers, NEW m \in Messages, handlerOk(t, m)
  PROVE  AttemptInv'
<1>1. BrokerTypes /\ CallMade(t, m, TRUE, {})
  BY Calls, Zenon DEF BrokerInv
<1>2. PICK p : p = <<delivery[t].next, m>>
  BY Zenon
<1>3. tries' = [tries EXCEPT ![p] = 0] /\ failures' = failures /\ deadLetters' = deadLetters
  BY <1>2, Zenon DEF handlerOk
<1>4. tries' \in [Pairs -> Nat] /\ \A q \in Pairs : tries'[q] \in {0, tries[q]}
  BY <1>3, Zenon DEF AttemptInv
<1>5. ASSUME NEW q \in Pairs PROVE SameHolders(q)
  <2>1. q \notin {}
    BY Zenon
  <2> QED
    BY <1>1, <2>1, CallHolders, Zenon
<1> QED
  BY <1>1, <1>3, <1>4, <1>5, AccountKept, Zenon DEF AttemptInv, DeadAfterMaxAttempts

\* The handler failed.
LEMMA FailedAttempts ==
  ASSUME Counting, AttemptInv, BrokerInv, NEW t \in Deliverers, NEW m \in Messages, handlerFailed(t, m)
  PROVE  AttemptInv'
<1>1. PICK p : p = <<delivery[t].next, m>>
  BY Zenon
<1>2. PICK n : n = tries[p] + 1
  BY Zenon
<1>3. BrokerTypes /\ CallMade(t, m, n >= MaxAttempts, IF n >= MaxAttempts THEN {p} ELSE {})
  BY <1>1, <1>2, Calls, Zenon DEF BrokerInv
<1>4. /\ tries' = [tries EXCEPT ![p] = IF n >= MaxAttempts THEN 0 ELSE n]
      /\ failures' = [failures EXCEPT ![p] = @ + 1] /\ deadLetters' = deadLetters
  BY <1>1, <1>2, Zenon DEF handlerFailed, HandlerFails
<1>5. p \in Pairs /\ tries[p] \in Nat /\ failures[p] \in Nat /\ MaxAttempts \in Nat
  BY <1>1, <1>3, CallPair, BrokerAssumption, Zenon DEF AttemptInv
<1>6. tries' \in [Pairs -> Nat] /\ failures' \in [Pairs -> Nat]
  BY <1>2, <1>4, <1>5 DEF AttemptInv
<1>7. ASSUME NEW q \in Pairs \ {p} PROVE GivenUp(q)' * MaxAttempts + tries'[q] <= failures'[q]
  <2>1. SameHolders(q)
    BY <1>3, CallHolders, Zenon
  <2>2. tries'[q] = tries[q] /\ failures'[q] = failures[q] /\ deadLetters'[q] = deadLetters[q]
    BY <1>4, Zenon DEF AttemptInv
  <2> QED
    BY <1>3, <2>1, <2>2, AccountKept, Zenon
<1>8. GivenUp(p)' * MaxAttempts + tries'[p] <= failures'[p]
  <2>1. PICK g \in Nat : g = GivenUp(p)
    BY <1>3, <1>5, FewHolders, Zenon
  <2>2. g * MaxAttempts + tries[p] <= failures[p]
    BY <1>5, <2>1, Zenon DEF AttemptInv, DeadAfterMaxAttempts
  <2>3. failures'[p] = failures[p] + 1 /\ tries'[p] = IF n >= MaxAttempts THEN 0 ELSE n
    BY <1>4, <1>5, Zenon DEF AttemptInv
  <2>4. CASE n >= MaxAttempts
    <3>1. NewHolder(p, t)
      <4>1. CallMade(t, m, n >= MaxAttempts, {p}) /\ p \in {p}
        BY <1>3, <2>4, Zenon
      <4> QED
        BY <1>5, <4>1, CallHolders, Zenon
    <3>2. Cardinality(Holders(p)') = Cardinality(Holders(p)) + 1
      BY <1>3, <1>5, <3>1, FewHolders, Zenon DEF NewHolder, Counting, MoreCounts
    <3>3. GivenUp(p)' = g + 1
      <4>1. GivenUp(p)' = deadLetters[p] + Cardinality(Holders(p)')
        BY <1>4, Zenon DEF GivenUp, Holders
      <4>2. g = deadLetters[p] + Cardinality(Holders(p)) /\ deadLetters[p] \in Nat /\ Cardinality(Holders(p)) \in Nat
        BY <1>3, <1>5, <2>1, FewHolders, Zenon DEF BrokerTypes
      <4> QED
        BY <3>2, <4>1, <4>2
    <3> QED
      BY <1>2, <1>5, <2>2, <2>3, <2>4, <3>3, Account
  <2>5. CASE ~(n >= MaxAttempts)
    <3>1. SameHolders(p)
      <4>1. PICK dead : dead = {} /\ CallMade(t, m, n >= MaxAttempts, dead)
        BY <1>3, <2>5, Zenon
      <4>2. p \notin dead
        BY <4>1, Zenon
      <4> QED
        BY <1>5, <4>1, <4>2, CallHolders, Zenon
    <3>2. GivenUp(p)' = g
      BY <1>4, <2>1, <3>1, Zenon DEF GivenUp, SameHolders, Holders
    <3> QED
      BY <1>2, <1>5, <2>2, <2>3, <2>5, <3>2, Account, Zenon
  <2> QED
    BY <2>4, <2>5, Zenon
<1> QED
  BY <1>6, <1>7, <1>8, Zenon DEF AttemptInv, DeadAfterMaxAttempts

\* A thread begins a delivery.
LEMMA BeginAttempts ==
  ASSUME Counting, AttemptInv, BrokerInv, NEW t \in Deliverers, NEW events, beginDeliver(t, events)
  PROVE  AttemptInv'
<1>1. /\ BrokerTypes /\ UNCHANGED <<tries, failures, deadLetters>>
      /\ delivery[t].dead = {} /\ delivery'[t].dead = {} /\ \A v \in Deliverers \ {t} : delivery'[v] = delivery[v]
  BY DEF BrokerInv, BrokerTypes, beginDeliver, DeliverInv, NoDelivery
<1>2. \A q \in Pairs : SameHolders(q)
  BY <1>1, Zenon DEF SameHolders, Holders
<1> QED
  BY <1>1, <1>2, AccountKept, Zenon DEF AttemptInv, DeadAfterMaxAttempts

\* A delivery ends: its dead letters move to the list of the broker.
LEMMA EndAttempts ==
  ASSUME Counting, AttemptInv, BrokerInv, NEW t \in Deliverers, endDeliver(t)
  PROVE  AttemptInv'
<1>1. BrokerTypes /\ UNCHANGED <<tries, failures>>
  BY Zenon DEF BrokerInv, endDeliver
<1>2. /\ deadLetters' = [p \in Pairs |-> deadLetters[p] + (IF p \in delivery[t].dead THEN 1 ELSE 0)]
      /\ delivery' = [delivery EXCEPT ![t] = NoDelivery] /\ NoDelivery.dead = {}
      /\ deadLetters \in [Pairs -> Nat] /\ delivery \in [Deliverers -> DeliveryType]
  BY Zenon DEF endDeliver, NoDelivery, BrokerInv, BrokerTypes
<1>3. ASSUME NEW q \in Pairs PROVE GivenUp(q)' = GivenUp(q)
  <2>1. Holders(q)' = Holders(q) \ {t} /\ (t \in Holders(q) <=> q \in delivery[t].dead)
    BY <1>2, Zenon DEF Holders
  <2>2. /\ GivenUp(q)' = deadLetters'[q] + Cardinality(Holders(q)') /\ GivenUp(q) = deadLetters[q] + Cardinality(Holders(q))
        /\ deadLetters[q] \in Nat /\ Cardinality(Holders(q)) \in Nat /\ IsFiniteSet(Holders(q))
    BY <1>1, <1>2, FewHolders, Zenon DEF GivenUp, Holders
  <2>3. CASE q \in delivery[t].dead
    <3>1. Cardinality(Holders(q) \ {t}) = Cardinality(Holders(q)) - 1
      BY <2>1, <2>2, <2>3, Zenon DEF Counting, LessCounts
    <3>2. deadLetters'[q] = deadLetters[q] + 1
      BY <1>2, <2>3, Zenon
    <3> QED
      BY <2>1, <2>2, <3>1, <3>2
  <2>4. CASE q \notin delivery[t].dead
    <3>1. Holders(q)' = Holders(q)
      BY <2>1, <2>4, Zenon
    <3>2. deadLetters'[q] = deadLetters[q]
      BY <1>2, <2>2, <2>4
    <3> QED
      BY <2>2, <3>1, <3>2, Zenon
  <2> QED
    BY <2>3, <2>4, Zenon
<1> QED
  BY <1>1, <1>3, Zenon DEF AttemptInv, DeadAfterMaxAttempts

\* Every step keeps the account.
LEMMA AttemptInductive ==
  ASSUME Counting, AttemptInv, BrokerInv, [BrokerNext]_brokerVars
  PROVE  AttemptInv'
<1>1. ASSUME UNCHANGED <<tries, failures, deadLetters, delivery>> PROVE AttemptInv'
  BY <1>1, Zenon DEF AttemptInv, DeadAfterMaxAttempts, GivenUp
<1>2. ASSUME NEW m \in Messages, publish(m) PROVE AttemptInv'
  BY <1>1, <1>2, Zenon DEF publish
<1>3. ASSUME subscribe PROVE AttemptInv'
  BY <1>1, <1>3, Zenon DEF subscribe
<1>4. ASSUME UNCHANGED brokerVars PROVE AttemptInv'
  BY <1>1, <1>4, Zenon DEF brokerVars
<1> QED
  BY <1>2, <1>3, <1>4, BeginAttempts, OkAttempts, FailedAttempts, EndAttempts, Zenon DEF BrokerNext

\* Nobody has failed yet.
LEMMA AttemptStart ==
  ASSUME Counting, BrokerInit
  PROVE  AttemptInv
<1>1. tries = [p \in Pairs |-> 0] /\ failures = [p \in Pairs |-> 0]
  BY Zenon DEF BrokerInit
<1>2. ASSUME NEW p \in Pairs PROVE GivenUp(p) = 0
  <2>1. deadLetters[p] = 0 /\ {t \in Deliverers : p \in delivery[t].dead} = {}
    BY Zenon DEF BrokerInit, NoDelivery
  <2>2. Cardinality({}) = 0
    BY Zenon DEF Counting, EmptyCounts
  <2>3. GivenUp(p) = 0 + 0
    BY <2>1, <2>2, Zenon DEF GivenUp
  <2> QED
    BY <2>3
<1>3. \A p \in Pairs : GivenUp(p) * MaxAttempts + tries[p] <= failures[p]
  <2>1. 0 * MaxAttempts + 0 <= 0
    BY BrokerAssumption
  <2> QED
    BY <1>1, <1>2, <2>1, Zenon
<1> QED
  BY <1>1, <1>3, Zenon DEF AttemptInv, DeadAfterMaxAttempts

-----------------------------------------------------------------------------
(* Counting holds; the theorems about the broker.                          *)

INSTANCE FiniteSetTheorems

\* The library's theorems about finite sets.
LEMMA CountingHolds == Counting
<1>1. EmptyCounts
  BY FS_EmptySet, Zenon DEF EmptyCounts
<1>2. NatCounts
  BY FS_CardinalityType, Zenon DEF NatCounts
<1>3. PartCounts
  BY FS_Subset, Zenon DEF PartCounts
<1>4. MoreCounts
  BY FS_AddElement, Zenon DEF MoreCounts
<1>5. LessCounts
  BY FS_RemoveElement, Zenon DEF LessCounts
<1> QED
  BY <1>1, <1>2, <1>3, <1>4, <1>5, Zenon DEF Counting

\* An event leaves the topic only when it is over for all it was published to, for
\* any number of events, subscriptions and threads that deliver at the same time
\* (in_memory_broker.cc:51-91).
THEOREM DeliveredToAllAlways == BrokerSpec => []DeliveredToAll
<1>1. BrokerInv => DeliveredToAll
  BY Zenon DEF BrokerInv
<1>2. BrokerInit => BrokerInv
  BY CountingHolds, BrokerStart, Zenon
<1>3. BrokerInv /\ [BrokerNext]_brokerVars => BrokerInv'
  BY CountingHolds, BrokerInductive, Zenon
<1> QED
  BY <1>1, <1>2, <1>3, PTL DEF BrokerSpec

\* A dead letter stands for max_attempts failed calls of its own, whichever threads
\* made them and however their deliveries overlapped (in_memory_broker.cc:72-80).
THEOREM DeadAfterMaxAttemptsAlways == BrokerSpec => []DeadAfterMaxAttempts
<1>1. AttemptInv => DeadAfterMaxAttempts
  BY Zenon DEF AttemptInv
<1>2. BrokerInit => BrokerInv /\ AttemptInv
  BY CountingHolds, BrokerStart, AttemptStart, Zenon
<1>3. BrokerInv /\ AttemptInv /\ [BrokerNext]_brokerVars => BrokerInv' /\ AttemptInv'
  BY CountingHolds, BrokerInductive, AttemptInductive, Zenon
<1> QED
  BY <1>1, <1>2, <1>3, PTL DEF BrokerSpec
=============================================================================
