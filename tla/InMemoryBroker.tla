--------------------------- MODULE InMemoryBroker ---------------------------
(***************************************************************************)
(* InMemoryBroker (src/messaging/in_memory_broker.cc): one topic with its   *)
(* dead-letter topic, the subscriptions of the topic, and threads that      *)
(* publish and deliver at the same time.  deliver copies the queue and the  *)
(* subscriptions under the mutex, calls the handlers without it, and takes  *)
(* it again for every attempt counter and to remove what was delivered.     *)
(*                                                                          *)
(* Subscriptions have the ids 1, 2, ... in the order they are made.  An     *)
(* event keeps the sequence number it was published with, so that a queue   *)
(* or a copy of it is a set of events: the oldest has the least number.     *)
(***************************************************************************)
EXTENDS Integers, FiniteSets, Functions

CONSTANTS Messages,      \* events published to the topic, each once
          MaxSubs,       \* bound: subscriptions of the topic
          Deliverers,    \* threads that call deliver
          MaxAttempts,   \* max_attempts of every subscription
          MaxFailures    \* bound: failed handler calls in a behaviour

ASSUME BrokerAssumption == /\ IsFiniteSet(Messages) /\ IsFiniteSet(Deliverers) /\ MaxSubs \in Nat
                           /\ MaxAttempts \in Nat \ {0} /\ MaxFailures \in Nat

VARIABLES
  queue,       \* events_[topic]
  sequence,    \* the place of every event in the order of publication, 0 before it;
               \* dead letters take numbers in between, which moves no event
  subscribed,  \* the number of subscriptions_[topic]
  deadLetters, \* events_[topic.DLQ]: how many for each pair
  tries,       \* delivery_attempts_
  delivery,    \* the locals of each thread's running deliver
  audience,    \* how many were subscribed when each event was published
  handled,     \* <<subscription, event>> whose handler returned Ok
  failures     \* failed handler calls per <<subscription, event>>

brokerVars == <<queue, sequence, subscribed, deadLetters, tries, delivery,
                audience, handled, failures>>

\* A thread outside deliver; in it, next is the subscription to be called for the
\* oldest of events.
NoDelivery == [on |-> FALSE, events |-> {}, subs |-> 0, next |-> 1, ok |-> TRUE,
               delivered |-> {}, dead |-> {}]

Pairs == (1..MaxSubs) \X Messages
Published(m) == sequence[m] # 0

BrokerInit ==
  /\ queue = {} /\ subscribed = 0 /\ handled = {}
  /\ sequence = [m \in Messages |-> 0] /\ audience = [m \in Messages |-> 0]
  /\ deadLetters = [p \in Pairs |-> 0]
  /\ tries = [p \in Pairs |-> 0] /\ failures = [p \in Pairs |-> 0]
  /\ delivery = [t \in Deliverers |-> NoDelivery]

-----------------------------------------------------------------------------
publish(m) ==
  /\ ~Published(m)
  /\ queue' = queue \cup {m}
  /\ sequence' = [sequence EXCEPT ![m] = 1 + Cardinality({n \in Messages : Published(n)})]
  /\ audience' = [audience EXCEPT ![m] = subscribed]
  /\ UNCHANGED <<subscribed, deadLetters, tries, delivery, handled, failures>>

subscribe ==
  /\ subscribed < MaxSubs
  /\ subscribed' = subscribed + 1
  /\ UNCHANGED <<queue, sequence, deadLetters, tries, delivery, audience, handled, failures>>

\* deliver, first critical section: the oldest events, as many as were asked for,
\* and the subscriptions are copied; without subscriptions the call ends with
\* FailedPrecondition.
beginDeliver(t, events) ==
  /\ ~delivery[t].on /\ subscribed # 0 /\ events # {} /\ events \subseteq queue
  /\ \A m \in events, n \in queue \ events : sequence[m] < sequence[n]
  /\ delivery' = [delivery EXCEPT ![t] =
       [NoDelivery EXCEPT !.on = TRUE, !.events = events, !.subs = subscribed]]
  /\ UNCHANGED <<queue, sequence, subscribed, deadLetters, tries, audience, handled, failures>>

\* The event whose handlers are called.
Turn(t, m) ==
  m \in delivery[t].events /\ \A n \in delivery[t].events : sequence[m] <= sequence[n]

\* The locals of a deliver after a call for event m, which leaves the event
\* deliverable or not and perhaps yields a dead letter.
AfterCall(d, m, fine, dead) ==
  LET last == d.next = d.subs
      ok   == d.ok /\ fine
  IN  [on |-> d.on, subs |-> d.subs, dead |-> d.dead \cup dead,
       next |-> IF last THEN 1 ELSE d.next + 1,
       ok |-> last \/ ok,
       events |-> IF last THEN d.events \ {m} ELSE d.events,
       delivered |-> IF last /\ ok THEN d.delivered \cup {m} ELSE d.delivered]

handlerOk(t, m) ==
  LET p == <<delivery[t].next, m>> IN
  /\ Turn(t, m)
  /\ tries' = [tries EXCEPT ![p] = 0]
  /\ handled' = handled \cup {p}
  /\ delivery' = [delivery EXCEPT ![t] = AfterCall(@, m, TRUE, {})]
  /\ UNCHANGED <<queue, sequence, subscribed, deadLetters, audience, failures>>

\* A failed call of the pair's handler with the counter's new value, what is left
\* of the counter, and whether the event may still leave the queue.
HandlerFails(t, m, n, left, fine) ==
  LET p == <<delivery[t].next, m>> IN
  /\ Turn(t, m)
  /\ FoldFunction(+, 0, failures) < MaxFailures
  /\ failures' = [failures EXCEPT ![p] = @ + 1]
  /\ tries' = [tries EXCEPT ![p] = left]
  /\ delivery' = [delivery EXCEPT ![t] =
       AfterCall(@, m, fine, IF n >= MaxAttempts THEN {p} ELSE {})]
  /\ UNCHANGED <<queue, sequence, subscribed, deadLetters, audience, handled>>

\* Mutant: a failed call does not keep the event.
HandlerFailedIgnored(t, m) ==
  LET n == tries[<<delivery[t].next, m>>] + 1
  IN  HandlerFails(t, m, n, IF n >= MaxAttempts THEN 0 ELSE n, TRUE)

\* Mutant: the counter stays when the dead letter is made.
HandlerFailedKeepsCount(t, m) ==
  LET n == tries[<<delivery[t].next, m>>] + 1
  IN  HandlerFails(t, m, n, n, n >= MaxAttempts)

\* The attempt is counted; the last one allowed becomes a dead letter, erases the
\* counter and lets the event go, an earlier one keeps it.
handlerFailed(t, m) ==
  LET n == tries[<<delivery[t].next, m>>] + 1
  IN  HandlerFails(t, m, n, IF n >= MaxAttempts THEN 0 ELSE n, n >= MaxAttempts)

\* deliver, last critical section: delivered events leave the queue, dead letters
\* enter their topic.
endDeliver(t) ==
  /\ delivery[t].on /\ delivery[t].events = {}
  /\ queue' = queue \ delivery[t].delivered
  /\ deadLetters' = [p \in Pairs |-> deadLetters[p] + IF p \in delivery[t].dead THEN 1 ELSE 0]
  /\ delivery' = [delivery EXCEPT ![t] = NoDelivery]
  /\ UNCHANGED <<sequence, subscribed, tries, audience, handled, failures>>

BrokerNext ==
  \/ \E m \in Messages : publish(m)
  \/ subscribe
  \/ \E t \in Deliverers :
       \/ \E events \in SUBSET Messages : beginDeliver(t, events)
       \/ \E m \in Messages : handlerOk(t, m) \/ handlerFailed(t, m)
       \/ endDeliver(t)

BrokerSpec == BrokerInit /\ [][BrokerNext]_brokerVars

-----------------------------------------------------------------------------
\* How often the pair was given up: dead letters in their topic, and in the locals
\* of a running deliver, which calls a pair once.
GivenUp(p) == deadLetters[p] + Cardinality({t \in Deliverers : p \in delivery[t].dead})

\* An event leaves the topic only after every subscriber it was published to has
\* handled it or has a dead letter for it, also when several deliver calls work
\* on the same event (in_memory_broker.cc:51-91).
DeliveredToAll ==
  \A m \in Messages : (Published(m) /\ m \notin queue) =>
     \A s \in 1..audience[m] : <<s, m>> \in handled \/ deadLetters[<<s, m>>] > 0

\* A subscriber's dead letters for an event each stand for max_attempts failed
\* calls of its handler, whichever threads made them (in_memory_broker.cc:63-78).
DeadAfterMaxAttempts ==
  \A p \in Pairs : GivenUp(p) * MaxAttempts + tries[p] <= failures[p]
=============================================================================
