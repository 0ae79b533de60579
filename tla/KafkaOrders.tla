---------------------------- MODULE KafkaOrders -----------------------------
(***************************************************************************)
(* Flash-sale orders over Kafka (src/messaging/kafka_*.cc): KafkaOrderQueue *)
(* pushes into the producer's buffer, librdkafka moves the buffer to the    *)
(* topics, KafkaFlashSaleOrderConsumer polls, handles each record up to     *)
(* max_attempts times and commits its offset when the handler returned Ok,  *)
(* and KafkaDlqOperator copies dead letters back to the topic of orders.    *)
(*                                                                          *)
(* librdkafka and the broker are external: a topic is an append-only log, a *)
(* commit of an offset covers all earlier ones, the consumer's position     *)
(* moves on whether or not it commits and returns to the committed offset   *)
(* at a restart.  Of the database and the inventory only what one order     *)
(* sees is kept; a call of either may take effect and still report an error *)
(* (the reply was lost).                                                    *)
(***************************************************************************)
EXTENDS Integers, Sequences, Functions, FiniteSets

CONSTANTS Orders,        \* orders pushed in a behaviour, their stock reserved
          Garbled,       \* records of other writers that do not deserialize
          Attempts,      \* max_attempts_, 5 in the program
          MaxMessages,   \* max_messages of a replay
          MaxInputs      \* bound: pushes, replays and crashes, taken together

ASSUME KafkaAssumption == /\ Attempts \in Nat \ {0} /\ Orders \cap Garbled = {}
                          /\ MaxMessages \in Nat /\ MaxInputs \in Nat

VARIABLES
  buffer,     \* records the producer accepted and has not sent
  topic,      \* the log of orders
  dlq,        \* the log of dead letters
  sent,       \* records given to the producer as orders
  consumer,   \* the consumer: pc, position, calls made for the polled record,
              \* and whether the failure is a refusal whose status is Ok
  attempts,   \* attempts_ by offset
  committed,  \* the group's committed offset
  stored,     \* orders in the database
  stock,      \* state of each order's reservation
  unsent,     \* offsets for which the producer refused a dead letter
  lost,       \* dead letters that were buffered when the process died
  replay,     \* the running replay: on, its group, its position and its count
  groups,     \* committed offset of each replay group
  inputs      \* pushes, replays and crashes so far

consumerVars == <<consumer, attempts, committed, stored, stock, unsent>>
replayVars == <<replay, groups>>
kafkaVars == <<buffer, topic, dlq, sent, consumer, attempts, committed, stored,
               stock, unsent, lost, replay, groups, inputs>>

Records == Orders \cup Garbled
Polling(position) == [pc |-> "poll", position |-> position, calls |-> 0, refusal |-> FALSE]
NoReplay == [on |-> FALSE, group |-> 0, position |-> 0, replayed |-> 0]

KafkaInit ==
  /\ buffer = <<>> /\ topic = <<>> /\ dlq = <<>> /\ sent = {}
  /\ consumer = Polling(0) /\ attempts = <<>> /\ committed = 0
  /\ stored = {} /\ stock = [o \in Orders |-> "reserved"]
  /\ unsent = {} /\ lost = {} /\ inputs = 0
  /\ replay = NoReplay /\ groups = [g \in 1..MaxInputs |-> 0]

-----------------------------------------------------------------------------
Input == inputs < MaxInputs /\ inputs' = inputs + 1

\* KafkaProducer::publish: Ok as soon as the record is in the client's buffer.
Buffered(topicName, r) == Append(buffer, [to |-> topicName, record |-> r])

\* KafkaOrderQueue::push.
push(o) ==
  /\ o \notin sent /\ Input
  /\ sent' = sent \cup {o}
  /\ buffer' = Buffered("orders", o)
  /\ UNCHANGED <<topic, dlq, consumerVars, lost, replayVars>>

\* librdkafka sends the oldest buffered record.
transmit ==
  /\ buffer # <<>>
  /\ buffer' = Tail(buffer)
  /\ topic' = IF Head(buffer).to = "orders" THEN Append(topic, Head(buffer).record) ELSE topic
  /\ dlq' = IF Head(buffer).to = "dlq" THEN Append(dlq, Head(buffer).record) ELSE dlq
  /\ UNCHANGED <<sent, consumerVars, lost, replayVars, inputs>>

Record == topic[consumer.position]
At(pc) == consumer.pc = pc
GoTo(pc) == consumer' = [consumer EXCEPT !.pc = pc]
Others == UNCHANGED <<topic, dlq, sent, lost, replayVars, inputs>>

\* poll takes the next record and enters handle; the position has moved on.
poll ==
  /\ At("poll") /\ consumer.position < Len(topic)
  /\ consumer' = [consumer EXCEPT !.position = @ + 1, !.calls = 1, !.refusal = FALSE,
                    !.pc = IF topic[consumer.position + 1] \in Garbled THEN "failed" ELSE "persist"]
  /\ attempts' = [i \in DOMAIN attempts \cup {consumer.position + 1} |->
                    IF i \in DOMAIN attempts THEN attempts[i] ELSE 0]
  /\ UNCHANGED <<buffer, committed, stored, stock, unsent>> /\ Others

\* Mutant: the stock is confirmed before the order is stored.
PersistAfterConfirm ==
  /\ At("persist")
  /\ \/ /\ stock' = [stock EXCEPT ![Record] = IF @ = "reserved" THEN "confirmed" ELSE @]
        /\ GoTo("confirm") /\ UNCHANGED stored
     \/ GoTo("failed") /\ UNCHANGED <<stored, stock>>
  /\ UNCHANGED <<buffer, attempts, committed, unsent>> /\ Others

\* repository_->persistQueuedOrder.
persist ==
  /\ At("persist")
  /\ \/ stored' = stored \cup {Record} /\ GoTo("confirm")
     \/ stored' \in {stored, stored \cup {Record}} /\ GoTo("failed")
  /\ UNCHANGED <<buffer, attempts, committed, stock, unsent>> /\ Others

\* inventory_->confirm: a released reservation is refused with status Ok.
confirm ==
  /\ At("confirm")
  /\ LET confirmed == [stock EXCEPT ![Record] = "confirmed"] IN
     \/ /\ stock[Record] # "released" /\ stock' = confirmed /\ GoTo("commit")
        /\ attempts' = [attempts EXCEPT ![consumer.position] = 0]
     \/ /\ stock[Record] = "released" /\ UNCHANGED <<stock, attempts>>
        /\ consumer' = [consumer EXCEPT !.pc = "failed", !.refusal = TRUE]
     \/ /\ stock' \in IF stock[Record] = "released" THEN {stock} ELSE {stock, confirmed}
        /\ GoTo("failed") /\ UNCHANGED attempts
  /\ UNCHANGED <<buffer, committed, stored, unsent>> /\ Others

\* Mutant: the failures of a record are never counted to the end.
RetryForEver ==
  consumer' = [consumer EXCEPT !.refusal = FALSE,
                 !.pc = IF Record \in Garbled THEN "failed" ELSE "persist"]

\* handle returned an error: run calls it again for the same record, up to
\* max_attempts_ calls, then leaves the record uncommitted.
Retry ==
  consumer' = IF consumer.calls < Attempts
              THEN [consumer EXCEPT !.calls = @ + 1, !.refusal = FALSE,
                      !.pc = IF Record \in Garbled THEN "failed" ELSE "persist"]
              ELSE Polling(consumer.position)

\* The failure is counted (the count is only compared with max_attempts_ and stops
\* there); the last one sends a dead letter.  When the producer refuses it, handle
\* returns the status of the failed call, which is Ok for a refused confirmation.
handleFailed ==
  /\ At("failed")
  /\ LET count == attempts[consumer.position] + 1 IN
     \/ /\ count < Attempts
        /\ attempts' = [attempts EXCEPT ![consumer.position] = count]
        /\ Retry /\ UNCHANGED <<buffer, unsent>>
     \/ /\ count >= Attempts
        /\ attempts' = [attempts EXCEPT ![consumer.position] = Attempts]
        /\ unsent' = unsent \cup {consumer.position} /\ UNCHANGED buffer
        /\ IF consumer.refusal THEN GoTo("commit") ELSE Retry
     \/ /\ count >= Attempts
        /\ buffer' = Buffered("dlq", Record) /\ UNCHANGED unsent
        /\ attempts' = [attempts EXCEPT ![consumer.position] = 0]
        /\ GoTo(IF Record \in Garbled THEN "commit" ELSE "compensate")
  /\ UNCHANGED <<committed, stored, stock>> /\ Others

\* compensate: the release may fail and is not looked at.
compensate ==
  /\ At("compensate")
  /\ stock' \in {stock, [stock EXCEPT ![Record] = IF @ = "reserved" THEN "released" ELSE @]}
  /\ GoTo("commit")
  /\ UNCHANGED <<buffer, attempts, committed, stored, unsent>> /\ Others

\* Mutant: the offset is committed although the last call of handle failed.
CommitEveryPoll ==
  /\ At("commit") \/ (At("failed") /\ consumer.calls = Attempts)
  /\ consumer' = Polling(consumer.position)
  /\ committed' = consumer.position
  /\ UNCHANGED <<buffer, attempts, stored, stock, unsent>> /\ Others

\* handle returned Ok: rd_kafka_commit_message, whose failure is ignored.
commit ==
  /\ At("commit")
  /\ consumer' = Polling(consumer.position)
  /\ committed' \in {committed, consumer.position}
  /\ UNCHANGED <<buffer, attempts, stored, stock, unsent>> /\ Others

-----------------------------------------------------------------------------
\* KafkaDlqOperator::replay: a group named by a counter of the process reads the
\* dead letters from its committed offset.
startReplay ==
  /\ ~replay.on /\ Input
  /\ replay' = [on |-> TRUE, group |-> replay.group + 1,
                position |-> groups[replay.group + 1], replayed |-> 0]
  /\ UNCHANGED <<buffer, topic, dlq, sent, consumerVars, lost, groups>>

replayOne ==
  /\ replay.on /\ replay.replayed < MaxMessages /\ replay.position < Len(dlq)
  /\ replay' = [replay EXCEPT !.position = @ + 1, !.replayed = @ + 1]
  /\ buffer' = Buffered("orders", dlq[replay.position + 1])
  /\ groups' = [groups EXCEPT ![replay.group] = replay.position + 1]
  /\ UNCHANGED <<topic, dlq, sent, consumerVars, lost, inputs>>

\* The limit, two idle seconds, or an error of the poll or the producer end it.
endReplay ==
  /\ replay.on
  /\ replay' = [replay EXCEPT !.on = FALSE]
  /\ UNCHANGED <<buffer, topic, dlq, sent, consumerVars, lost, groups, inputs>>

\* The process dies and is started again: the buffer, the counters and the
\* position are gone, the group resumes behind its committed offset.
kill ==
  /\ Input
  /\ buffer' = <<>>
  /\ lost' = lost \cup {b.record : b \in {c \in Range(buffer) : c.to = "dlq"}}
  /\ consumer' = Polling(committed) /\ attempts' = <<>>
  /\ replay' = NoReplay
  /\ UNCHANGED <<topic, dlq, sent, committed, stored, stock, unsent, groups>>

\* One step of run, on the consumer's thread.
consumerStep == poll \/ persist \/ confirm \/ handleFailed \/ compensate \/ commit

KafkaNext ==
  \/ \E o \in Records : push(o)
  \/ transmit \/ consumerStep
  \/ startReplay \/ replayOne \/ endReplay \/ kill

KafkaSpec == KafkaInit /\ [][KafkaNext]_kafkaVars

-----------------------------------------------------------------------------
DeadLettered(r) ==
  r \in Range(dlq) \/ [to |-> "dlq", record |-> r] \in Range(buffer)
Sold(r) == r \in stored /\ r \in Orders /\ stock[r] = "confirmed"

\* A committed offset covers only records that became a sold order or a dead
\* letter, apart from those whose dead letter the producer refused or lost in its
\* buffer: retries, lost replies, replays and restarts skip no other record
\* (kafka_client.cc:98-99, kafka_flash_sale_consumer.cc:97-101).
CommittedIsSettled ==
  \A i \in 1..committed : \/ Sold(topic[i]) \/ DeadLettered(topic[i])
                          \/ i \in unsent \/ topic[i] \in lost

\* Stock is sold only for orders the database holds, and given back only for
\* orders that went to the dead letters, whatever replies were lost and however
\* often a record is handled again (kafka_flash_sale_consumer.cc:22-51).
StockFollowsOrder ==
  \A o \in Orders : /\ stock[o] = "confirmed" => o \in stored
                    /\ stock[o] = "released" => (DeadLettered(o) \/ o \in lost)

\* A failing record never blocks the topic: each one is polled, handled at most
\* max_attempts_ times and left behind (kafka_flash_sale_consumer.cc:98).
RecordsAreLeftBehind ==
  \A i \in 1..Cardinality(Records) :
     (Len(topic) >= i) ~> (consumer.position >= i /\ consumer.pc = "poll")
=============================================================================
