---------------------------- MODULE MCMessaging -----------------------------
(***************************************************************************)
(* The messaging components, each on its own: the outbox with its           *)
(* dispatcher, the in-memory broker, and the orders over Kafka.  part names *)
(* the one that runs in a behaviour; the others keep their initial state,   *)
(* so the state spaces add up instead of multiplying.                       *)
(***************************************************************************)
EXTENDS Outbox, InMemoryBroker, KafkaOrders

VARIABLE part

vars == <<part, outboxVars, brokerVars, kafkaVars>>

Init ==
  /\ part \in {"outbox", "broker", "kafka"}
  /\ OutboxInit /\ BrokerInit /\ KafkaInit

Next ==
  /\ \/ part = "outbox" /\ OutboxNext /\ UNCHANGED <<brokerVars, kafkaVars>>
     \/ part = "broker" /\ BrokerNext /\ UNCHANGED <<outboxVars, kafkaVars>>
     \/ part = "kafka" /\ KafkaNext /\ UNCHANGED <<outboxVars, brokerVars>>
  /\ UNCHANGED part

\* Outbox: the dispatcher keeps running, a drain that was begun ends, a process
\* that ended is started again, and a publisher asked again and again does not
\* refuse for ever (InMemoryBroker::publish never does; a full Kafka buffer
\* empties).  Kafka: librdkafka and the consumer's thread keep running.
Fairness ==
  /\ WF_outboxVars(part = "outbox" /\ (wakeUp \/ idle \/ published \/ refused \/ putBack \/ open))
  /\ SF_outboxVars(part = "outbox" /\ published)
  /\ WF_kafkaVars(part = "kafka" /\ transmit)
  /\ WF_kafkaVars(part = "kafka" /\ consumerStep)

Spec == Init /\ [][Next]_vars /\ Fairness
=============================================================================
