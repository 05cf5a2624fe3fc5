----------------------------- MODULE KafkaBridge ------------------------------
(***************************************************************************)
(* The Kafka consumer of rustfs_mq_bridge_cli.py: it fetches a message,    *)
(* stores the events in it one by one, then commits its position - the     *)
(* one in every partition - and goes on to the next message; a message     *)
(* that fails is printed and not fetched again unless the consumer starts  *)
(* anew before a later message commits.                                    *)
(***************************************************************************)
EXTENDS Naturals, Sequences, FiniteSets

CONSTANTS
  Partitions,
  Log,           \* [Partitions -> Seq(messages)], a message the sequence of its events
  Malformed,     \* the messages <<p, i>> that cannot be read: no JSON, too many
                 \*   events, an item that is no event
  Anonymous,     \* events without an event_id: each arrival is given a new one
  NoMessage,
  MaxBridgeFaults \* bound: errors of the database or the broker, and crashes

KafkaEvents == UNION {UNION {{Log[p][i][j] : j \in DOMAIN Log[p][i]} :
                                i \in DOMAIN Log[p]} : p \in Partitions}
Messages    == UNION {{<<p, i>> : i \in DOMAIN Log[p]} : p \in Partitions}

ASSUME KafkaAssumption ==
  /\ Log \in [Partitions -> Seq(Seq(KafkaEvents))]
  /\ Malformed \subseteq Messages /\ Anonymous \subseteq KafkaEvents
  /\ NoMessage \notin Messages /\ MaxBridgeFaults \in Nat

VARIABLES
  position,  \* the consumer's, per partition: how many messages it has fetched
  committed, \* the group's
  hand,      \* the message being handled
  stored,    \* how many of its events have been stored; more than all: commit
  consumer,  \* "up" or "down"
  rows,      \* rows of rustfs_events per event
  printed,   \* the messages whose failure was printed
  faults

kafkaVars == <<position, committed, hand, stored, consumer, rows, printed, faults>>

EventsOf(m) == Log[m[1]][m[2]]

(* auto_offset_reset is "earliest". *)
KafkaInit ==
  /\ position = [p \in Partitions |-> 0] /\ committed = position
  /\ hand = NoMessage /\ stored = 0
  /\ consumer = "up"
  /\ rows = [e \in KafkaEvents |-> 0]
  /\ printed = {} /\ faults = 0

Fault == faults < MaxBridgeFaults /\ faults' = faults + 1

FetchMessage(p) ==
  /\ consumer = "up" /\ hand = NoMessage /\ position[p] < Len(Log[p])
  /\ position' = [position EXCEPT ![p] = @ + 1]
  /\ hand' = <<p, position[p] + 1>> /\ stored' = 0
  /\ UNCHANGED <<committed, consumer, rows, printed, faults>>

(* except: the failure is printed, and the next message fetched. *)
Give(m) ==
  /\ hand' = NoMessage /\ stored' = 0
  /\ printed' = printed \cup {m}

RejectMessage ==
  /\ hand \in Malformed /\ Give(hand)
  /\ UNCHANGED <<position, committed, consumer, rows, faults>>

(* A faulty EnqueueRow: create_rustfs_event without the look first. *)
InsertAlways(e) == rows' = [rows EXCEPT ![e] = @ + 1]

(* enqueue_rustfs_event: an event that has a row already is passed over. *)
EnqueueRow(e) ==
  rows' = [rows EXCEPT ![e] = IF @ = 0 \/ e \in Anonymous THEN @ + 1 ELSE @]

HandSound == hand # NoMessage /\ hand \notin Malformed
More      == HandSound /\ stored < Len(EventsOf(hand))

EnqueueNext ==
  /\ More /\ EnqueueRow(EventsOf(hand)[stored + 1])
  /\ stored' = stored + 1
  /\ UNCHANGED <<position, committed, hand, consumer, printed, faults>>

(* An error of the database, before its commit or after. *)
EnqueueFails ==
  /\ More /\ Fault /\ Give(hand)
  /\ EnqueueRow(EventsOf(hand)[stored + 1]) \/ UNCHANGED rows
  /\ UNCHANGED <<position, committed, consumer>>

(* consumer.commit(), without arguments. *)
CommitPosition ==
  /\ HandSound /\ ~More
  /\ committed' = position
  /\ hand' = NoMessage /\ stored' = 0
  /\ UNCHANGED <<position, consumer, rows, printed, faults>>

CommitFails ==
  /\ HandSound /\ ~More /\ Fault /\ Give(hand)
  /\ UNCHANGED <<position, committed, consumer, rows>>

ConsumerDies ==
  /\ consumer = "up" /\ Fault /\ consumer' = "down"
  /\ hand' = NoMessage /\ stored' = 0
  /\ UNCHANGED <<position, committed, rows, printed>>

ConsumerStarts ==
  /\ consumer = "down" /\ consumer' = "up"
  /\ position' = committed
  /\ UNCHANGED <<committed, hand, stored, rows, printed, faults>>

HandleMessage ==
  \/ RejectMessage \/ EnqueueNext \/ EnqueueFails \/ CommitPosition \/ CommitFails

KafkaNext ==
  \/ \E p \in Partitions : FetchMessage(p)
  \/ HandleMessage \/ ConsumerDies \/ ConsumerStarts

KafkaSpec == KafkaInit /\ [][KafkaNext]_kafkaVars

-----------------------------------------------------------------------------
(* The values of the variables. *)
KafkaTypeOK ==
  /\ \A p \in Partitions : committed[p] \in 0..position[p] /\ position[p] <= Len(Log[p])
  /\ hand \in Messages \cup {NoMessage} /\ stored \in Nat
  /\ consumer \in {"up", "down"}
  /\ rows \in [KafkaEvents -> Nat]
  /\ printed \subseteq Messages /\ faults \in 0..MaxBridgeFaults

(* What the group has committed was stored to its last event, or its       *)
(* failure was printed: the commit of one message, which takes in the      *)
(* other partitions, and a restart between any two steps pass over no      *)
(* other (rustfs_mq_bridge_cli.py:128-146). And what is consumed again     *)
(* adds no second row for an event with an id.                             *)
CommittedIsAccountedFor ==
  /\ \A p \in Partitions : \A i \in 1..committed[p] :
       \/ <<p, i>> \in printed
       \/ \A j \in DOMAIN Log[p][i] : rows[Log[p][i][j]] > 0
  /\ \A e \in KafkaEvents \ Anonymous : rows[e] <= 1
=============================================================================
