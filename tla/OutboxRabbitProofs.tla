------------------------- MODULE OutboxRabbitProofs --------------------------
(***************************************************************************)
(* What holds of the RabbitMQ path for every set of events, every batch    *)
(* size and every retry limit, whatever fails and however often.           *)
(***************************************************************************)
EXTENDS OutboxRabbit, TLAPS

-----------------------------------------------------------------------------
(* The inductive invariant.  Next to the properties of OutboxRabbit it     *)
(* says what the publisher and the bridge have in hand at each point.      *)

(* A publisher that waits for a confirmation waits for an event it has     *)
(* taken from its batch; one that is not at work has no batch.             *)
BatchInHand ==
  /\ pc # "confirm" => current = None
  /\ pc = "confirm" => current \in batch \ todo
  /\ pc \in {"idle", "dead", "down"} => batch = {}
  /\ pc = "down" => crashes > 0

(* What the bridge is about to acknowledge has its row. *)
RowBeforeAck == bridge = "ack" => mq # <<>> /\ Received(Head(mq))

Delivered(e) == Queued(e) \/ Received(e)

SentIsDelivered == pc = "confirm" => Delivered(current)

(* An event has fewer than MaxRetry failures when it is claimed, one more  *)
(* at most when its batch is given up, and two at most after that.         *)
RetriesInBatch ==
  /\ pc \in {"connect", "publish", "confirm"} =>
       /\ \A e \in batch : retries[e] <= MaxRetry
       /\ \A e \in Events : e \in todo \/ e = current => retries[e] < MaxRetry
  /\ pc = "giveup" => \A e \in todo : retries[e] <= MaxRetry

-----------------------------------------------------------------------------
LEMMA InitType == Init => TypeOK
BY OutboxAssumption, RabbitAssumption DEF Init, OutboxInit, TypeOK, OutboxTypeOK

LEMMA BoundsType ==
  /\ MaxRetry \in Nat /\ MaxClock \in Nat
  /\ MaxErrors \in Nat /\ MaxStoreErrors \in Nat /\ MaxCrashes \in Nat
BY OutboxAssumption

Statuses == {"absent", "pending", "sending", "published", "failed"}

LEMMA MarkFailedType ==
  ASSUME NEW e \in Events, outbox \in [Events -> Statuses], retries \in [Events -> Nat],
         MarkFailed(e)
  PROVE  /\ outbox' \in [Events -> Statuses]
         /\ retries' \in [Events -> Nat]
BY DEF MarkFailed, Statuses

LEMMA TypeStep ==
  ASSUME TypeOK, BatchInHand, RowBeforeAck, [Next]_vars
  PROVE  TypeOK'
<1>. USE BoundsType DEF TypeOK, OutboxTypeOK
<1>1. ASSUME NEW e \in Events, Store(e)
      PROVE  TypeOK'
  BY <1>1 DEF Store, StoreEvent, publisherVars, faultVars
<1>2. CASE Pass
  BY <1>2 DEF Pass, Tick, rowVars, publisherVars, faultVars
<1>3. CASE Claim
  BY <1>3 DEF Claim, ClaimOutbox, Claimable, faultVars
<1>4. CASE Connect \/ Close
  BY <1>4 DEF Connect, Close, Finished, rowVars, faultVars
<1>5. CASE ConnectFails \/ CloseFails
  <2>1. Error /\ GiveUp /\ UNCHANGED <<rowVars, clock, received, current, mq, bridge>>
    BY <1>5 DEF ConnectFails, CloseFails
  <2>. QED
    BY <2>1 DEF Error, GiveUp, rowVars
<1>6. ASSUME NEW e \in Events, Publish(e)
      PROVE  TypeOK'
  <2>1. todo' \in SUBSET batch' /\ mq' \in Seq(Events)
    BY <1>6 DEF Publish, Foremost
  <2>. QED
    BY <1>6, <2>1 DEF Publish, rowVars, faultVars
<1>7. ASSUME NEW e \in Events, PublishFails(e)
      PROVE  TypeOK'
  <2>1. todo' \in SUBSET batch'
    BY <1>7 DEF PublishFails
  <2>2. outbox' \in [Events -> Statuses] /\ retries' \in [Events -> Nat]
    BY <1>7, MarkFailedType DEF PublishFails, Statuses
  <2>. QED
    BY <1>7, <2>1, <2>2 DEF PublishFails, MarkFailed, Error, Statuses
<1>8. CASE Confirm
  BY <1>8 DEF Confirm, MarkSuccess, faultVars
<1>9. CASE ConfirmFails
  <2>1. outbox' \in [Events -> Statuses] /\ retries' \in [Events -> Nat]
    <3>1. current \in Events
      BY <1>9 DEF ConfirmFails, BatchInHand
    <3>. QED
      BY <1>9, <3>1, MarkFailedType DEF ConfirmFails, Statuses
  <2>2. /\ errors' \in 0..MaxErrors /\ storeErrors' \in 0..MaxStoreErrors
        /\ crashes' \in 0..MaxCrashes
    <3>1. CASE Error
      BY <3>1 DEF Error
    <3>2. CASE StoreFails
      BY <3>2 DEF StoreFails
    <3>. QED
      BY <1>9, <3>1, <3>2 DEF ConfirmFails
  <2>. QED
    BY <1>9, <2>1, <2>2 DEF ConfirmFails, MarkFailed, Statuses
<1>10. CASE ConfirmFailsTwice
  BY <1>10 DEF ConfirmFailsTwice, StoreFails, GiveUp, rowVars
<1>11. ASSUME NEW e \in Events, GiveUpNext(e)
       PROVE  TypeOK'
  <2>1. outbox' \in [Events -> Statuses] /\ retries' \in [Events -> Nat]
    BY <1>11, MarkFailedType DEF GiveUpNext, MarkGivenUp, Statuses
  <2>2. /\ todo' \in SUBSET batch' /\ batch' \in SUBSET Events
        /\ pc' \in {"idle", "giveup"}
    BY <1>11 DEF GiveUpNext, MarkGivenUp, Finished
  <2>. QED
    BY <1>11, <2>1, <2>2 DEF GiveUpNext, MarkGivenUp, MarkFailed, faultVars, Statuses
<1>12. CASE PublisherDies
  BY <1>12 DEF PublisherDies, TaskDies, StoreFails, rowVars
<1>13. CASE ServiceCrash
  BY <1>13 DEF ServiceCrash, Crash, rowVars
<1>14. CASE ServiceRestart
  BY <1>14 DEF ServiceRestart, Restart, rowVars, faultVars
<1>15. CASE Receive
  <2>1. Head(mq) \in Events
    BY <1>15 DEF Receive
  <2>2. received' \in Seq(Events)
    BY <1>15, <2>1 DEF Receive
  <2>. QED
    BY <1>15, <2>2 DEF Receive, rowVars, publisherVars, faultVars
<1>16. CASE Acknowledge
  <2>1. mq' \in Seq(Events)
    BY <1>16 DEF Acknowledge, RowBeforeAck
  <2>. QED
    BY <1>16, <2>1 DEF Acknowledge, rowVars, publisherVars, faultVars
<1>17. CASE BridgeFails \/ BridgeRestart
  BY SMTT(30), <1>17 DEF BridgeFails, BridgeRestart, Error, rowVars, publisherVars, faultVars
<1>18. CASE BridgeRejects
  BY <1>18 DEF BridgeRejects, rowVars, publisherVars, faultVars
<1>19. CASE UNCHANGED vars
  BY <1>19 DEF vars, outboxVars, rowVars, publisherVars, faultVars
<1>. QED
  BY <1>1, <1>2, <1>3, <1>4, <1>5, <1>6, <1>7, <1>8, <1>9, <1>10, <1>11, <1>12,
     <1>13, <1>14, <1>15, <1>16, <1>17, <1>18, <1>19
     DEF Next, PublisherStep, PublisherFault, BridgeStep

-----------------------------------------------------------------------------
(* What the publisher has in hand.                                         *)

LEMMA InHandStep ==
  ASSUME TypeOK, BatchInHand, [Next]_vars
  PROVE  BatchInHand'
<1>. USE DEF BatchInHand, TypeOK, OutboxTypeOK
<1>1. ASSUME NEW e \in Events, Store(e)
      PROVE  BatchInHand'
  BY <1>1 DEF Store, StoreEvent, publisherVars, faultVars
<1>2. CASE Pass
  BY <1>2 DEF Pass, Tick, publisherVars, faultVars
<1>3. CASE Claim \/ Connect \/ Close
  BY <1>3 DEF Claim, ClaimOutbox, Connect, Close, Finished, faultVars
<1>4. CASE ConnectFails \/ CloseFails
  BY <1>4 DEF ConnectFails, CloseFails, GiveUp
<1>5. ASSUME NEW e \in Events, Publish(e)
      PROVE  BatchInHand'
  BY <1>5 DEF Publish, Foremost
<1>6. ASSUME NEW e \in Events, PublishFails(e)
      PROVE  BatchInHand'
  BY <1>6 DEF PublishFails
<1>7. CASE Confirm \/ ConfirmFails
  BY <1>7 DEF Confirm, ConfirmFails
<1>8. CASE ConfirmFailsTwice
  BY <1>8 DEF ConfirmFailsTwice, GiveUp
<1>9. ASSUME NEW e \in Events, GiveUpNext(e)
      PROVE  BatchInHand'
  BY <1>9 DEF GiveUpNext, MarkGivenUp, Finished
<1>10. CASE PublisherDies
  BY <1>10 DEF PublisherDies, TaskDies
<1>11. CASE ServiceCrash
  BY <1>11 DEF ServiceCrash, Crash
<1>12. CASE ServiceRestart
  BY <1>12 DEF ServiceRestart, Restart
<1>13. CASE Receive \/ Acknowledge \/ BridgeRejects \/ BridgeRestart
  BY <1>13 DEF Receive, Acknowledge, BridgeRejects, BridgeRestart, publisherVars, faultVars
<1>14. CASE BridgeFails
  BY <1>14 DEF BridgeFails, Error, publisherVars
<1>15. CASE UNCHANGED vars
  BY <1>15 DEF vars, outboxVars, publisherVars, faultVars
<1>. QED
  BY <1>1, <1>2, <1>3, <1>4, <1>5, <1>6, <1>7, <1>8, <1>9, <1>10, <1>11, <1>12,
     <1>13, <1>14, <1>15
     DEF Next, PublisherStep, PublisherFault, BridgeStep

-----------------------------------------------------------------------------
(* What a step does to the queue and to the rows of rustfs_events.         *)

QueueStep ==
  \/ UNCHANGED <<mq, received>> /\ bridge' \in {bridge, "up", "down"}
  \/ \E e \in Events : Publish(e)
  \/ Receive
  \/ Acknowledge

LEMMA StepIsQueueStep ==
  ASSUME [Next]_vars
  PROVE  QueueStep
<1>1. ASSUME NEW e \in Events, Store(e) \/ PublishFails(e) \/ GiveUpNext(e)
      PROVE  QueueStep
  BY <1>1 DEF QueueStep, Store, StoreEvent, PublishFails, GiveUpNext, MarkGivenUp
<1>2. CASE Pass \/ Claim \/ Connect \/ Close
  BY <1>2 DEF QueueStep, Pass, Tick, Claim, ClaimOutbox, Connect, Close
<1>3. CASE Confirm \/ ConfirmFails \/ ConfirmFailsTwice \/ ConnectFails \/ CloseFails
  BY <1>3 DEF QueueStep, Confirm, ConfirmFails, ConfirmFailsTwice, ConnectFails, CloseFails
<1>4. CASE PublisherDies \/ ServiceCrash \/ ServiceRestart
  BY <1>4 DEF QueueStep, PublisherDies, TaskDies, ServiceCrash, Crash, ServiceRestart, Restart
<1>5. CASE BridgeFails \/ BridgeRejects \/ BridgeRestart
  BY <1>5 DEF QueueStep, BridgeFails, BridgeRejects, BridgeRestart
<1>6. CASE UNCHANGED vars
  BY <1>6 DEF QueueStep, vars, outboxVars
<1>. QED
  BY <1>1, <1>2, <1>3, <1>4, <1>5, <1>6
     DEF QueueStep, Next, PublisherStep, PublisherFault, BridgeStep

LEMMA AppendDomain ==
  ASSUME NEW S, NEW s \in Seq(S), NEW x \in S
  PROVE  /\ DOMAIN Append(s, x) = DOMAIN s \cup {Len(s) + 1}
         /\ \A i \in DOMAIN s : i # Len(s) + 1 /\ Append(s, x)[i] = s[i]
         /\ Append(s, x)[Len(s) + 1] = x
         /\ Append(s, x) # <<>>
         /\ s # <<>> => Head(Append(s, x)) = Head(s)
<1>1. Len(s) \in Nat /\ DOMAIN s = 1..Len(s)
  OBVIOUS
<1>2. Len(Append(s, x)) = Len(s) + 1 /\ DOMAIN Append(s, x) = 1..(Len(s) + 1)
  OBVIOUS
<1>3. \A i \in 1..Len(s) : Append(s, x)[i] = s[i]
  OBVIOUS
<1>4. Append(s, x)[Len(s) + 1] = x
  OBVIOUS
<1>5. 1..(Len(s) + 1) = (1..Len(s)) \cup {Len(s) + 1}
  BY <1>1
<1>6. s # <<>> => Head(Append(s, x)) = Head(s)
  OBVIOUS
<1>. QED
  BY <1>1, <1>2, <1>3, <1>4, <1>5, <1>6

(* A row of rustfs_events stays, and a message stays until its event has   *)
(* one: what is delivered stays delivered.                                 *)
LEMMA ReceivedStays ==
  ASSUME TypeOK, QueueStep, NEW e, Received(e)
  PROVE  Received(e)'
<1>. USE DEF TypeOK, OutboxTypeOK, Received
<1>1. CASE Receive
  <2>1. Head(mq) \in Events
    BY <1>1 DEF Receive
  <2>2. PICK i \in DOMAIN received : received[i] = e
    OBVIOUS
  <2>3. i \in DOMAIN received' /\ received'[i] = e
    <3>1. CASE received' = received
      BY <2>2, <3>1
    <3>2. CASE received' = Append(received, Head(mq))
      BY SMTT(30), <2>1, <2>2, <3>2, AppendDomain
    <3>. QED
      BY <1>1, <3>1, <3>2 DEF Receive
  <2>. QED
    BY <2>3
<1>2. CASE received' = received
  BY <1>2
<1>. QED
  BY <1>1, <1>2 DEF QueueStep, Publish, Acknowledge

LEMMA DeliveredStays ==
  ASSUME TypeOK, RowBeforeAck, QueueStep, NEW e, Delivered(e)
  PROVE  Delivered(e)'
<1>1. CASE Received(e)
  BY <1>1, ReceivedStays DEF Delivered
<1>2. ASSUME Queued(e), mq' = mq
      PROVE  Delivered(e)'
  BY <1>2 DEF Delivered, Queued
<1>3. ASSUME Queued(e), NEW f \in Events, Publish(f)
      PROVE  Delivered(e)'
  BY <1>3 DEF Delivered, Queued, Publish, TypeOK
<1>4. ASSUME Queued(e), Acknowledge
      PROVE  Delivered(e)'
  <2>1. PICK i \in DOMAIN mq : mq[i] = e
    BY <1>4 DEF Queued
  <2>2. CASE i = 1
    BY <1>4, <2>1, <2>2, ReceivedStays DEF Acknowledge, RowBeforeAck, Delivered, TypeOK
  <2>3. CASE i # 1
    <3>1. i - 1 \in DOMAIN Tail(mq) /\ Tail(mq)[i - 1] = e
      BY <2>1, <2>3 DEF TypeOK
    <3>. QED
      BY <1>4, <3>1 DEF Acknowledge, Delivered, Queued
  <2>. QED
    BY <2>2, <2>3
<1>. QED
  BY <1>1, <1>2, <1>3, <1>4 DEF Delivered, QueueStep, Receive

LEMMA BridgeSteps ==
  ASSUME TypeOK, RowBeforeAck, QueueStep
  PROVE  RowBeforeAck'
<1>. USE DEF TypeOK, OutboxTypeOK, RowBeforeAck
<1>1. CASE UNCHANGED <<mq, received>> /\ bridge' \in {bridge, "up", "down"}
  BY <1>1 DEF Received
<1>2. ASSUME NEW e \in Events, Publish(e)
      PROVE  RowBeforeAck'
  <2>1. received' = received /\ bridge' = bridge /\ mq' = Append(mq, e)
    BY <1>2 DEF Publish
  <2>2. mq # <<>> => mq' # <<>> /\ Head(mq') = Head(mq)
    BY SMTT(30), <2>1, AppendDomain
  <2>. QED
    BY <2>1, <2>2 DEF Received
<1>3. CASE Receive
  <2>1. CASE Received(Head(mq))
    BY <1>3, <2>1 DEF Receive, Received
  <2>2. CASE ~Received(Head(mq))
    <3>1. Head(mq) \in Events
      BY <1>3 DEF Receive
    <3>2. /\ Len(received) + 1 \in DOMAIN received'
          /\ received'[Len(received) + 1] = Head(mq)
      BY <1>3, <2>2, <3>1, AppendDomain DEF Receive
    <3>. QED
      BY <1>3, <3>2 DEF Receive, Received
  <2>. QED
    BY <2>1, <2>2
<1>4. CASE Acknowledge
  BY <1>4 DEF Acknowledge
<1>. QED
  BY <1>1, <1>2, <1>3, <1>4 DEF QueueStep

LEMMA ReceivedOnceStep ==
  ASSUME TypeOK, ReceivedOnce, QueueStep
  PROVE  ReceivedOnce'
<1>1. CASE received' = received
  BY <1>1 DEF ReceivedOnce
<1>2. CASE Receive /\ ~Received(Head(mq))
  <2>1. Head(mq) \in Events /\ received \in Seq(Events)
    BY <1>2 DEF Receive, TypeOK, OutboxTypeOK
  <2>2. received' = Append(received, Head(mq))
    BY <1>2 DEF Receive
  <2>3. /\ DOMAIN received' = DOMAIN received \cup {Len(received) + 1}
        /\ \A i \in DOMAIN received : i # Len(received) + 1 /\ received'[i] = received[i]
        /\ received'[Len(received) + 1] = Head(mq)
    BY <2>1, <2>2, AppendDomain
  <2>4. \A i \in DOMAIN received : received[i] # Head(mq)
    BY <1>2 DEF Received
  <2>5. SUFFICES ASSUME NEW i \in DOMAIN received', NEW j \in DOMAIN received',
                        received'[i] = received'[j]
                 PROVE  i = j
    BY DEF ReceivedOnce
  <2>6. CASE i \in DOMAIN received /\ j \in DOMAIN received
    BY <2>3, <2>5, <2>6 DEF ReceivedOnce
  <2>7. CASE i = Len(received) + 1 \/ j = Len(received) + 1
    BY <2>3, <2>4, <2>5, <2>7
  <2>. QED
    BY <2>3, <2>6, <2>7
<1>. QED
  BY <1>1, <1>2 DEF QueueStep, Receive, Publish, Acknowledge

-----------------------------------------------------------------------------
(* What is published or waits for its confirmation is delivered.           *)

LEMMA NewlySent ==
  ASSUME BatchInHand, [Next]_vars, pc' = "confirm"
  PROVE  \/ \E e \in Events : Publish(e)
         \/ pc = "confirm" /\ current' = current
<1>1. ASSUME NEW e \in Events, Store(e)
      PROVE  pc' = pc /\ current' = current
  BY <1>1 DEF Store, StoreEvent, publisherVars
<1>2. ASSUME NEW e \in Events, PublishFails(e) \/ GiveUpNext(e)
      PROVE  FALSE
  BY <1>2 DEF PublishFails, GiveUpNext, MarkGivenUp, Finished
<1>3. CASE Pass
  BY <1>3 DEF Pass, Tick, publisherVars
<1>4. CASE Claim \/ Connect \/ Close \/ ConnectFails \/ CloseFails
  BY <1>4 DEF Claim, ClaimOutbox, Connect, Close, Finished, ConnectFails, CloseFails, GiveUp
<1>5. CASE Confirm \/ ConfirmFails \/ ConfirmFailsTwice
  BY <1>5 DEF Confirm, ConfirmFails, ConfirmFailsTwice, GiveUp
<1>6. CASE PublisherDies \/ ServiceCrash \/ ServiceRestart
  BY <1>6 DEF PublisherDies, TaskDies, ServiceCrash, Crash, ServiceRestart, Restart
<1>7. CASE Receive \/ Acknowledge \/ BridgeFails \/ BridgeRejects \/ BridgeRestart
  BY <1>7 DEF Receive, Acknowledge, BridgeFails, BridgeRejects, BridgeRestart, publisherVars
<1>8. CASE UNCHANGED vars
  BY <1>8 DEF vars, outboxVars, publisherVars
<1>. QED
  BY <1>1, <1>2, <1>3, <1>4, <1>5, <1>6, <1>7, <1>8
     DEF Next, PublisherStep, PublisherFault, BridgeStep

LEMMA SentStep ==
  ASSUME TypeOK, BatchInHand, RowBeforeAck, SentIsDelivered, [Next]_vars
  PROVE  SentIsDelivered'
<1>. SUFFICES ASSUME pc' = "confirm"
              PROVE  Delivered(current)'
  BY DEF SentIsDelivered
<1>1. ASSUME NEW e \in Events, Publish(e)
      PROVE  Delivered(current)'
  <2>1. mq' = Append(mq, e) /\ current' = e
    BY <1>1 DEF Publish
  <2>2. Len(mq) + 1 \in DOMAIN mq' /\ mq'[Len(mq) + 1] = e
    BY <2>1, AppendDomain DEF TypeOK
  <2>. QED
    BY <2>1, <2>2 DEF Delivered, Queued
<1>2. CASE pc = "confirm" /\ current' = current
  <2>1. Delivered(current)
    BY <1>2 DEF SentIsDelivered
  <2>2. QueueStep
    BY StepIsQueueStep
  <2>. QED
    BY <1>2, <2>1, <2>2, DeliveredStays DEF Delivered, Queued, Received
<1>. QED
  BY <1>1, <1>2, NewlySent

LEMMA NewlyPublished ==
  ASSUME TypeOK, [Next]_vars, NEW e \in Events, outbox'[e] = "published"
  PROVE  \/ outbox[e] = "published"
         \/ pc = "confirm" /\ e = current
<1>. USE DEF TypeOK, OutboxTypeOK
<1>1. ASSUME NEW f \in Events, Store(f)
      PROVE  outbox[e] = "published"
  BY <1>1 DEF Store, StoreEvent
<1>2. ASSUME NEW f \in Events, PublishFails(f) \/ GiveUpNext(f)
      PROVE  outbox[e] = "published"
  BY <1>2 DEF PublishFails, GiveUpNext, MarkGivenUp, MarkFailed
<1>3. CASE Claim
  BY <1>3 DEF Claim, ClaimOutbox
<1>4. CASE Confirm
  BY <1>4 DEF Confirm, MarkSuccess
<1>5. CASE ConfirmFails
  BY <1>5 DEF ConfirmFails, MarkFailed
<1>6. CASE Pass \/ Connect \/ Close \/ ConnectFails \/ CloseFails \/ ConfirmFailsTwice
  BY <1>6 DEF Pass, Tick, Connect, Close, ConnectFails, CloseFails, ConfirmFailsTwice, rowVars
<1>7. ASSUME \E f \in Events : Publish(f)
      PROVE  outbox[e] = "published"
  BY <1>7 DEF Publish, rowVars
<1>8. CASE PublisherDies \/ ServiceCrash \/ ServiceRestart
  BY <1>8 DEF PublisherDies, TaskDies, ServiceCrash, Crash, ServiceRestart, Restart, rowVars
<1>9. CASE Receive \/ Acknowledge \/ BridgeFails \/ BridgeRejects \/ BridgeRestart
  BY <1>9 DEF Receive, Acknowledge, BridgeFails, BridgeRejects, BridgeRestart, rowVars
<1>10. CASE UNCHANGED vars
  BY <1>10 DEF vars, outboxVars, rowVars
<1>. QED
  BY <1>1, <1>2, <1>3, <1>4, <1>5, <1>6, <1>7, <1>8, <1>9, <1>10
     DEF Next, PublisherStep, PublisherFault, BridgeStep

LEMMA PublishedStep ==
  ASSUME TypeOK, RowBeforeAck, SentIsDelivered, PublishedIsDelivered, [Next]_vars
  PROVE  PublishedIsDelivered'
<1>. SUFFICES ASSUME NEW e \in Events, outbox'[e] = "published"
              PROVE  Delivered(e)'
  BY DEF PublishedIsDelivered, Delivered, Queued, Received
<1>1. Delivered(e)
  BY NewlyPublished DEF PublishedIsDelivered, SentIsDelivered, Delivered
<1>. QED
  BY <1>1, StepIsQueueStep, DeliveredStays

-----------------------------------------------------------------------------
(* A row that says 'sending' is in the hands of the publisher.             *)

LEMMA SendingStep ==
  ASSUME TypeOK, BatchInHand, SendingIsInHand, [Next]_vars
  PROVE  SendingIsInHand'
<1>. USE BoundsType DEF SendingIsInHand, TypeOK, OutboxTypeOK, BatchInHand
<1>1. ASSUME NEW e \in Events, Store(e)
      PROVE  SendingIsInHand'
  BY <1>1 DEF Store, StoreEvent, publisherVars, faultVars
<1>2. CASE Pass
  BY <1>2 DEF Pass, Tick, rowVars, publisherVars, faultVars
<1>3. CASE Claim
  BY <1>3 DEF Claim, ClaimOutbox, faultVars
<1>4. CASE Connect \/ Close
  BY <1>4 DEF Connect, Close, Finished, rowVars, faultVars
<1>5. CASE ConnectFails \/ CloseFails
  BY <1>5 DEF ConnectFails, CloseFails, Error, GiveUp, rowVars
<1>6. ASSUME NEW e \in Events, Publish(e)
      PROVE  SendingIsInHand'
  <2>1. /\ pc = "publish" /\ crashes' = crashes /\ outbox' = outbox
        /\ todo' = todo \ {e} /\ current' = e
    BY <1>6 DEF Publish, rowVars, faultVars
  <2>. QED
    BY <2>1, OutboxAssumption
<1>7. ASSUME NEW e \in Events, PublishFails(e)
      PROVE  SendingIsInHand'
  BY <1>7 DEF PublishFails, MarkFailed, Error
<1>8. CASE Confirm
  BY <1>8 DEF Confirm, MarkSuccess, faultVars
<1>9. CASE ConfirmFails
  <2>1. crashes' = crashes
    BY <1>9 DEF ConfirmFails, Error, StoreFails
  <2>. QED
    BY <1>9, <2>1 DEF ConfirmFails, MarkFailed
<1>10. CASE ConfirmFailsTwice
  BY <1>10 DEF ConfirmFailsTwice, StoreFails, GiveUp, rowVars
<1>11. ASSUME NEW e \in Events, GiveUpNext(e)
       PROVE  SendingIsInHand'
  BY <1>11 DEF GiveUpNext, MarkGivenUp, MarkFailed, Foremost, Finished, faultVars
<1>12. CASE PublisherDies
  BY <1>12 DEF PublisherDies, TaskDies
<1>13. CASE ServiceCrash
  BY <1>13 DEF ServiceCrash, Crash
<1>14. CASE ServiceRestart
  BY <1>14 DEF ServiceRestart, Restart, faultVars
<1>15. CASE Receive \/ Acknowledge \/ BridgeRejects \/ BridgeRestart
  BY <1>15 DEF Receive, Acknowledge, BridgeRejects, BridgeRestart, rowVars, publisherVars, faultVars
<1>16. CASE BridgeFails
  BY <1>16 DEF BridgeFails, Error, rowVars, publisherVars
<1>17. CASE UNCHANGED vars
  BY <1>17 DEF vars, outboxVars, rowVars, publisherVars, faultVars
<1>. QED
  BY <1>1, <1>2, <1>3, <1>4, <1>5, <1>6, <1>7, <1>8, <1>9, <1>10, <1>11, <1>12,
     <1>13, <1>14, <1>15, <1>16, <1>17
     DEF Next, PublisherStep, PublisherFault, BridgeStep

-----------------------------------------------------------------------------
(* The retries of an event.                                                *)

LEMMA RetriesStep ==
  ASSUME TypeOK, BatchInHand, RetriesInBatch, RetriesBounded, [Next]_vars
  PROVE  RetriesInBatch' /\ RetriesBounded'
<1>. USE BoundsType DEF RetriesInBatch, RetriesBounded
<1>0. retries \in [Events -> Nat] /\ todo \subseteq batch /\ batch \subseteq Events
  BY DEF TypeOK, OutboxTypeOK
<1>1. CASE UNCHANGED <<retries, pc, batch, todo, current>>
  BY <1>1
<1>2. ASSUME NEW e \in Events, Store(e)
      PROVE  RetriesInBatch' /\ RetriesBounded'
  BY <1>1, <1>2 DEF Store, StoreEvent, publisherVars
<1>3. CASE Pass
  BY <1>1, <1>3 DEF Pass, Tick, rowVars, publisherVars
<1>4. CASE Claim
  <2>1. \A e \in batch' : retries[e] < MaxRetry
    BY <1>4 DEF Claim, ClaimOutbox, Claimable
  <2>2. todo' = batch' /\ retries' = retries /\ current' = None /\ None \notin Events
    BY <1>4, OutboxAssumption DEF Claim, ClaimOutbox, BatchInHand
  <2>3. batch' \subseteq Events /\ pc' = "connect"
    BY <1>4 DEF Claim, ClaimOutbox, Claimable
  <2>. QED
    BY <1>0, <2>1, <2>2, <2>3
<1>5. CASE Connect \/ Close
  BY <1>0, <1>5 DEF Connect, Close, Finished, rowVars
<1>6. CASE ConnectFails \/ CloseFails \/ ConfirmFailsTwice
  BY <1>0, <1>6 DEF ConnectFails, CloseFails, ConfirmFailsTwice, GiveUp, rowVars
<1>7. ASSUME NEW e \in Events, Publish(e)
      PROVE  RetriesInBatch' /\ RetriesBounded'
  BY <1>0, <1>7 DEF Publish, Foremost, rowVars
<1>8. ASSUME NEW e \in Events, PublishFails(e)
      PROVE  RetriesInBatch' /\ RetriesBounded'
  <2>1. /\ pc = "publish" /\ pc' = pc /\ batch' = batch
        /\ current' = current /\ current = None
        /\ e \in todo /\ todo' = todo \ {e}
        /\ retries' = [retries EXCEPT ![e] = @ + 1]
    BY <1>8 DEF PublishFails, MarkFailed, Foremost, BatchInHand
  <2>2. retries[e] < MaxRetry /\ None \notin Events
    BY <1>0, <2>1, OutboxAssumption
  <2>. QED
    BY <1>0, <2>1, <2>2
<1>9. CASE Confirm
  BY <1>0, <1>9, OutboxAssumption DEF Confirm, MarkSuccess
<1>10. CASE ConfirmFails
  BY <1>0, <1>10, OutboxAssumption DEF ConfirmFails, MarkFailed, BatchInHand
<1>11. ASSUME NEW e \in Events, GiveUpNext(e)
       PROVE  RetriesInBatch' /\ RetriesBounded'
  BY <1>0, <1>11 DEF GiveUpNext, MarkGivenUp, MarkFailed, Foremost, Finished
<1>12. CASE PublisherDies \/ ServiceCrash \/ ServiceRestart
  BY <1>0, <1>12
     DEF PublisherDies, TaskDies, ServiceCrash, Crash, ServiceRestart, Restart, rowVars
<1>13. CASE Receive \/ Acknowledge \/ BridgeFails \/ BridgeRejects \/ BridgeRestart
  BY <1>1, <1>13 DEF Receive, Acknowledge, BridgeFails, BridgeRejects, BridgeRestart,
                     rowVars, publisherVars
<1>14. CASE UNCHANGED vars
  BY <1>1, <1>14 DEF vars, outboxVars, rowVars, publisherVars
<1>. QED
  BY <1>2, <1>3, <1>4, <1>5, <1>6, <1>7, <1>8, <1>9, <1>10, <1>11, <1>12, <1>13, <1>14
     DEF Next, PublisherStep, PublisherFault, BridgeStep

-----------------------------------------------------------------------------
(* The order of the rows of rustfs_events.  The publisher claims the       *)
(* oldest rows first and goes through them in order, and the queue is a    *)
(* queue; what spoils the order is an event that is marked failed.         *)

InOrder(e, f) == stamp[e] <= stamp[f] \/ retries[f] > 0

AtWork == pc \in {"connect", "publish", "confirm"}

Unsettled(e) == outbox[e] \in {"pending", "failed"}

NothingAhead == \A e \in Events : stamp[e] <= clock

UnstoredIsNowhere ==
  \A e \in Events : outbox[e] = "absent" => e \notin batch /\ ~Delivered(e)

(* What can still be claimed follows all that has been; what is claimed    *)
(* follows all that has been sent.                                         *)
UnsettledFollows ==
  \A e, f \in Events : (Delivered(e) \/ e \in batch) /\ Unsettled(f) => InOrder(e, f)

ClaimedFollows ==
  AtWork => \A e \in Events, f \in todo : Delivered(e) => InOrder(e, f)

QueueInOrder == \A i, j \in DOMAIN mq : i < j => InOrder(mq[i], mq[j])

QueuedFollows ==
  \A e, f \in Events : Received(e) /\ Queued(f) /\ ~Received(f) => InOrder(e, f)

OrderInv ==
  /\ NothingAhead /\ UnstoredIsNowhere
  /\ UnsettledFollows /\ ClaimedFollows
  /\ QueueInOrder /\ QueuedFollows
  /\ OvertakesOnlyAfterRetry

(* Steps that neither store, claim, send nor receive: rows only grow older *)
(* in failures, and what is in hand gets less.                             *)
RowsAge ==
  /\ stamp' = stamp /\ clock' >= clock
  /\ \A e \in Events :
       /\ retries'[e] >= retries[e]
       /\ outbox'[e] = "absent" => outbox[e] = "absent"
       /\ Unsettled(e)' => Unsettled(e) \/ retries'[e] > 0

Settles ==
  /\ RowsAge
  /\ UNCHANGED <<mq, received>>
  /\ batch' \subseteq batch
  /\ AtWork' => AtWork /\ todo' \subseteq todo

OrderStep ==
  \/ Settles
  \/ \E e \in Events : Store(e) \/ Publish(e)
  \/ Claim \/ Receive \/ Acknowledge

LEMMA RowsUnchanged ==
  ASSUME TypeOK, UNCHANGED <<outbox, retries, stamp>>, clock' >= clock
  PROVE  RowsAge
<1>1. \A e \in Events : retries[e] \in Nat
  BY DEF TypeOK, OutboxTypeOK
<1>. QED
  BY <1>1 DEF RowsAge, Unsettled

LEMMA FailureAges ==
  ASSUME TypeOK, NEW e \in Events, MarkFailed(e), clock' = clock
  PROVE  RowsAge
<1>1. /\ outbox \in [Events -> Statuses] /\ retries \in [Events -> Nat]
      /\ clock \in Nat
  BY BoundsType DEF TypeOK, OutboxTypeOK, Statuses
<1>2. /\ stamp' = stamp
      /\ outbox' = [outbox EXCEPT ![e] = "failed"]
      /\ retries' = [retries EXCEPT ![e] = @ + 1]
  BY DEF MarkFailed
<1>3. ASSUME NEW f \in Events
      PROVE  /\ retries'[f] >= retries[f]
             /\ outbox'[f] = "absent" => outbox[f] = "absent"
             /\ Unsettled(f)' => Unsettled(f) \/ retries'[f] > 0
  BY <1>1, <1>2 DEF Unsettled
<1>. QED
  BY <1>1, <1>2, <1>3 DEF RowsAge

LEMMA SuccessAges ==
  ASSUME TypeOK, NEW e \in Events, MarkSuccess(e), clock' = clock
  PROVE  RowsAge
<1>1. /\ outbox \in [Events -> Statuses] /\ retries \in [Events -> Nat]
      /\ clock \in Nat
  BY BoundsType DEF TypeOK, OutboxTypeOK, Statuses
<1>. QED
  BY <1>1 DEF RowsAge, MarkSuccess, Unsettled

LEMMA StepIsOrderStep ==
  ASSUME TypeOK, BatchInHand, [Next]_vars
  PROVE  OrderStep
<1>0. /\ clock \in Nat /\ clock >= clock /\ clock + 1 >= clock
      /\ todo \subseteq batch
  BY BoundsType DEF TypeOK, OutboxTypeOK
<1>1. CASE Pass
  <2>1. UNCHANGED <<outbox, retries, stamp>> /\ clock' = clock + 1
    BY <1>1 DEF Pass, Tick, rowVars
  <2>2. RowsAge
    BY <1>0, <2>1, RowsUnchanged
  <2>3. Settles
    BY <1>1, <2>2 DEF Settles, AtWork, Pass, Tick, publisherVars
  <2>. QED
    BY <2>3 DEF OrderStep
<1>2. CASE \/ Connect \/ Close \/ ConnectFails \/ CloseFails \/ ConfirmFailsTwice
           \/ PublisherDies \/ ServiceCrash \/ ServiceRestart
           \/ BridgeFails \/ BridgeRejects \/ BridgeRestart \/ UNCHANGED vars
  <2>1. UNCHANGED <<outbox, retries, stamp, clock>>
    BY <1>2 DEF Connect, Close, ConnectFails, CloseFails, ConfirmFailsTwice,
                PublisherDies, TaskDies, ServiceCrash, Crash, ServiceRestart, Restart,
                BridgeFails, BridgeRejects, BridgeRestart, vars, outboxVars, rowVars
  <2>2. RowsAge
    BY <1>0, <2>1, RowsUnchanged
  <2>3. CASE Connect \/ Close
    BY <1>0, <2>2, <2>3 DEF OrderStep, Settles, AtWork, Connect, Close, Finished
  <2>4. CASE ConnectFails \/ CloseFails \/ ConfirmFailsTwice
    BY <1>0, <2>2, <2>4 DEF OrderStep, Settles, AtWork, ConnectFails, CloseFails, ConfirmFailsTwice, GiveUp
  <2>5. CASE PublisherDies \/ ServiceCrash \/ ServiceRestart
    BY <2>2, <2>5
       DEF OrderStep, Settles, AtWork, PublisherDies, TaskDies, ServiceCrash, Crash, ServiceRestart, Restart
  <2>6. CASE BridgeFails \/ BridgeRejects \/ BridgeRestart \/ UNCHANGED vars
    BY <2>2, <2>6 DEF OrderStep, Settles, AtWork, BridgeFails, BridgeRejects, BridgeRestart,
                      vars, outboxVars, publisherVars
  <2>. QED
    BY <1>2, <2>3, <2>4, <2>5, <2>6
<1>3. ASSUME NEW e \in Events, PublishFails(e)
      PROVE  OrderStep
  <2>1. RowsAge
    BY <1>3, FailureAges DEF PublishFails
  <2>. QED
    BY <1>3, <2>1 DEF OrderStep, Settles, AtWork, PublishFails
<1>4. ASSUME NEW e \in Events, GiveUpNext(e)
      PROVE  OrderStep
  <2>1. RowsAge
    BY <1>4, FailureAges DEF GiveUpNext, MarkGivenUp
  <2>. QED
    BY <1>4, <2>1 DEF OrderStep, Settles, AtWork, GiveUpNext, MarkGivenUp, Finished
<1>5. CASE Confirm \/ ConfirmFails
  <2>1. current \in Events
    BY <1>5 DEF Confirm, ConfirmFails, BatchInHand, TypeOK, OutboxTypeOK
  <2>2. MarkSuccess(current) \/ MarkFailed(current)
    BY <1>5 DEF Confirm, ConfirmFails
  <2>3. clock' = clock
    BY <1>5 DEF Confirm, ConfirmFails
  <2>4. RowsAge
    BY <2>1, <2>2, <2>3, SuccessAges, FailureAges
  <2>. QED
    BY <1>5, <2>4 DEF OrderStep, Settles, AtWork, Confirm, ConfirmFails
<1>. QED
  BY <1>1, <1>2, <1>3, <1>4, <1>5
     DEF OrderStep, Next, PublisherStep, PublisherFault, BridgeStep

(* An event's failures are not forgotten, nor its second changed.          *)
LEMMA AgedInOrder ==
  ASSUME TypeOK, TypeOK', RowsAge, NEW e \in Events, NEW f \in Events, InOrder(e, f)
  PROVE  InOrder(e, f)'
<1>1. /\ retries[f] \in Nat /\ retries'[f] \in Nat
      /\ retries'[f] >= retries[f] /\ stamp' = stamp
  BY DEF TypeOK, OutboxTypeOK, RowsAge
<1>2. CASE stamp[e] <= stamp[f]
  BY <1>1, <1>2 DEF InOrder
<1>3. CASE retries[f] > 0
  <2>1. retries'[f] > 0
    BY <1>1, <1>3
  <2>. QED
    BY <2>1 DEF InOrder
<1>. QED
  BY <1>2, <1>3 DEF InOrder

LEMMA InOrderKept ==
  ASSUME NEW e \in Events, NEW f \in Events, UNCHANGED <<stamp, retries>>
  PROVE  InOrder(e, f)' <=> InOrder(e, f)
BY DEF InOrder

LEMMA SettlesKeepsOrder ==
  ASSUME TypeOK, TypeOK', OrderInv, Settles
  PROVE  OrderInv'
<1>. USE DEF TypeOK, OutboxTypeOK
<1>1. /\ RowsAge /\ mq' = mq /\ received' = received
      /\ batch' \subseteq batch
      /\ AtWork' => AtWork /\ todo' \subseteq todo
  BY DEF Settles
<1>2. \A e \in Events : Delivered(e)' <=> Delivered(e)
  BY <1>1 DEF Delivered, Queued, Received
<1>3. NothingAhead'
  <2>1. ASSUME NEW e \in Events
        PROVE  stamp'[e] <= clock'
    <3>1. /\ stamp[e] \in Nat /\ clock \in Nat /\ clock' \in Nat
          /\ stamp[e] <= clock /\ stamp' = stamp /\ clock' >= clock
      BY <1>1, BoundsType DEF OrderInv, NothingAhead, RowsAge
    <3>. QED
      BY <3>1
  <2>. QED
    BY <2>1 DEF NothingAhead
<1>4. UnstoredIsNowhere'
  BY <1>1, <1>2 DEF OrderInv, UnstoredIsNowhere, RowsAge
<1>5. UnsettledFollows'
  <2>1. SUFFICES ASSUME NEW e \in Events, NEW f \in Events,
                        Delivered(e)' \/ e \in batch', Unsettled(f)'
                 PROVE  InOrder(e, f)'
    BY DEF UnsettledFollows
  <2>2. CASE Unsettled(f)
    <3>1. InOrder(e, f)
      BY <1>1, <1>2, <2>1, <2>2 DEF OrderInv, UnsettledFollows
    <3>. QED
      BY <1>1, <3>1, AgedInOrder
  <2>3. CASE retries'[f] > 0
    BY <2>3 DEF InOrder
  <2>. QED
    BY <1>1, <2>1, <2>2, <2>3 DEF RowsAge
<1>6. ClaimedFollows'
  <2>1. SUFFICES ASSUME AtWork', NEW e \in Events, NEW f \in todo', Delivered(e)'
                 PROVE  InOrder(e, f)'
    BY DEF ClaimedFollows
  <2>2. f \in Events /\ InOrder(e, f)
    BY <1>1, <1>2, <2>1 DEF OrderInv, ClaimedFollows
  <2>. QED
    BY <1>1, <2>2, AgedInOrder
<1>7. QueueInOrder'
  <2>1. SUFFICES ASSUME NEW i \in DOMAIN mq, NEW j \in DOMAIN mq, i < j
                 PROVE  InOrder(mq[i], mq[j])'
    BY <1>1 DEF QueueInOrder
  <2>2. mq[i] \in Events /\ mq[j] \in Events /\ InOrder(mq[i], mq[j])
    BY <2>1 DEF OrderInv, QueueInOrder
  <2>3. PICK e \in Events, f \in Events : e = mq[i] /\ f = mq[j]
    BY <2>2
  <2>4. InOrder(e, f)'
    BY <1>1, <2>2, <2>3, AgedInOrder
  <2>. QED
    BY <1>1, <2>3, <2>4 DEF InOrder
<1>8. QueuedFollows'
  <2>1. SUFFICES ASSUME NEW e \in Events, NEW f \in Events,
                        Received(e)', Queued(f)', ~Received(f)'
                 PROVE  InOrder(e, f)'
    BY DEF QueuedFollows
  <2>2. InOrder(e, f)
    BY <1>1, <2>1 DEF OrderInv, QueuedFollows, Received, Queued
  <2>. QED
    BY <1>1, <2>2, AgedInOrder
<1>9. OvertakesOnlyAfterRetry'
  <2>1. SUFFICES ASSUME NEW i \in DOMAIN received, NEW j \in DOMAIN received,
                        i < j, stamp[received[j]] < stamp[received[i]]
                 PROVE  retries'[received[j]] > 0
    BY <1>1 DEF OvertakesOnlyAfterRetry, RowsAge
  <2>2. retries[received[j]] > 0 /\ received[j] \in Events
    BY <2>1 DEF OrderInv, OvertakesOnlyAfterRetry
  <2>3. PICK f \in Events : f = received[j]
    BY <2>2
  <2>4. retries[f] \in Nat /\ retries'[f] \in Nat /\ retries'[f] >= retries[f]
    BY <1>1 DEF RowsAge
  <2>. QED
    BY <2>2, <2>3, <2>4
<1>. QED
  BY <1>3, <1>4, <1>5, <1>6, <1>7, <1>8, <1>9 DEF OrderInv

(* A stored event is the youngest there is, and in nobody's hands.         *)
LEMMA StoreKeepsOrder ==
  ASSUME TypeOK, OrderInv, NEW s \in Events, Store(s)
  PROVE  OrderInv'
<1>. USE DEF TypeOK, OutboxTypeOK
<1>1. /\ outbox[s] = "absent"
      /\ outbox' = [outbox EXCEPT ![s] = "pending"]
      /\ stamp' = [stamp EXCEPT ![s] = clock]
      /\ UNCHANGED <<retries, pc, batch, todo, clock, received, mq>>
  BY DEF Store, StoreEvent, publisherVars
<1>2. /\ \A e \in Events : Delivered(e)' <=> Delivered(e)
      /\ s \notin batch /\ ~Queued(s) /\ ~Received(s) /\ ~Delivered(s)
  BY <1>1 DEF OrderInv, UnstoredIsNowhere, Delivered, Queued, Received
<1>3. clock \in Nat /\ \A e \in Events : stamp[e] \in Nat /\ stamp[e] <= clock
  BY BoundsType DEF OrderInv, NothingAhead
<1>4. NothingAhead'
  BY <1>1, <1>3 DEF NothingAhead
<1>5. UnstoredIsNowhere'
  BY <1>1, <1>2 DEF OrderInv, UnstoredIsNowhere
<1>6. ASSUME NEW e \in Events, NEW f \in Events, e # s, f = s \/ InOrder(e, f)
      PROVE  InOrder(e, f)'
  <2>1. stamp'[e] = stamp[e] /\ stamp'[s] = clock
    BY <1>1, <1>6
  <2>2. CASE f = s
    BY <1>3, <2>1, <2>2 DEF InOrder
  <2>3. CASE f # s
    BY <1>1, <1>6, <2>1, <2>3 DEF InOrder
  <2>. QED
    BY <2>2, <2>3
<1>7. UnsettledFollows'
  <2>1. SUFFICES ASSUME NEW e \in Events, NEW f \in Events,
                        Delivered(e)' \/ e \in batch', Unsettled(f)'
                 PROVE  InOrder(e, f)'
    BY DEF UnsettledFollows
  <2>2. e # s /\ (Delivered(e) \/ e \in batch)
    BY <1>1, <1>2, <2>1
  <2>3. f = s \/ InOrder(e, f)
    BY <1>1, <2>1, <2>2 DEF OrderInv, UnsettledFollows, Unsettled
  <2>. QED
    BY <1>6, <2>2, <2>3
<1>8. ClaimedFollows'
  <2>1. SUFFICES ASSUME AtWork', NEW e \in Events, NEW f \in todo', Delivered(e)'
                 PROVE  InOrder(e, f)'
    BY DEF ClaimedFollows
  <2>2. e # s /\ f \in Events /\ InOrder(e, f)
    BY <1>1, <1>2, <2>1 DEF OrderInv, ClaimedFollows, AtWork
  <2>. QED
    BY <1>6, <2>2
<1>9. \A i \in DOMAIN mq : mq[i] # s
  BY <1>2 DEF Queued
<1>10. \A i \in DOMAIN received : received[i] # s
  BY <1>2 DEF Received
<1>11. QueueInOrder'
  <2>1. SUFFICES ASSUME NEW i \in DOMAIN mq, NEW j \in DOMAIN mq, i < j
                 PROVE  InOrder(mq[i], mq[j])'
    BY <1>1 DEF QueueInOrder
  <2>2. PICK e \in Events, f \in Events : e = mq[i] /\ f = mq[j]
    OBVIOUS
  <2>3. InOrder(e, f) /\ e # s
    BY <1>9, <2>1, <2>2 DEF OrderInv, QueueInOrder
  <2>4. InOrder(e, f)'
    BY <1>6, <2>3
  <2>. QED
    BY <1>1, <2>2, <2>4 DEF InOrder
<1>12. QueuedFollows'
  <2>1. SUFFICES ASSUME NEW e \in Events, NEW f \in Events,
                        Received(e)', Queued(f)', ~Received(f)'
                 PROVE  InOrder(e, f)'
    BY DEF QueuedFollows
  <2>2. InOrder(e, f) /\ e # s
    BY <1>1, <1>2, <2>1 DEF OrderInv, QueuedFollows, Received, Queued
  <2>. QED
    BY <1>6, <2>2
<1>13. OvertakesOnlyAfterRetry'
  BY <1>1, <1>10 DEF OrderInv, OvertakesOnlyAfterRetry
<1>. QED
  BY <1>4, <1>5, <1>7, <1>8, <1>11, <1>12, <1>13 DEF OrderInv

(* The claim takes the oldest of what can be claimed.                      *)
LEMMA ClaimKeepsOrder ==
  ASSUME TypeOK, BatchInHand, OrderInv, Claim
  PROVE  OrderInv'
<1>. USE DEF TypeOK, OutboxTypeOK
<1>1. PICK B \in SUBSET Claimable :
        /\ B # {} /\ OldestClaimable(B)
        /\ outbox' = [e \in Events |-> IF e \in B THEN "sending" ELSE outbox[e]]
        /\ batch' = B
        /\ todo' = B
  BY DEF Claim, ClaimOutbox
<1>2. /\ UNCHANGED <<retries, stamp, clock, received, mq>>
      /\ batch = {}
  BY DEF Claim, ClaimOutbox, BatchInHand
<1>3. /\ \A e \in Events : Delivered(e)' <=> Delivered(e)
      /\ \A e, f \in Events : InOrder(e, f)' <=> InOrder(e, f)
  BY <1>2 DEF Delivered, Queued, Received, InOrder
<1>4. B \subseteq Events /\ \A e \in B : Unsettled(e) /\ retries[e] < MaxRetry
  BY DEF Claimable, Unsettled
<1>5. NothingAhead'
  BY <1>2 DEF OrderInv, NothingAhead
<1>6. UnstoredIsNowhere'
  <2>1. SUFFICES ASSUME NEW e \in Events, outbox'[e] = "absent"
                 PROVE  e \notin batch' /\ ~Delivered(e)'
    BY DEF UnstoredIsNowhere
  <2>2. e \notin B /\ outbox[e] = "absent"
    BY <1>1, <2>1
  <2>. QED
    BY <1>1, <1>3, <2>2 DEF OrderInv, UnstoredIsNowhere
<1>7. UnsettledFollows'
  <2>1. SUFFICES ASSUME NEW e \in Events, NEW f \in Events,
                        Delivered(e) \/ e \in B, Unsettled(f)'
                 PROVE  InOrder(e, f)
    BY <1>1, <1>3 DEF UnsettledFollows
  <2>2. f \notin B /\ Unsettled(f)
    BY <1>1, <2>1 DEF Unsettled
  <2>3. CASE Delivered(e)
    BY <2>2, <2>3 DEF OrderInv, UnsettledFollows
  <2>4. CASE e \in B /\ f \in Claimable
    BY <1>1, <2>2, <2>4 DEF OldestClaimable, InOrder
  <2>5. CASE e \in B /\ f \notin Claimable
    <3>1. /\ retries[e] \in Nat /\ retries[f] \in Nat /\ MaxRetry \in Nat
          /\ retries[e] < MaxRetry /\ ~(retries[f] < MaxRetry)
      BY <1>4, <2>2, <2>5, BoundsType DEF Claimable, Unsettled
    <3>2. retries[f] > 0
      BY <3>1
    <3>. QED
      BY <3>2 DEF InOrder
  <2>. QED
    BY <2>1, <2>3, <2>4, <2>5
<1>8. ClaimedFollows'
  <2>1. SUFFICES ASSUME NEW e \in Events, NEW f \in B, Delivered(e)
                 PROVE  InOrder(e, f)
    BY <1>1, <1>3, <1>4 DEF ClaimedFollows
  <2>. QED
    BY <1>4, <2>1 DEF OrderInv, UnsettledFollows
<1>9. QueueInOrder'
  BY <1>2 DEF OrderInv, QueueInOrder, InOrder
<1>10. QueuedFollows'
  BY <1>2 DEF OrderInv, QueuedFollows, InOrder, Received, Queued
<1>11. OvertakesOnlyAfterRetry'
  BY <1>2 DEF OrderInv, OvertakesOnlyAfterRetry
<1>. QED
  BY <1>5, <1>6, <1>7, <1>8, <1>9, <1>10, <1>11 DEF OrderInv

(* The event that is sent follows all that was sent, and the rest of the   *)
(* batch follows it.                                                       *)
LEMMA PublishKeepsOrder ==
  ASSUME TypeOK, OrderInv, NEW p \in Events, Publish(p)
  PROVE  OrderInv'
<1>. USE DEF TypeOK, OutboxTypeOK
<1>1. /\ pc = "publish" /\ p \in todo /\ p \in batch
      /\ \A f \in todo : stamp[p] <= stamp[f]
      /\ mq' = Append(mq, p) /\ todo' = todo \ {p}
      /\ UNCHANGED <<outbox, retries, stamp, clock, batch, received>>
  BY DEF Publish, Foremost, rowVars
<1>2. /\ DOMAIN mq' = DOMAIN mq \cup {Len(mq) + 1}
      /\ \A i \in DOMAIN mq : i # Len(mq) + 1 /\ mq'[i] = mq[i]
      /\ mq'[Len(mq) + 1] = p
  BY <1>1, AppendDomain
<1>3. \A e, f \in Events : InOrder(e, f)' <=> InOrder(e, f)
  BY <1>1 DEF InOrder
<1>4. \A e \in Events : Queued(e)' <=> Queued(e) \/ e = p
  BY <1>2 DEF Queued
<1>5. \A e \in Events : Received(e)' <=> Received(e)
  BY <1>1 DEF Received
<1>6. \A e \in Events : Delivered(e)' <=> Delivered(e) \/ e = p
  <2>1. \A e : Delivered(e)' <=> Queued(e)' \/ Received(e)'
    BY DEF Delivered
  <2>. QED
    BY <1>4, <1>5, <2>1 DEF Delivered
<1>7. \A e \in Events : Delivered(e) => InOrder(e, p)
  BY <1>1 DEF OrderInv, ClaimedFollows, AtWork
<1>8. NothingAhead'
  BY <1>1 DEF OrderInv, NothingAhead
<1>9. UnstoredIsNowhere'
  BY <1>1, <1>6 DEF OrderInv, UnstoredIsNowhere
<1>10. UnsettledFollows'
  BY <1>1, <1>3, <1>6 DEF OrderInv, UnsettledFollows, Unsettled
<1>11. ClaimedFollows'
  <2>1. SUFFICES ASSUME NEW e \in Events, NEW f \in todo, Delivered(e)'
                 PROVE  InOrder(e, f)
    BY <1>1, <1>3 DEF ClaimedFollows
  <2>2. CASE e = p
    BY <1>1, <2>2 DEF InOrder
  <2>3. CASE Delivered(e)
    BY <1>1, <2>3 DEF OrderInv, ClaimedFollows, AtWork
  <2>. QED
    BY <1>6, <2>1, <2>2, <2>3
<1>12. QueueInOrder'
  <2>1. SUFFICES ASSUME NEW i \in DOMAIN mq', NEW j \in DOMAIN mq', i < j
                 PROVE  InOrder(mq'[i], mq'[j])
    BY <1>1 DEF QueueInOrder, InOrder
  <2>2. Len(mq) \in Nat /\ DOMAIN mq = 1..Len(mq)
    OBVIOUS
  <2>3. i \in DOMAIN mq /\ mq'[i] = mq[i] /\ mq[i] \in Events
    <3>1. i \in DOMAIN mq
      BY <1>2, <2>1, <2>2
    <3>. QED
      BY <1>2, <3>1
  <2>4. CASE j \in DOMAIN mq
    BY <1>2, <2>1, <2>3, <2>4 DEF OrderInv, QueueInOrder
  <2>5. CASE j = Len(mq) + 1
    <3>1. Delivered(mq[i])
      BY <2>3 DEF Delivered, Queued
    <3>. QED
      BY <1>2, <1>7, <2>3, <2>5, <3>1
  <2>. QED
    BY <1>2, <2>1, <2>4, <2>5
<1>13. QueuedFollows'
  <2>1. SUFFICES ASSUME NEW e \in Events, NEW f \in Events,
                        Received(e), Queued(f)', ~Received(f)
                 PROVE  InOrder(e, f)
    BY <1>3, <1>5 DEF QueuedFollows
  <2>2. CASE Queued(f)
    BY <2>1, <2>2 DEF OrderInv, QueuedFollows
  <2>3. CASE f = p
    BY <1>7, <2>1, <2>3 DEF Delivered
  <2>. QED
    BY <1>4, <2>1, <2>2, <2>3
<1>14. OvertakesOnlyAfterRetry'
  BY <1>1 DEF OrderInv, OvertakesOnlyAfterRetry
<1>. QED
  BY <1>8, <1>9, <1>10, <1>11, <1>12, <1>13, <1>14 DEF OrderInv

(* The head of the queue follows all that was received, and the rest of    *)
(* the queue follows the head.                                             *)
LEMMA ReceiveKeepsOrder ==
  ASSUME TypeOK, OrderInv, Receive
  PROVE  OrderInv'
<1>. USE DEF TypeOK, OutboxTypeOK
<1>0. UNCHANGED <<outbox, retries, stamp, clock, pc, batch, todo, mq>> /\ mq # <<>>
  BY DEF Receive, rowVars, publisherVars
<1>1. PICK h \in Events : h = Head(mq)
  BY <1>0
<1>2. \/ Received(h) /\ received' = received
      \/ ~Received(h) /\ received' = Append(received, h)
  BY <1>1 DEF Receive
<1>3. 1 \in DOMAIN mq /\ mq[1] = h /\ Len(mq) \in Nat /\ DOMAIN mq = 1..Len(mq)
  BY <1>0, <1>1
<1>4. Queued(h) /\ Delivered(h)
  BY <1>3 DEF Delivered, Queued
<1>5. received' = Append(received, h) =>
        /\ DOMAIN received' = DOMAIN received \cup {Len(received) + 1}
        /\ \A i \in DOMAIN received : i # Len(received) + 1 /\ received'[i] = received[i]
        /\ received'[Len(received) + 1] = h
  BY AppendDomain
<1>6. \A e \in Events : Received(e)' <=> Received(e) \/ e = h
  BY <1>2, <1>5 DEF Received
<1>7. \A e \in Events : Queued(e)' <=> Queued(e)
  BY <1>0 DEF Queued
<1>8. \A e \in Events : Delivered(e)' <=> Delivered(e)
  <2>1. \A e : Delivered(e)' <=> Queued(e)' \/ Received(e)'
    BY DEF Delivered
  <2>. QED
    BY <1>4, <1>6, <1>7, <2>1 DEF Delivered
<1>9. \A e, f \in Events : InOrder(e, f)' <=> InOrder(e, f)
  BY <1>0 DEF InOrder
<1>10. NothingAhead'
  BY <1>0 DEF OrderInv, NothingAhead
<1>11. UnstoredIsNowhere'
  BY <1>0, <1>8 DEF OrderInv, UnstoredIsNowhere
<1>12. UnsettledFollows'
  BY <1>0, <1>8, <1>9 DEF OrderInv, UnsettledFollows, Unsettled
<1>13. ClaimedFollows'
  BY <1>0, <1>8, <1>9 DEF OrderInv, ClaimedFollows, AtWork
<1>14. QueueInOrder'
  BY <1>0 DEF OrderInv, QueueInOrder, InOrder
<1>15. QueuedFollows'
  <2>1. SUFFICES ASSUME NEW e \in Events, NEW f \in Events,
                        Received(e) \/ e = h, Queued(f), ~Received(f), f # h
                 PROVE  InOrder(e, f)
    BY <1>6, <1>7, <1>9 DEF QueuedFollows
  <2>2. CASE Received(e)
    BY <2>1, <2>2 DEF OrderInv, QueuedFollows
  <2>3. CASE e = h
    <3>1. PICK j \in DOMAIN mq : mq[j] = f
      BY <2>1 DEF Queued
    <3>2. 1 < j
      BY <1>3, <2>1, <3>1
    <3>. QED
      BY <1>3, <2>3, <3>1, <3>2 DEF OrderInv, QueueInOrder
  <2>. QED
    BY <2>1, <2>2, <2>3
<1>16. OvertakesOnlyAfterRetry'
  <2>1. CASE received' = received
    BY <1>0, <2>1 DEF OrderInv, OvertakesOnlyAfterRetry
  <2>2. CASE ~Received(h) /\ received' = Append(received, h)
    <3>1. SUFFICES ASSUME NEW i \in DOMAIN received', NEW j \in DOMAIN received',
                          i < j, stamp[received'[j]] < stamp[received'[i]]
                   PROVE  retries[received'[j]] > 0
      BY <1>0 DEF OvertakesOnlyAfterRetry
    <3>2. Len(received) \in Nat /\ DOMAIN received = 1..Len(received)
      OBVIOUS
    <3>3. i \in DOMAIN received
      BY <1>5, <2>2, <3>1, <3>2
    <3>4. received'[i] = received[i] /\ received[i] \in Events
      BY <1>5, <2>2, <3>3
    <3>5. CASE j \in DOMAIN received
      BY <1>5, <2>2, <3>1, <3>3, <3>4, <3>5 DEF OrderInv, OvertakesOnlyAfterRetry
    <3>6. CASE j = Len(received) + 1
      <4>1. PICK e \in Events : e = received[i]
        BY <3>4
      <4>2. received'[j] = h /\ received'[i] = e /\ Received(e)
        BY <1>5, <2>2, <3>3, <3>4, <3>6, <4>1 DEF Received
      <4>3. InOrder(e, h)
        BY <1>4, <2>2, <4>2 DEF OrderInv, QueuedFollows
      <4>4. stamp[h] \in Nat /\ stamp[e] \in Nat /\ stamp[h] < stamp[e]
        BY <3>1, <4>2, BoundsType
      <4>. QED
        BY <4>2, <4>3, <4>4 DEF InOrder
    <3>. QED
      BY <1>5, <2>2, <3>5, <3>6
  <2>. QED
    BY <1>2, <2>1, <2>2
<1>. QED
  BY <1>10, <1>11, <1>12, <1>13, <1>14, <1>15, <1>16 DEF OrderInv

LEMMA AcknowledgeKeepsOrder ==
  ASSUME TypeOK, RowBeforeAck, OrderInv, Acknowledge
  PROVE  OrderInv'
<1>. USE DEF TypeOK, OutboxTypeOK
<1>1. /\ UNCHANGED <<outbox, retries, stamp, clock, pc, batch, todo, received>>
      /\ mq # <<>> /\ mq' = Tail(mq) /\ Received(Head(mq))
  BY DEF Acknowledge, RowBeforeAck, rowVars, publisherVars
<1>2. \A i \in DOMAIN mq' : i + 1 \in DOMAIN mq /\ mq'[i] = mq[i + 1]
  BY <1>1
<1>3. \A e \in Events : Queued(e)' => Queued(e)
  BY <1>2 DEF Queued
<1>4. \A e \in Events : Received(e)' <=> Received(e)
  BY <1>1 DEF Received
<1>5. \A e \in Events : Delivered(e)' => Delivered(e)
  <2>1. \A e : Delivered(e)' <=> Queued(e)' \/ Received(e)'
    BY DEF Delivered
  <2>. QED
    BY <1>3, <1>4, <2>1 DEF Delivered
<1>6. \A e, f \in Events : InOrder(e, f)' <=> InOrder(e, f)
  BY <1>1 DEF InOrder
<1>7. NothingAhead'
  BY <1>1 DEF OrderInv, NothingAhead
<1>8. UnstoredIsNowhere'
  BY <1>1, <1>5 DEF OrderInv, UnstoredIsNowhere
<1>9. UnsettledFollows'
  BY <1>1, <1>5, <1>6 DEF OrderInv, UnsettledFollows, Unsettled
<1>10. ClaimedFollows'
  BY <1>1, <1>5, <1>6 DEF OrderInv, ClaimedFollows, AtWork
<1>11. QueueInOrder'
  <2>1. SUFFICES ASSUME NEW i \in DOMAIN mq', NEW j \in DOMAIN mq', i < j
                 PROVE  InOrder(mq'[i], mq'[j])
    BY <1>1 DEF QueueInOrder, InOrder
  <2>2. PICK m \in Seq(Events) : m = mq'
    <3>1. Tail(mq) \in Seq(Events)
      BY <1>1
    <3>. QED
      BY <1>1, <3>1
  <2>3. i \in Nat /\ j \in Nat
    <3>1. DOMAIN m = 1..Len(m) /\ Len(m) \in Nat
      OBVIOUS
    <3>. QED
      BY SMTT(40), <2>1, <2>2, <3>1
  <2>4. i + 1 < j + 1
    BY <2>1, <2>3
  <2>. QED
    BY <1>2, <2>1, <2>4 DEF OrderInv, QueueInOrder
<1>12. QueuedFollows'
  BY <1>3, <1>4, <1>6 DEF OrderInv, QueuedFollows
<1>13. OvertakesOnlyAfterRetry'
  BY <1>1 DEF OrderInv, OvertakesOnlyAfterRetry
<1>. QED
  BY <1>7, <1>8, <1>9, <1>10, <1>11, <1>12, <1>13 DEF OrderInv

LEMMA OrderKept ==
  ASSUME TypeOK, TypeOK', BatchInHand, RowBeforeAck, OrderInv, [Next]_vars
  PROVE  OrderInv'
<1>1. OrderStep
  BY StepIsOrderStep
<1>2. CASE Settles
  BY <1>2, SettlesKeepsOrder
<1>3. ASSUME NEW e \in Events, Store(e)
      PROVE  OrderInv'
  BY <1>3, StoreKeepsOrder
<1>4. ASSUME NEW e \in Events, Publish(e)
      PROVE  OrderInv'
  BY <1>4, PublishKeepsOrder
<1>5. CASE Claim
  BY <1>5, ClaimKeepsOrder
<1>6. CASE Receive
  BY <1>6, ReceiveKeepsOrder
<1>7. CASE Acknowledge
  BY <1>7, AcknowledgeKeepsOrder
<1>. QED
  BY <1>1, <1>2, <1>3, <1>4, <1>5, <1>6, <1>7 DEF OrderStep

LEMMA InitOrder ==
  ASSUME Init
  PROVE  OrderInv
<1>1. /\ \A e \in Events : stamp[e] = 0 /\ clock = 0
      /\ mq = <<>> /\ received = <<>> /\ batch = {} /\ todo = {}
  BY DEF Init, OutboxInit
<1>2. \A e : ~Queued(e) /\ ~Received(e) /\ ~Delivered(e)
  BY <1>1 DEF Queued, Received, Delivered
<1>3. NothingAhead
  BY <1>1 DEF NothingAhead
<1>4. UnstoredIsNowhere /\ UnsettledFollows /\ ClaimedFollows /\ QueuedFollows
  BY <1>1, <1>2 DEF UnstoredIsNowhere, UnsettledFollows, ClaimedFollows, QueuedFollows
<1>5. QueueInOrder /\ OvertakesOnlyAfterRetry
  BY <1>1 DEF QueueInOrder, OvertakesOnlyAfterRetry
<1>. QED
  BY <1>3, <1>4, <1>5 DEF OrderInv

-----------------------------------------------------------------------------
(* The theorems.                                                           *)

IInv ==
  /\ TypeOK /\ BatchInHand /\ RowBeforeAck
  /\ SentIsDelivered /\ PublishedIsDelivered
  /\ RetriesInBatch /\ RetriesBounded
  /\ SendingIsInHand /\ ReceivedOnce
  /\ OrderInv

LEMMA InitInv == Init => IInv
<1>. SUFFICES ASSUME Init
              PROVE  IInv
  OBVIOUS
<1>1. TypeOK
  BY InitType
<1>2. BatchInHand /\ RowBeforeAck /\ SentIsDelivered
  BY DEF Init, OutboxInit, BatchInHand, RowBeforeAck, SentIsDelivered
<1>3. PublishedIsDelivered /\ SendingIsInHand
  BY DEF Init, OutboxInit, PublishedIsDelivered, SendingIsInHand
<1>4. RetriesInBatch /\ RetriesBounded
  BY BoundsType DEF Init, OutboxInit, RetriesInBatch, RetriesBounded
<1>5. ReceivedOnce
  BY DEF Init, OutboxInit, ReceivedOnce
<1>6. OrderInv
  BY InitOrder
<1>. QED
  BY <1>1, <1>2, <1>3, <1>4, <1>5, <1>6 DEF IInv

LEMMA InvStep == IInv /\ [Next]_vars => IInv'
<1>. SUFFICES ASSUME IInv, [Next]_vars
              PROVE  IInv'
  OBVIOUS
<1>. USE DEF IInv
<1>1. QueueStep
  BY StepIsQueueStep
<1>2. TypeOK' /\ BatchInHand'
  BY TypeStep, InHandStep
<1>3. RowBeforeAck' /\ ReceivedOnce'
  BY <1>1, BridgeSteps, ReceivedOnceStep
<1>4. SentIsDelivered' /\ PublishedIsDelivered'
  BY SentStep, PublishedStep
<1>5. RetriesInBatch' /\ RetriesBounded'
  BY RetriesStep
<1>6. SendingIsInHand'
  BY SendingStep
<1>7. OrderInv'
  BY <1>2, OrderKept
<1>. QED
  BY <1>2, <1>3, <1>4, <1>5, <1>6, <1>7

LEMMA AlwaysInv == Spec => []IInv
BY InitInv, InvStep, PTL DEF Spec

(* The variables keep their types: the table, the queue and the publisher  *)
(* are always in a state the code knows.                                   *)
THEOREM TypeCorrect == Spec => []TypeOK
<1>1. IInv => TypeOK
  BY DEF IInv
<1>. QED
  BY <1>1, AlwaysInv, PTL

(* Nothing the outbox has ticked off is lost: mark_outbox_success is only  *)
(* ever reached for an event the broker or rustfs_events holds, through    *)
(* all crashes of both services.                                           *)
THEOREM PublishedCorrect == Spec => []PublishedIsDelivered
<1>1. IInv => PublishedIsDelivered
  BY DEF IInv
<1>. QED
  BY <1>1, AlwaysInv, PTL

(* retry_count never passes max_retry by more than one, although a batch   *)
(* that is given up counts a failure for every event in it.                *)
THEOREM RetriesCorrect == Spec => []RetriesBounded
<1>1. IInv => RetriesBounded
  BY DEF IInv
<1>. QED
  BY <1>1, AlwaysInv, PTL

(* Without a crash no row is left in 'sending' by a publisher that lives.  *)
THEOREM SendingCorrect == Spec => []SendingIsInHand
<1>1. IInv => SendingIsInHand
  BY DEF IInv
<1>. QED
  BY <1>1, AlwaysInv, PTL

(* However often a message is sent or delivered again, rustfs_events has   *)
(* one row for its event.                                                  *)
THEOREM ReceivedOnceCorrect == Spec => []ReceivedOnce
<1>1. IInv => ReceivedOnce
  BY DEF IInv
<1>. QED
  BY <1>1, AlwaysInv, PTL

(* Events arrive in the order they were stored in, second by second,       *)
(* except where sending the older one has failed: claim_outbox_events      *)
(* takes the oldest rows and the publisher goes through them in order.     *)
THEOREM OrderCorrect == Spec => []OvertakesOnlyAfterRetry
<1>1. IInv => OvertakesOnlyAfterRetry
  BY DEF IInv, OrderInv
<1>. QED
  BY <1>1, AlwaysInv, PTL

=============================================================================
