---------------------------- MODULE OutboxRabbit ----------------------------
(***************************************************************************)
(* The default path of an event from file_service to BizRAG: the publisher *)
(* sends its batch to a durable RabbitMQ queue, message by message, and    *)
(* the mq bridge takes the messages in order, creates the row of           *)
(* rustfs_events unless it exists, and acknowledges.                       *)
(*                                                                         *)
(* A message holds one event.  An unacknowledged message stays at the head *)
(* of the queue: that is where the broker puts it when the bridge, its     *)
(* only consumer, rejects it or goes away.                                 *)
(***************************************************************************)
EXTENDS Outbox

CONSTANTS
  Supervised,  (* TRUE: dev_hot_reload restarts a bridge that ended;         *)
               (* start_bizrag.sh alone does not                             *)
  Poison       (* events BizRAG cannot store, however often it tries: its    *)
               (* columns are shorter than file_service's, for one thing     *)

ASSUME RabbitAssumption == Supervised \in BOOLEAN /\ Poison \subseteq Events

VARIABLES
  current,  (* the event the broker has accepted and not yet confirmed       *)
  mq,       (* the queue                                                     *)
  bridge    (* the bridge: "up", "ack" (row made, not acknowledged), "down"  *)

vars == <<outboxVars, current, mq, bridge>>

TypeOK ==
  /\ OutboxTypeOK
  /\ pc \in {"idle", "connect", "publish", "confirm", "giveup", "dead", "down"}
  /\ current \in Events \cup {None}
  /\ mq \in Seq(Events)
  /\ bridge \in {"up", "ack", "down"}

Queued(e) == \E i \in DOMAIN mq : mq[i] = e

Init ==
  /\ OutboxInit
  /\ current = None
  /\ mq = <<>>
  /\ bridge = "up"

-----------------------------------------------------------------------------
(* file_service.                                                           *)

Store(e) ==
  /\ pc \in {"idle", "connect", "publish", "confirm", "dead"}
  /\ StoreEvent(e)
  /\ UNCHANGED <<current, mq, bridge>>

Pass == Tick /\ UNCHANGED <<current, mq, bridge>>

Claim == ClaimOutbox("connect") /\ UNCHANGED <<current, mq, bridge>>

(* Connection, channel and queue are there. *)
Connect ==
  /\ pc = "connect"
  /\ pc' = "publish"
  /\ UNCHANGED <<rowVars, batch, todo, clock, received, faultVars, current, mq, bridge>>

ConnectFails ==
  /\ pc = "connect"
  /\ Error
  /\ GiveUp
  /\ UNCHANGED <<rowVars, clock, received, current, mq, bridge>>

(* Mutant: the event is marked before the broker has its message. *)
PublishUnsent(e) ==
  /\ pc = "publish" /\ Foremost(e)
  /\ todo' = todo \ {e}
  /\ MarkSuccess(e)
  /\ UNCHANGED <<pc, batch, clock, received, faultVars, current, mq, bridge>>

(* The broker takes the message of e ... *)
Publish(e) ==
  /\ pc = "publish" /\ Foremost(e)
  /\ mq' = Append(mq, e)
  /\ todo' = todo \ {e}
  /\ current' = e
  /\ pc' = "confirm"
  /\ UNCHANGED <<rowVars, batch, clock, received, faultVars, bridge>>

(* ... or not: the event alone is marked failed, and the loop goes on. *)
PublishFails(e) ==
  /\ pc = "publish" /\ Foremost(e)
  /\ Error
  /\ MarkFailed(e)
  /\ todo' = todo \ {e}
  /\ UNCHANGED <<pc, batch, clock, received, current, mq, bridge>>

Confirm ==
  /\ pc = "confirm"
  /\ MarkSuccess(current)
  /\ current' = None
  /\ pc' = "publish"
  /\ UNCHANGED <<batch, todo, clock, received, faultVars, mq, bridge>>

(* The confirmation is lost, or its UPDATE fails: an event the broker has  *)
(* is marked failed and will be sent again.                                *)
ConfirmFails ==
  /\ pc = "confirm"
  /\ Error \/ StoreFails
  /\ MarkFailed(current)
  /\ current' = None
  /\ pc' = "publish"
  /\ UNCHANGED <<batch, todo, clock, received, mq, bridge>>

(* That UPDATE fails, too. *)
ConfirmFailsTwice ==
  /\ pc = "confirm"
  /\ StoreFails
  /\ GiveUp
  /\ current' = None
  /\ UNCHANGED <<rowVars, clock, received, mq, bridge>>

(* Mutant: closed with events still to send. *)
CloseEarly ==
  /\ pc = "publish"
  /\ Finished
  /\ UNCHANGED <<rowVars, clock, received, faultVars, current, mq, bridge>>

(* The connection is closed; an error of that gives up the whole batch. *)
Close ==
  /\ pc = "publish" /\ todo = {}
  /\ Finished
  /\ UNCHANGED <<rowVars, clock, received, faultVars, current, mq, bridge>>

CloseFails ==
  /\ pc = "publish" /\ todo = {}
  /\ Error
  /\ GiveUp
  /\ UNCHANGED <<rowVars, clock, received, current, mq, bridge>>

GiveUpNext(e) == MarkGivenUp(e) /\ UNCHANGED <<current, mq, bridge>>

PublisherDies == TaskDies /\ UNCHANGED <<current, mq, bridge>>

ServiceCrash   == Crash /\ current' = None /\ UNCHANGED <<mq, bridge>>
ServiceRestart == Restart /\ UNCHANGED <<current, mq, bridge>>

-----------------------------------------------------------------------------
(* The mq bridge.                                                          *)

(* Mutant: the row made without a look for it. *)
ReceiveUnchecked ==
  /\ bridge = "up" /\ mq # <<>> /\ Head(mq) \notin Poison
  /\ received' = Append(received, Head(mq))
  /\ bridge' = "ack"
  /\ UNCHANGED <<rowVars, publisherVars, clock, faultVars, current, mq>>

(* enqueue_message for the message at the head: a first delivery creates   *)
(* the row, a repeated one finds it.                                       *)
Receive ==
  /\ bridge = "up" /\ mq # <<>> /\ Head(mq) \notin Poison
  /\ received' = IF Received(Head(mq)) THEN received ELSE Append(received, Head(mq))
  /\ bridge' = "ack"
  /\ UNCHANGED <<rowVars, publisherVars, clock, faultVars, current, mq>>

Acknowledge ==
  /\ bridge = "ack"
  /\ mq' = Tail(mq)
  /\ bridge' = "up"
  /\ UNCHANGED <<rowVars, publisherVars, clock, received, faultVars, current>>

(* An exception of enqueue_message rejects the message with requeue and    *)
(* ends the process, and a message that can only raise does so each time.  *)
BridgeRejects ==
  /\ bridge = "up" /\ mq # <<>> /\ Head(mq) \in Poison
  /\ bridge' = "down"
  /\ UNCHANGED <<rowVars, publisherVars, clock, received, faultVars, current, mq>>

(* A passing error of the database, a lost connection or a kill: the       *)
(* message goes back, or stays unacknowledged.                             *)
BridgeFails ==
  /\ bridge # "down"
  /\ Error
  /\ bridge' = "down"
  /\ UNCHANGED <<rowVars, publisherVars, clock, received, current, mq>>

BridgeRestart ==
  /\ bridge = "down"
  /\ bridge' = "up"
  /\ UNCHANGED <<rowVars, publisherVars, clock, received, faultVars, current, mq>>

-----------------------------------------------------------------------------
PublisherStep ==
  \/ Claim \/ Connect \/ Confirm \/ Close
  \/ \E e \in Events : Publish(e) \/ GiveUpNext(e)

PublisherFault ==
  \/ ConnectFails \/ ConfirmFails \/ ConfirmFailsTwice \/ CloseFails
  \/ PublisherDies \/ ServiceCrash
  \/ \E e \in Events : PublishFails(e)

BridgeStep == Receive \/ BridgeRejects \/ Acknowledge

Next ==
  \/ \E e \in Events : Store(e)
  \/ Pass
  \/ PublisherStep \/ PublisherFault \/ ServiceRestart
  \/ BridgeStep \/ BridgeFails \/ BridgeRestart

Spec == Init /\ [][Next]_vars

(* The publisher and the bridge go on while they run; compose restarts     *)
(* file_service, and a supervisor restarts the bridge where there is one.  *)
FairSpec ==
  /\ Spec
  /\ WF_vars(PublisherStep) /\ WF_vars(BridgeStep)
  /\ WF_vars(ServiceRestart)
  /\ Supervised => WF_vars(BridgeRestart)

-----------------------------------------------------------------------------
(* Properties.                                                             *)

(* An event marked published is on the broker or has its row: nothing the  *)
(* outbox has ticked off can be lost, whoever crashes when.                *)
PublishedIsDelivered ==
  \A e \in Events : outbox[e] = "published" => Queued(e) \/ Received(e)

(* retry_count passes max_retry by at most one: an event can be marked     *)
(* failed by itself and again when its batch is given up, once.            *)
RetriesBounded == \A e \in Events : retries[e] <= MaxRetry + 1

(* A younger event overtakes an older one only if both were stored in one  *)
(* second or sending the older one has failed before.                      *)
OvertakesOnlyAfterRetry ==
  \A i, j \in DOMAIN received :
    i < j /\ stamp[received[j]] < stamp[received[i]] => retries[received[j]] > 0

(* While the publisher lives, a 'sending' row is one it has in hand, and   *)
(* so has still to settle.                                                 *)
SendingIsInHand ==
  crashes = 0 /\ pc # "dead" =>
    \A e \in Events : outbox[e] = "sending" => e \in todo \cup {current}

(* What is sent twice is received once: no event has two rows. *)
ReceivedOnce ==
  \A i, j \in DOMAIN received : received[i] = received[j] => i = j

(* e is on the queue with a poison message ahead of it, or is one. *)
Blocked(e) ==
  \E i \in DOMAIN mq : mq[i] = e /\ \E j \in 1..i : mq[j] \in Poison

(* Once failures have ended, every stored event comes to one of its fates  *)
(* and stays there, however often it is sent: BizRAG has received it, its  *)
(* retries have run out, a crash has stranded it in 'sending', the         *)
(* publisher task is dead, or the bridge dies of a poison message again    *)
(* and again and never gets to it.                                         *)
EveryEventEnds ==
  <>[](\A e \in Events :
         outbox[e] # "absent" =>
           \/ Received(e)
           \/ outbox[e] = "failed" /\ retries[e] >= MaxRetry
           \/ outbox[e] = "sending" /\ crashes > 0
           \/ pc = "dead"
           \/ Blocked(e))

(* What the README of file_service promises: every stored event arrives. *)
EveryEventReceived ==
  \A e \in Events : (outbox[e] = "pending") ~> Received(e)

=============================================================================
