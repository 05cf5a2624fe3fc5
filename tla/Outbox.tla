------------------------------- MODULE Outbox -------------------------------
(***************************************************************************)
(* The outbox_events table of file_service and the part of its publisher   *)
(* task that does not depend on the transport: claiming a batch, marking   *)
(* its events, giving a whole batch up, and the ways the task can end.     *)
(* OutboxRabbit and OutboxHttp add a transport and the receiver.           *)
(*                                                                         *)
(* Handlers store an event as the last statement of a change; FileCatalog  *)
(* has what is left when it is not reached, and here an event begins with  *)
(* its row.  The asyncio loop runs handlers and publisher, so it is stored *)
(* only while the publisher awaits something.  created_at has whole        *)
(* seconds, and ORDER BY leaves events of one second in any order.         *)
(***************************************************************************)
EXTENDS Naturals, FiniteSets, Sequences

CONSTANTS
  Events,          (* event ids                                              *)
  None,            (* no event                                               *)
  BatchSize,       (* outbox_batch_size                                      *)
  MaxRetry,        (* max_retry                                              *)
  MaxClock,        (* bound on the seconds that pass                         *)
  MaxErrors,       (* bound on errors of the transport and the receiver      *)
  MaxStoreErrors,  (* bound on errors of the outbox's own database           *)
  MaxCrashes       (* bound on file_service being killed or shut down        *)

ASSUME OutboxAssumption ==
  /\ None \notin Events
  /\ BatchSize \in Nat \ {0}
  /\ MaxRetry \in Nat
  /\ {MaxClock, MaxErrors, MaxStoreErrors, MaxCrashes} \subseteq Nat

VARIABLES
  outbox, retries, stamp,  (* status, retry_count and created_at of the rows *)
  clock,                   (* the second it is                               *)
  pc, batch, todo,         (* the publisher: where it is, the claimed events *)
                           (* and those of them still to be dealt with       *)
  received,                (* the rows of rustfs_events, as they were made   *)
  errors, storeErrors, crashes

rowVars       == <<outbox, retries, stamp>>
publisherVars == <<pc, batch, todo>>
faultVars     == <<errors, storeErrors, crashes>>
outboxVars    == <<rowVars, publisherVars, clock, received, faultVars>>

OutboxTypeOK ==
  /\ outbox \in [Events -> {"absent", "pending", "sending", "published", "failed"}]
  /\ retries \in [Events -> Nat]
  /\ stamp \in [Events -> 0..MaxClock]
  /\ clock \in 0..MaxClock
  /\ batch \in SUBSET Events
  /\ todo \in SUBSET batch
  /\ received \in Seq(Events)
  /\ errors \in 0..MaxErrors
  /\ storeErrors \in 0..MaxStoreErrors
  /\ crashes \in 0..MaxCrashes

Received(e) == \E i \in DOMAIN received : received[i] = e

OutboxInit ==
  /\ outbox   = [e \in Events |-> "absent"]
  /\ retries  = [e \in Events |-> 0]
  /\ stamp    = [e \in Events |-> 0]
  /\ clock    = 0
  /\ pc       = "idle"
  /\ batch    = {}
  /\ todo     = {}
  /\ received = <<>>
  /\ errors = 0 /\ storeErrors = 0 /\ crashes = 0

Error      == errors < MaxErrors /\ errors' = errors + 1 /\ UNCHANGED <<storeErrors, crashes>>
StoreFails == /\ storeErrors < MaxStoreErrors /\ storeErrors' = storeErrors + 1
              /\ UNCHANGED <<errors, crashes>>

-----------------------------------------------------------------------------
(* The rows.                                                               *)

(* create_file, append_version, mark_deleted, enqueue_event: the event's   *)
(* row, the last statement of the change it reports.                       *)
StoreEvent(e) ==
  /\ outbox[e] = "absent"
  /\ outbox' = [outbox EXCEPT ![e] = "pending"]
  /\ stamp' = [stamp EXCEPT ![e] = clock]
  /\ UNCHANGED <<retries, publisherVars, clock, received, faultVars>>

(* A second passes. *)
Tick ==
  /\ clock < MaxClock
  /\ clock' = clock + 1
  /\ UNCHANGED <<rowVars, publisherVars, received, faultVars>>

(* A faulty Claimable, without the rows that failed before. *)
ClaimablePending == {e \in Events : outbox[e] = "pending" /\ retries[e] < MaxRetry}

Claimable == {e \in Events : outbox[e] \in {"pending", "failed"} /\ retries[e] < MaxRetry}

OldestClaimable(B) ==
  /\ B \subseteq Claimable
  /\ \A e \in B, f \in Claimable \ B : stamp[e] <= stamp[f]
  /\ \/ Cardinality(B) = BatchSize
     \/ B = Claimable /\ Cardinality(B) < BatchSize

(* claim_outbox_events: the SELECT and the UPDATE, under the store's lock. *)
ClaimOutbox(next) ==
  /\ pc = "idle"
  /\ \E B \in SUBSET Claimable :
       /\ B # {} /\ OldestClaimable(B)
       /\ outbox' = [e \in Events |-> IF e \in B THEN "sending" ELSE outbox[e]]
       /\ batch' = B
       /\ todo' = B
  /\ pc' = next
  /\ UNCHANGED <<retries, stamp, clock, received, faultVars>>

(* mark_outbox_success, mark_outbox_failed: whatever the row's status. *)
MarkSuccess(e) ==
  /\ outbox' = [outbox EXCEPT ![e] = "published"]
  /\ UNCHANGED <<retries, stamp>>

MarkFailed(e) ==
  /\ outbox' = [outbox EXCEPT ![e] = "failed"]
  /\ retries' = [retries EXCEPT ![e] = @ + 1]
  /\ UNCHANGED stamp

(* A faulty Foremost, which goes through the batch from its youngest event. *)
Hindmost(e) == e \in todo /\ \A f \in todo : stamp[e] >= stamp[f]

(* The loops over a batch follow the order of the claim. *)
Foremost(e) == e \in todo /\ \A f \in todo : stamp[e] <= stamp[f]

Finished == pc' = "idle" /\ batch' = {} /\ todo' = {}

-----------------------------------------------------------------------------
(* The publisher gives up a batch: every event of it is marked failed, the *)
(* ones already published too.                                             *)
GiveUp == pc' = "giveup" /\ todo' = batch /\ UNCHANGED batch

MarkGivenUp(e) ==
  /\ pc = "giveup" /\ Foremost(e)
  /\ MarkFailed(e)
  /\ IF todo = {e} THEN Finished ELSE todo' = todo \ {e} /\ UNCHANGED <<pc, batch>>
  /\ UNCHANGED <<clock, received, faultVars>>

(* The database fails outside of any try: the exception ends the task, and *)
(* nobody looks at the task while the service runs.                        *)
TaskDies ==
  /\ pc \in {"idle", "giveup"}
  /\ StoreFails
  /\ pc' = "dead" /\ batch' = {} /\ todo' = {}
  /\ UNCHANGED <<rowVars, clock, received>>

(* The process is killed, or its shutdown cancels the task, CancelledError *)
(* being no Exception.  Nothing looks at 'sending' rows when it is back.   *)
Crash ==
  /\ pc # "down"
  /\ crashes < MaxCrashes /\ crashes' = crashes + 1
  /\ pc' = "down" /\ batch' = {} /\ todo' = {}
  /\ UNCHANGED <<rowVars, clock, received, errors, storeErrors>>

Restart ==
  /\ pc = "down"
  /\ pc' = "idle"
  /\ UNCHANGED <<rowVars, batch, todo, clock, received, faultVars>>

=============================================================================
