----------------------------- MODULE EventQueue -----------------------------
(***************************************************************************)
(* The rustfs_events table of the metadata store and the worker processes  *)
(* that drain it.                                                          *)
(*                                                                         *)
(* A row is a queued event of the write path.  A worker loops: it sweeps   *)
(* the rows whose lease has expired, claims a batch of queued rows, and    *)
(* processes the batch one event at a time, keeping the lease of the event *)
(* in hand alive with a heartbeat.  Several workers share the table, and a *)
(* worker may die anywhere.                                                *)
(*                                                                         *)
(* Left out: what processing an event does to the knowledge base (only     *)
(* that it ends, well or badly), the payload, the result columns and the   *)
(* clock.  A lease is live, or it has lapsed: its expiry lies in the past. *)
(* The sweep reads every running row (the code: the 200 newest).           *)
(***************************************************************************)
EXTENDS Naturals, FiniteSets

CONSTANTS
  Events,            (* event ids that may be enqueued                       *)
  Workers,           (* worker processes                                     *)
  None,              (* the NULL of the worker_id column                     *)
  Malformed,         (* events whose stored payload no longer validates      *)
  BatchSize,         (* --batch-size                                         *)
  MaxAttempts,       (* --max-attempts                                       *)
  HeartbeatsKeepUp,  (* TRUE: no lease lapses while a worker has its event   *)
                     (* in hand, so only death or the queue behind a slow    *)
                     (* event lets one lapse                                 *)
  MaxFaults          (* bound on worker crashes and store errors             *)

ASSUME EventsAssumption  == Malformed \subseteq Events
ASSUME WorkersAssumption == IsFiniteSet(Workers) /\ Workers # {} /\ None \notin Workers
ASSUME BoundsAssumption  == /\ BatchSize \in Nat \ {0}
                            /\ MaxAttempts \in Nat \ {0}
                            /\ MaxFaults \in Nat
                            /\ HeartbeatsKeepUp \in BOOLEAN

VARIABLES
  (* the columns of rustfs_events *)
  status, worker, lease, attempts, createdAt,
  (* per worker: where it is in its loop, what its sweep has still to give *)
  (* back or to fail, and the claimed events it has not dealt with yet     *)
  pc, toRequeue, toFail, batch,
  (* history: how often each event's processing was started; faults so far *)
  starts, faults

rowVars    == <<status, worker, lease, attempts, createdAt>>
workerVars == <<pc, toRequeue, toFail, batch>>
vars       == <<rowVars, workerVars, starts, faults>>

Settled == {"success", "failed", "cancelled"}
Status  == {"absent", "queued", "running"} \cup Settled
PC      == {"down", "reconcile", "sweep", "batch", "touch", "work"}

TypeOK ==
  /\ status \in [Events -> Status]
  /\ worker \in [Events -> Workers \cup {None}]
  /\ lease \in [Events -> {"none", "live", "lapsed"}]
  /\ attempts \in [Events -> Nat]
  /\ createdAt \in [Events -> Nat]
  /\ pc \in [Workers -> PC]
  /\ toRequeue \in [Workers -> SUBSET Events]
  /\ toFail \in [Workers -> SUBSET Events]
  /\ batch \in [Workers -> SUBSET Events]
  /\ starts \in [Events -> Nat]
  /\ faults \in 0..MaxFaults

Known   == {e \in Events : status[e] # "absent"}
Queued  == {e \in Events : status[e] = "queued"}

(* Mutant: only rows nobody owns are taken for expired. *)
ExpiredUnowned == {e \in Events : status[e] = "running" /\ worker[e] = None}

Expired == {e \in Events : status[e] = "running" /\ lease[e] = "lapsed"}

(* The batch is processed in the order of created_at. *)
Current(w, e) ==
  /\ e \in batch[w]
  /\ \A f \in batch[w] : createdAt[e] <= createdAt[f]

(* The event worker w has in hand; its heartbeat task runs while it works. *)
InHand(w, e)       == pc[w] \in {"batch", "touch", "work"} /\ Current(w, e)
Heartbeating(w, e) == pc[w] = "work" /\ Current(w, e)

Init ==
  /\ status    = [e \in Events |-> "absent"]
  /\ worker    = [e \in Events |-> None]
  /\ lease     = [e \in Events |-> "none"]
  /\ attempts  = [e \in Events |-> 0]
  /\ createdAt = [e \in Events |-> 0]
  /\ pc        = [w \in Workers |-> "reconcile"]
  /\ toRequeue = [w \in Workers |-> {}]
  /\ toFail    = [w \in Workers |-> {}]
  /\ batch     = [w \in Workers |-> {}]
  /\ starts      = [e \in Events |-> 0]
  /\ faults    = 0

-----------------------------------------------------------------------------
(* The row operations of the metadata store.                               *)

(* Release a row's lease and give it its next status. *)
Release(e, outcome) ==
  /\ status' = [status EXCEPT ![e] = outcome]
  /\ worker' = [worker EXCEPT ![e] = None]
  /\ lease'  = [lease EXCEPT ![e] = "none"]
  /\ UNCHANGED <<attempts, createdAt>>

(* finish_rustfs_event: whatever the row's status and whoever its worker. *)
FinishRow(e, outcome) == Release(e, outcome)

(* Mutant: the heartbeat's UPDATE without its status guard. *)
TouchAnyRow(e, w) ==
  /\ worker' = [worker EXCEPT ![e] = w]
  /\ lease'  = [lease EXCEPT ![e] = "live"]
  /\ UNCHANGED <<status, attempts, createdAt>>

(* touch_rustfs_event_lease: only a running row, whoever its worker. *)
TouchRow(e, w) ==
  /\ worker' = IF status[e] = "running" THEN [worker EXCEPT ![e] = w] ELSE worker
  /\ lease'  = IF status[e] = "running" THEN [lease EXCEPT ![e] = "live"] ELSE lease
  /\ UNCHANGED <<status, attempts, createdAt>>

(* Mutant: the sweep's UPDATE without its status guard. *)
SweepAnyRow(e, outcome) == Release(e, outcome)

(* One UPDATE of the sweep: only a row that is still running. *)
SweepRow(e, outcome) ==
  IF status[e] = "running" THEN Release(e, outcome) ELSE UNCHANGED rowVars

(* The claim's SELECT: the oldest queued rows, at most a batch of them. *)
OldestQueued(B) ==
  /\ B \subseteq Queued
  /\ \A e \in B, f \in Queued \ B : createdAt[e] < createdAt[f]
  /\ \/ Cardinality(B) = BatchSize
     \/ B = Queued /\ Cardinality(B) < BatchSize

(* The claim's UPDATE, in the same transaction. *)
ClaimRows(w, B) ==
  /\ status'   = [e \in Events |-> IF e \in B THEN "running" ELSE status[e]]
  /\ worker'   = [e \in Events |-> IF e \in B THEN w ELSE worker[e]]
  /\ lease'    = [e \in Events |-> IF e \in B THEN "live" ELSE lease[e]]
  /\ attempts' = [e \in Events |-> IF e \in B THEN attempts[e] + 1 ELSE attempts[e]]
  /\ UNCHANGED createdAt

-----------------------------------------------------------------------------
(* The environment.                                                        *)

(* Mutant: created_at is the time the event bears, not that of its arrival. *)
EnqueueByEventTime(e) ==
  /\ status[e] = "absent"
  /\ status' = [status EXCEPT ![e] = "queued"]
  /\ \E t \in 1..Cardinality(Events) :
       /\ \A f \in Known : createdAt[f] # t
       /\ createdAt' = [createdAt EXCEPT ![e] = t]
  /\ UNCHANGED <<worker, lease, attempts, workerVars, starts, faults>>

(* enqueue_rustfs_event: a first delivery creates the row; a later one     *)
(* finds it and changes nothing.                                           *)
Enqueue(e) ==
  /\ status[e] = "absent"
  /\ status' = [status EXCEPT ![e] = "queued"]
  /\ createdAt' = [createdAt EXCEPT ![e] = Cardinality(Known) + 1]
  /\ UNCHANGED <<worker, lease, attempts, workerVars, starts, faults>>

(* Time passes and nobody renews the lease of e. *)
LeaseLapses(e) ==
  /\ status[e] = "running" /\ lease[e] = "live"
  /\ HeartbeatsKeepUp => \A w \in Workers : ~ InHand(w, e)
  /\ lease' = [lease EXCEPT ![e] = "lapsed"]
  /\ UNCHANGED <<status, worker, attempts, createdAt, workerVars, starts, faults>>

-----------------------------------------------------------------------------
(* The loop of a worker.                                                   *)

(* Mutant: no bound on attempts. *)
RequeueForever(w) ==
  /\ pc[w] = "reconcile"
  /\ pc' = [pc EXCEPT ![w] = "sweep"]
  /\ toRequeue' = [toRequeue EXCEPT ![w] = Expired]
  /\ UNCHANGED <<rowVars, toFail, batch, starts, faults>>

(* reconcile_expired_rustfs_events, first half: read the expired rows, and *)
(* with them the attempt counts that decide their fate.                    *)
ReadExpired(w) ==
  /\ pc[w] = "reconcile"
  /\ pc' = [pc EXCEPT ![w] = "sweep"]
  /\ toRequeue' = [toRequeue EXCEPT ![w] = {e \in Expired : attempts[e] < MaxAttempts}]
  /\ toFail' = [toFail EXCEPT ![w] = {e \in Expired : attempts[e] >= MaxAttempts}]
  /\ UNCHANGED <<rowVars, batch, starts, faults>>

(* Second half: one UPDATE per row read, each its own transaction. *)
RequeueExpired(w, e) ==
  /\ pc[w] = "sweep" /\ e \in toRequeue[w]
  /\ SweepRow(e, "queued")
  /\ toRequeue' = [toRequeue EXCEPT ![w] = @ \ {e}]
  /\ UNCHANGED <<pc, toFail, batch, starts, faults>>

FailExpired(w, e) ==
  /\ pc[w] = "sweep" /\ e \in toFail[w]
  /\ SweepRow(e, "failed")
  /\ toFail' = [toFail EXCEPT ![w] = @ \ {e}]
  /\ UNCHANGED <<pc, toRequeue, batch, starts, faults>>

(* claim_rustfs_events; with nothing to claim the worker sleeps and sweeps *)
(* again.                                                                  *)
Claim(w) ==
  /\ pc[w] = "sweep" /\ toRequeue[w] = {} /\ toFail[w] = {}
  /\ \E B \in SUBSET Queued :
       /\ OldestQueued(B)
       /\ ClaimRows(w, B)
       /\ batch' = [batch EXCEPT ![w] = B]
       /\ pc' = [pc EXCEPT ![w] = IF B = {} THEN "reconcile" ELSE "batch"]
  /\ UNCHANGED <<toRequeue, toFail, starts, faults>>

(* Mutant: an event whose turn is over stays in the batch. *)
AdvanceNot(w, e) ==
  /\ pc' = [pc EXCEPT ![w] = IF batch[w] = {e} THEN "reconcile" ELSE "batch"]
  /\ UNCHANGED <<toRequeue, toFail, batch>>

(* The worker is done with e: on to the next event of its batch, or around. *)
Advance(w, e) ==
  /\ batch' = [batch EXCEPT ![w] = @ \ {e}]
  /\ pc' = [pc EXCEPT ![w] = IF batch[w] = {e} THEN "reconcile" ELSE "batch"]
  /\ UNCHANGED <<toRequeue, toFail>>

(* process_claimed_event: the stored payload does not validate. *)
RejectPayload(w, e) ==
  /\ pc[w] = "batch" /\ Current(w, e) /\ e \in Malformed
  /\ FinishRow(e, "failed")
  /\ Advance(w, e)
  /\ UNCHANGED <<starts, faults>>

(* handle_rustfs_event_request looks the event up: one that has succeeded  *)
(* meanwhile is a duplicate and is passed over.                            *)
CheckDuplicate(w, e) ==
  /\ pc[w] = "batch" /\ Current(w, e) /\ e \notin Malformed
  /\ IF status[e] = "success"
     THEN Advance(w, e)
     ELSE /\ pc' = [pc EXCEPT ![w] = "touch"]
          /\ UNCHANGED <<toRequeue, toFail, batch>>
  /\ UNCHANGED <<rowVars, starts, faults>>

(* ... then renews the lease, starts the heartbeat and the processing. *)
StartProcessing(w, e) ==
  /\ pc[w] = "touch" /\ Current(w, e)
  /\ TouchRow(e, w)
  /\ pc' = [pc EXCEPT ![w] = "work"]
  /\ starts' = [starts EXCEPT ![e] = @ + 1]
  /\ UNCHANGED <<toRequeue, toFail, batch, faults>>

(* The heartbeat task of the event in hand. *)
Heartbeat(w, e) ==
  /\ Heartbeating(w, e)
  /\ TouchRow(e, w)
  /\ UNCHANGED <<workerVars, starts, faults>>

(* Processing ends well, or with an exception the worker survives. *)
FinishEvent(w, e) ==
  /\ Heartbeating(w, e)
  /\ \E outcome \in {"success", "failed"} : FinishRow(e, outcome)
  /\ Advance(w, e)
  /\ UNCHANGED <<starts, faults>>

-----------------------------------------------------------------------------
(* What goes wrong.                                                        *)

(* The worker is gone, with all it knew. *)
Stop(w) ==
  /\ pc'        = [pc EXCEPT ![w] = "down"]
  /\ toRequeue' = [toRequeue EXCEPT ![w] = {}]
  /\ toFail'    = [toFail EXCEPT ![w] = {}]
  /\ batch'     = [batch EXCEPT ![w] = {}]

Fault == faults < MaxFaults /\ faults' = faults + 1

(* The process is killed, or an error of the sweep or the claim ends it. *)
Crash(w) ==
  /\ pc[w] # "down"
  /\ Fault
  /\ Stop(w)
  /\ UNCHANGED <<rowVars, starts>>

(* The process is interrupted: CancelledError is written to the event in   *)
(* hand and, no Exception, leaves the loop.                                *)
CancelEvent(w, e) ==
  /\ Heartbeating(w, e)
  /\ Fault
  /\ FinishRow(e, "cancelled")
  /\ Stop(w)
  /\ UNCHANGED starts

(* The store fails under an event: the loop swallows the exception and the *)
(* row stays as it is.                                                     *)
StoreError(w, e) ==
  /\ InHand(w, e)
  /\ Fault
  /\ Advance(w, e)
  /\ UNCHANGED <<rowVars, starts>>

(* The process is started again. *)
Restart(w) ==
  /\ pc[w] = "down"
  /\ pc' = [pc EXCEPT ![w] = "reconcile"]
  /\ UNCHANGED <<rowVars, toRequeue, toFail, batch, starts, faults>>

-----------------------------------------------------------------------------
(* What a worker does by itself when nothing goes wrong. *)
WorkerStep(w) ==
  \/ ReadExpired(w)
  \/ Claim(w)
  \/ \E e \in Events :
       \/ RequeueExpired(w, e)
       \/ FailExpired(w, e)
       \/ RejectPayload(w, e)
       \/ CheckDuplicate(w, e)
       \/ StartProcessing(w, e)
       \/ FinishEvent(w, e)

FaultStep(w) ==
  \/ Crash(w)
  \/ Restart(w)
  \/ \E e \in Events : CancelEvent(w, e) \/ StoreError(w, e)

Next ==
  \/ \E e \in Events : Enqueue(e) \/ LeaseLapses(e)
  \/ \E w \in Workers :
       \/ WorkerStep(w)
       \/ FaultStep(w)
       \/ \E e \in Events : Heartbeat(w, e)

Spec == Init /\ [][Next]_vars

(* A running worker goes on with its loop, and a lease nobody renews ends. *)
(* A worker that is down need not come back.                               *)
Fairness ==
  /\ \A w \in Workers : WF_vars(WorkerStep(w))
  /\ \A e \in Events : WF_vars(LeaseLapses(e))

FairSpec == Spec /\ Fairness

-----------------------------------------------------------------------------
(* Properties.                                                             *)

(* A row carries a worker and a lease exactly while it is running: no late *)
(* heartbeat puts one on a row that was finished or requeued, and no row   *)
(* is running without a lease that can expire (which would strand it).     *)
LeaseIffRunning ==
  \A e \in Events : /\ (status[e] = "running") <=> (worker[e] # None)
                    /\ (status[e] = "running") <=> (lease[e] # "none")

(* Sweeps act on attempt counts they read earlier, so several workers can  *)
(* requeue one event past --max-attempts; each worker but the one that has *)
(* the event can do so once.  With a single worker the bound is exact.     *)
AttemptsCap == MaxAttempts + Cardinality(Workers) - 1
AttemptsBounded == \A e \in Events : attempts[e] <= AttemptsCap

(* Every start of processing is paid for by a claim of its own: neither a  *)
(* stale batch nor a lost lease lets a worker start an event again.        *)
RunsWithinAttempts == \A e \in Events : starts[e] <= attempts[e]

(* Events are taken up in the order they were enqueued: a younger event is *)
(* never claimed while an older one still waits for its first claim.       *)
OldestFirst ==
  \A e, f \in Events :
    /\ status[e] # "absent" /\ status[f] # "absent"
    /\ createdAt[e] < createdAt[f] /\ attempts[f] > 0
    => attempts[e] > 0 \/ status[e] \in Settled

(* A settled row is never queued or running again, though stale sweeps,    *)
(* heartbeats and finishes of other workers still reach it.                *)
SettledStaysSettled ==
  [][\A e \in Events : status[e] \in Settled => status'[e] \in Settled]_vars

(* At most one worker at a time is processing an event. *)
NoDoubleIngest ==
  \A e \in Events, v, w \in Workers :
    Heartbeating(v, e) /\ Heartbeating(w, e) => v = w

(* Every event that is enqueued is settled in the end, and for good, unless*)
(* all workers stay down: leases of dead workers lapse, their events are   *)
(* requeued or failed, and attempts run out.                               *)
EveryEventSettles ==
  \/ <>[](\A w \in Workers : pc[w] = "down")
  \/ <>[](\A e \in Events : status[e] # "absent" => status[e] \in Settled)

(* The queue implements the ledger: the refinement mapping forgets who has *)
(* an event and how it ended.                                              *)
PhaseOf(s) ==
  CASE s = "absent"  -> "unknown"
    [] s = "queued"  -> "waiting"
    [] s = "running" -> "taken"
    [] s \in Settled -> "settled"

Ledger == INSTANCE EventLedger WITH
            phase <- [e \in Events |-> PhaseOf(status[e])],
            tries <- attempts,
            MaxTries <- AttemptsCap

ImplementsLedger == Ledger!Spec

-----------------------------------------------------------------------------
(* What the proofs in EventQueueProofs carry along.                        *)

(* The events that workers still mean to requeue on the word of an old     *)
(* read, and the claims of e whose processing has not been started.        *)
StaleRequeuers(e)   == {w \in Workers : e \in toRequeue[w]}
UnstartedHolders(e) == {w \in Workers : e \in batch[w] /\ ~ Heartbeating(w, e)}

(* Each stale read is one requeue, hence one attempt, still to come. *)
AttemptsInv ==
  \A e \in Events :
    /\ attempts[e] + Cardinality(StaleRequeuers(e)) <= AttemptsCap
    /\ status[e] \in {"absent", "queued"} =>
         attempts[e] + Cardinality(StaleRequeuers(e)) + 1 <= AttemptsCap

(* created_at numbers the known events without a gap or a tie. *)
OrderInv ==
  /\ IsFiniteSet(Known)
  /\ \A e \in Known : createdAt[e] \in 1..Cardinality(Known)
  /\ \A e, f \in Known : createdAt[e] = createdAt[f] => e = f
  /\ \A w \in Workers : batch[w] \subseteq Known
  /\ \A e \in Events : /\ status[e] = "running" => attempts[e] > 0
                       /\ status[e] = "absent" => attempts[e] = 0

RunsInv ==
  \A e \in Events : starts[e] + Cardinality(UnstartedHolders(e)) <= attempts[e]

=============================================================================
