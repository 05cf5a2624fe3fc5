-------------------------- MODULE EventQueueProofs --------------------------
(***************************************************************************)
(* What holds of the event queue for every set of events and workers,      *)
(* every batch size and every attempt limit.                               *)
(***************************************************************************)
EXTENDS EventQueue, FiniteSetTheorems, TLAPS

-----------------------------------------------------------------------------
(* Whatever a step does to the workers, it does one of six things to the   *)
(* rows.  Invariants that speak of rows only need no more than this.       *)
RowStep ==
  \/ \E e \in Events : Enqueue(e)
  \/ \E e \in Events : LeaseLapses(e)
  \/ \E e \in Events, w \in Workers : TouchRow(e, w)
  \/ \E e \in Events, w \in Workers, outcome \in Settled :
       e \in batch[w] /\ Release(e, outcome)
  \/ \E e \in Events, outcome \in {"queued", "failed"} :
       status[e] = "running" /\ Release(e, outcome)
  \/ \E w \in Workers, B \in SUBSET Queued : OldestQueued(B) /\ ClaimRows(w, B)
  \/ UNCHANGED rowVars

LEMMA StepIsRowStep ==
  ASSUME [Next]_vars
  PROVE  RowStep
<1>1. ASSUME NEW e \in Events, Enqueue(e) \/ LeaseLapses(e)
      PROVE  RowStep
  BY <1>1 DEF RowStep
<1>2. ASSUME NEW w \in Workers, ReadExpired(w) \/ Crash(w) \/ Restart(w)
      PROVE  RowStep
  BY <1>2 DEF RowStep, ReadExpired, Crash, Restart
<1>3. ASSUME NEW w \in Workers, Claim(w)
      PROVE  RowStep
  BY <1>3 DEF RowStep, Claim
<1>4. ASSUME NEW w \in Workers, NEW e \in Events,
             RequeueExpired(w, e) \/ FailExpired(w, e)
      PROVE  RowStep
  BY <1>4 DEF RowStep, RequeueExpired, FailExpired, SweepRow
<1>5. ASSUME NEW w \in Workers, NEW e \in Events,
             CheckDuplicate(w, e) \/ StoreError(w, e)
      PROVE  RowStep
  BY <1>5 DEF RowStep, CheckDuplicate, StoreError
<1>6. ASSUME NEW w \in Workers, NEW e \in Events,
             StartProcessing(w, e) \/ Heartbeat(w, e)
      PROVE  RowStep
  BY <1>6 DEF RowStep, StartProcessing, Heartbeat
<1>7. ASSUME NEW w \in Workers, NEW e \in Events,
             RejectPayload(w, e) \/ FinishEvent(w, e) \/ CancelEvent(w, e)
      PROVE  RowStep
  <2>1. e \in batch[w]
    BY <1>7 DEF RejectPayload, FinishEvent, CancelEvent, Heartbeating, Current
  <2>2. \E outcome \in Settled : Release(e, outcome)
    BY <1>7 DEF RejectPayload, FinishEvent, CancelEvent, FinishRow, Settled
  <2>. QED
    BY <2>1, <2>2 DEF RowStep
<1>8. CASE UNCHANGED vars
  BY <1>8 DEF RowStep, vars
<1>. QED
  BY <1>1, <1>2, <1>3, <1>4, <1>5, <1>6, <1>7, <1>8 DEF Next, WorkerStep, FaultStep

-----------------------------------------------------------------------------
(* The type invariant.  The number of known events is a number only if     *)
(* they are finitely many, which is part of the induction.                 *)
TypeInv == TypeOK /\ IsFiniteSet(Known)

LEMMA KnownFinite ==
  ASSUME TypeInv, [Next]_vars
  PROVE  IsFiniteSet(Known)'
<1>1. ASSUME NEW e \in Events, Known' \subseteq Known \cup {e}
      PROVE  IsFiniteSet(Known')
  <2>1. IsFiniteSet(Known \cup {e})
    BY FS_AddElement DEF TypeInv
  <2>. QED
    BY <1>1, <2>1, FS_Subset
<1>2. ASSUME Known' \subseteq Known
      PROVE  IsFiniteSet(Known')
  BY <1>2, FS_Subset DEF TypeInv
<1>3. ASSUME NEW e \in Events, Enqueue(e)
      PROVE  IsFiniteSet(Known')
  BY <1>1, <1>3 DEF Enqueue, Known, TypeInv, TypeOK
<1>4. ASSUME NEW e \in Events, LeaseLapses(e) \/ \E w \in Workers : TouchRow(e, w)
      PROVE  IsFiniteSet(Known')
  BY <1>2, <1>4 DEF LeaseLapses, TouchRow, Known
<1>5. ASSUME NEW e \in Events, NEW outcome, Release(e, outcome)
      PROVE  IsFiniteSet(Known')
  BY <1>1, <1>5 DEF Release, Known, TypeInv, TypeOK
<1>6. ASSUME NEW w \in Workers, NEW B \in SUBSET Queued, ClaimRows(w, B)
      PROVE  IsFiniteSet(Known')
  BY <1>2, <1>6 DEF ClaimRows, Known, Queued
<1>7. CASE UNCHANGED rowVars
  BY <1>2, <1>7 DEF rowVars, Known
<1>. QED
  BY <1>3, <1>4, <1>5, <1>6, <1>7, StepIsRowStep DEF RowStep

(* Every step keeps the types of the rows ... *)
LEMMA RowTypes ==
  ASSUME TypeInv, [Next]_vars
  PROVE  /\ status' \in [Events -> Status]
         /\ worker' \in [Events -> Workers \cup {None}]
         /\ lease' \in [Events -> {"none", "live", "lapsed"}]
         /\ attempts' \in [Events -> Nat]
         /\ createdAt' \in [Events -> Nat]
<1>. DEFINE RowTypeOK == /\ status \in [Events -> Status]
                         /\ worker \in [Events -> Workers \cup {None}]
                         /\ lease \in [Events -> {"none", "live", "lapsed"}]
                         /\ attempts \in [Events -> Nat]
                         /\ createdAt \in [Events -> Nat]
<1>. SUFFICES RowTypeOK'
  OBVIOUS
<1>. USE DEF Status, Settled
<1>0. RowTypeOK
  BY DEF TypeInv, TypeOK
<1>1. ASSUME NEW e \in Events, Enqueue(e)
      PROVE  RowTypeOK'
  <2>1. Cardinality(Known) + 1 \in Nat
    BY FS_CardinalityType DEF TypeInv
  <2>. QED
    BY <1>0, <1>1, <2>1 DEF Enqueue
<1>2. ASSUME NEW e \in Events, LeaseLapses(e)
      PROVE  RowTypeOK'
  BY <1>0, <1>2 DEF LeaseLapses
<1>3. ASSUME NEW e \in Events, NEW w \in Workers, TouchRow(e, w)
      PROVE  RowTypeOK'
  BY <1>0, <1>3 DEF TouchRow
<1>4. ASSUME NEW e \in Events, NEW outcome \in Status, Release(e, outcome)
      PROVE  RowTypeOK'
  BY <1>0, <1>4 DEF Release
<1>5. ASSUME NEW w \in Workers, NEW B \in SUBSET Queued, ClaimRows(w, B)
      PROVE  RowTypeOK'
  BY <1>0, <1>5 DEF ClaimRows
<1>6. CASE UNCHANGED rowVars
  BY <1>0, <1>6 DEF rowVars
<1>. QED
  BY <1>1, <1>2, <1>3, <1>4, <1>5, <1>6, StepIsRowStep DEF RowStep

(* ... and the types of the workers. *)
LEMMA WorkerTypes ==
  ASSUME TypeInv, [Next]_vars
  PROVE  /\ pc' \in [Workers -> PC]
         /\ toRequeue' \in [Workers -> SUBSET Events]
         /\ toFail' \in [Workers -> SUBSET Events]
         /\ batch' \in [Workers -> SUBSET Events]
         /\ starts' \in [Events -> Nat]
         /\ faults' \in 0..MaxFaults
<1>. DEFINE LoopTypeOK == /\ pc \in [Workers -> PC]
                          /\ toRequeue \in [Workers -> SUBSET Events]
                          /\ toFail \in [Workers -> SUBSET Events]
                          /\ batch \in [Workers -> SUBSET Events]
            HistoryOK  == starts \in [Events -> Nat] /\ faults \in 0..MaxFaults
<1>. SUFFICES LoopTypeOK' /\ HistoryOK'
  OBVIOUS
<1>. USE DEF PC
<1>0. LoopTypeOK /\ HistoryOK
  BY DEF TypeInv, TypeOK
<1>1. ASSUME NEW e \in Events, Enqueue(e) \/ LeaseLapses(e)
      PROVE  LoopTypeOK' /\ HistoryOK'
  BY <1>0, <1>1 DEF Enqueue, LeaseLapses, workerVars
<1>2. ASSUME NEW w \in Workers, ReadExpired(w)
      PROVE  LoopTypeOK' /\ HistoryOK'
  BY <1>0, <1>2 DEF ReadExpired, Expired
<1>3. ASSUME NEW w \in Workers, NEW e \in Events, RequeueExpired(w, e) \/ FailExpired(w, e)
      PROVE  LoopTypeOK' /\ HistoryOK'
  BY <1>0, <1>3 DEF RequeueExpired, FailExpired
<1>4. ASSUME NEW w \in Workers, Claim(w)
      PROVE  LoopTypeOK' /\ HistoryOK'
  BY <1>0, <1>4 DEF Claim, Queued
<1>5. ASSUME NEW w \in Workers, NEW e \in Events, Advance(w, e)
      PROVE  LoopTypeOK'
  BY <1>0, <1>5 DEF Advance
<1>6. ASSUME NEW w \in Workers, Stop(w)
      PROVE  LoopTypeOK'
  BY <1>0, <1>6 DEF Stop
<1>7. ASSUME Fault
      PROVE  faults' \in 0..MaxFaults
  BY <1>0, <1>7, BoundsAssumption DEF Fault
<1>8. ASSUME NEW w \in Workers, NEW e \in Events,
             RejectPayload(w, e) \/ FinishEvent(w, e)
      PROVE  LoopTypeOK' /\ HistoryOK'
  BY <1>0, <1>5, <1>8 DEF RejectPayload, FinishEvent
<1>9. ASSUME NEW w \in Workers, NEW e \in Events, CheckDuplicate(w, e)
      PROVE  LoopTypeOK' /\ HistoryOK'
  BY <1>0, <1>5, <1>9 DEF CheckDuplicate
<1>10. ASSUME NEW w \in Workers, NEW e \in Events, StartProcessing(w, e)
       PROVE  LoopTypeOK' /\ HistoryOK'
  BY <1>0, <1>10 DEF StartProcessing
<1>11. ASSUME NEW w \in Workers, NEW e \in Events, Heartbeat(w, e)
       PROVE  LoopTypeOK' /\ HistoryOK'
  BY <1>0, <1>11 DEF Heartbeat, workerVars
<1>12. ASSUME NEW w \in Workers, Crash(w)
       PROVE  LoopTypeOK' /\ HistoryOK'
  BY <1>0, <1>6, <1>7, <1>12 DEF Crash
<1>13. ASSUME NEW w \in Workers, Restart(w)
       PROVE  LoopTypeOK' /\ HistoryOK'
  BY <1>0, <1>13 DEF Restart
<1>14. ASSUME NEW w \in Workers, NEW e \in Events, CancelEvent(w, e)
       PROVE  LoopTypeOK' /\ HistoryOK'
  BY <1>0, <1>6, <1>7, <1>14 DEF CancelEvent
<1>15. ASSUME NEW w \in Workers, NEW e \in Events, StoreError(w, e)
       PROVE  LoopTypeOK' /\ HistoryOK'
  BY <1>0, <1>5, <1>7, <1>15 DEF StoreError
<1>16. CASE UNCHANGED vars
  BY <1>0, <1>16 DEF vars, workerVars
<1>. QED
  BY <1>1, <1>2, <1>3, <1>4, <1>8, <1>9, <1>10, <1>11, <1>12, <1>13, <1>14, <1>15, <1>16
  DEF Next, WorkerStep, FaultStep

LEMMA TypeInvariant == Spec => []TypeInv
<1>1. Init => TypeInv
  <2>. SUFFICES ASSUME Init PROVE TypeInv
    OBVIOUS
  <2>1. Known = {}
    BY DEF Init, Known
  <2>2. IsFiniteSet(Known)
    BY <2>1, FS_EmptySet
  <2>3. TypeOK
    BY BoundsAssumption, WorkersAssumption DEF Init, TypeOK, Status, PC
  <2>. QED
    BY <2>2, <2>3 DEF TypeInv
<1>2. TypeInv /\ [Next]_vars => TypeInv'
  BY RowTypes, WorkerTypes, KnownFinite DEF TypeInv, TypeOK
<1>. QED
  BY <1>1, <1>2, PTL DEF Spec

(* The state of the queue is well typed: rows, workers and history. *)
THEOREM TypeCorrect == Spec => []TypeOK
BY TypeInvariant, PTL DEF TypeInv

-----------------------------------------------------------------------------
(* Leases.  A row has a worker and a lease exactly while it is running.    *)
THEOREM LeaseCorrect == Spec => []LeaseIffRunning
<1>1. Init => LeaseIffRunning
  BY DEF Init, LeaseIffRunning
<1>2. TypeInv /\ LeaseIffRunning /\ [Next]_vars => LeaseIffRunning'
  <2>. SUFFICES ASSUME TypeInv, LeaseIffRunning, [Next]_vars
                PROVE  LeaseIffRunning'
    OBVIOUS
  <2>. USE WorkersAssumption DEF LeaseIffRunning, TypeInv, TypeOK
  <2>1. ASSUME NEW e \in Events, Enqueue(e) \/ LeaseLapses(e)
        PROVE  LeaseIffRunning'
    BY <2>1 DEF Enqueue, LeaseLapses
  <2>2. ASSUME NEW e \in Events, NEW w \in Workers, TouchRow(e, w)
        PROVE  LeaseIffRunning'
    BY <2>2 DEF TouchRow
  <2>3. ASSUME NEW e \in Events, NEW outcome, outcome # "running", Release(e, outcome)
        PROVE  LeaseIffRunning'
    BY <2>3 DEF Release
  <2>4. ASSUME NEW w \in Workers, NEW B \in SUBSET Queued, ClaimRows(w, B)
        PROVE  LeaseIffRunning'
    BY <2>4 DEF ClaimRows, Queued
  <2>5. CASE UNCHANGED rowVars
    BY <2>5 DEF rowVars
  <2>. QED
    BY <2>1, <2>2, <2>3, <2>4, <2>5, StepIsRowStep DEF RowStep, Settled
<1>. QED
  BY <1>1, <1>2, TypeInvariant, PTL DEF Spec

LEMMA SettledStep ==
  ASSUME TypeInv, [Next]_vars, NEW e \in Events, status[e] \in Settled
  PROVE  status'[e] \in Settled
<1>. USE DEF TypeInv, TypeOK, Settled
<1>1. ASSUME NEW f \in Events, Enqueue(f) \/ LeaseLapses(f)
      PROVE  status'[e] \in Settled
  BY <1>1 DEF Enqueue, LeaseLapses
<1>2. ASSUME NEW f \in Events, NEW w \in Workers, TouchRow(f, w)
      PROVE  status'[e] \in Settled
  BY <1>2 DEF TouchRow
<1>3. ASSUME NEW f \in Events, NEW outcome, Release(f, outcome),
             outcome \in Settled \/ status[f] = "running"
      PROVE  status'[e] \in Settled
  BY <1>3 DEF Release
<1>4. ASSUME NEW w \in Workers, NEW B \in SUBSET Queued, ClaimRows(w, B)
      PROVE  status'[e] \in Settled
  BY <1>4 DEF ClaimRows, Queued
<1>5. CASE UNCHANGED rowVars
  BY <1>5 DEF rowVars
<1>. QED
  BY <1>1, <1>2, <1>3, <1>4, <1>5, StepIsRowStep DEF RowStep

(* A settled row stays settled: the sweep's and the heartbeat's UPDATEs    *)
(* reach running rows only, the claim's queued ones, and a late finish     *)
(* settles the row once more.                                              *)
THEOREM SettledForGood == Spec => SettledStaysSettled
<1>1. TypeInv /\ [Next]_vars
      => (\A e \in Events : status[e] \in Settled => status'[e] \in Settled)
  BY SettledStep
<1>. QED
  BY <1>1, TypeInvariant, PTL DEF Spec, SettledStaysSettled

-----------------------------------------------------------------------------
(* Attempts.  A worker that read an expired row below the limit may still  *)
(* requeue it after others have used up its attempts, so the limit is met  *)
(* only up to the number of such stale reads.                              *)

LEMMA StaleFinite ==
  ASSUME NEW S \in SUBSET Workers
  PROVE  /\ IsFiniteSet(S)
         /\ Cardinality(S) \in Nat
         /\ Cardinality(S) <= Cardinality(Workers)
BY WorkersAssumption, FS_Subset, FS_CardinalityType

(* The cap leaves room for every worker to hold a stale read. *)
LEMMA CapRoom ==
  /\ AttemptsCap \in Nat
  /\ Cardinality(Workers) \in Nat
  /\ AttemptsCap = MaxAttempts + Cardinality(Workers) - 1
  /\ AttemptsCap >= 1
<1>1. Cardinality(Workers) \in Nat /\ Cardinality(Workers) # 0
  BY WorkersAssumption, FS_CardinalityType, FS_EmptySet
<1>. QED
  BY <1>1, BoundsAssumption DEF AttemptsCap

(* A set of stale reads that does not grow keeps the invariant of an event *)
(* whose row moves no further than its attempts allow.                     *)
AttemptsInvOf(e) ==
  /\ attempts[e] + Cardinality(StaleRequeuers(e)) <= AttemptsCap
  /\ status[e] \in {"absent", "queued"} =>
       attempts[e] + Cardinality(StaleRequeuers(e)) + 1 <= AttemptsCap

LEMMA FewerStale ==
  ASSUME TypeInv, NEW e \in Events, AttemptsInvOf(e),
         StaleRequeuers(e)' \subseteq StaleRequeuers(e),
         attempts'[e] = attempts[e],
         status'[e] \in {"absent", "queued"} => status[e] \in {"absent", "queued"}
  PROVE  AttemptsInvOf(e)'
<1>1. StaleRequeuers(e) \in SUBSET Workers /\ StaleRequeuers(e)' \in SUBSET Workers
  BY DEF StaleRequeuers
<1>2. Cardinality(StaleRequeuers(e)') <= Cardinality(StaleRequeuers(e))
  BY <1>1, StaleFinite, FS_Subset
<1>. QED
  BY <1>1, <1>2, StaleFinite, CapRoom DEF AttemptsInvOf, TypeInv, TypeOK

LEMMA AttemptsStep ==
  ASSUME TypeInv, [Next]_vars, NEW e \in Events, AttemptsInvOf(e)
  PROVE  AttemptsInvOf(e)'
<1>. USE DEF TypeInv, TypeOK
<1>0. /\ StaleRequeuers(e) \in SUBSET Workers
      /\ StaleRequeuers(e)' \in SUBSET Workers
  BY DEF StaleRequeuers
<1>1. ASSUME NEW f \in Events, Enqueue(f) \/ LeaseLapses(f)
      PROVE  AttemptsInvOf(e)'
  BY <1>1, FewerStale DEF Enqueue, LeaseLapses, workerVars, StaleRequeuers
<1>2. ASSUME NEW w \in Workers, ReadExpired(w)
      PROVE  AttemptsInvOf(e)'
  <2>1. CASE e \in Expired /\ attempts[e] < MaxAttempts
    <3>1. attempts'[e] = attempts[e] /\ status'[e] = "running"
      BY <1>2, <2>1 DEF ReadExpired, rowVars, Expired
    <3>2. Cardinality(StaleRequeuers(e)') <= Cardinality(Workers)
      BY <1>0, StaleFinite
    <3>. QED
      BY <1>0, <2>1, <3>1, <3>2, StaleFinite, CapRoom, BoundsAssumption DEF AttemptsInvOf
  <2>2. CASE ~ (e \in Expired /\ attempts[e] < MaxAttempts)
    <3>1. StaleRequeuers(e)' \subseteq StaleRequeuers(e)
      BY <1>2, <2>2 DEF ReadExpired, StaleRequeuers, Expired
    <3>. QED
      BY <1>2, <3>1, FewerStale DEF ReadExpired, rowVars
  <2>. QED
    BY <2>1, <2>2
<1>3. ASSUME NEW w \in Workers, NEW f \in Events, RequeueExpired(w, f)
      PROVE  AttemptsInvOf(e)'
  <2>1. CASE f = e /\ status[e] = "running"
    <3>1. attempts'[e] = attempts[e]
      BY <1>3, <2>1 DEF RequeueExpired, SweepRow, Release
    <3>2. w \in StaleRequeuers(e) /\ StaleRequeuers(e)' = StaleRequeuers(e) \ {w}
      BY <1>3, <2>1 DEF RequeueExpired, StaleRequeuers
    <3>3. Cardinality(StaleRequeuers(e)') = Cardinality(StaleRequeuers(e)) - 1
      BY <1>0, <3>2, StaleFinite, FS_RemoveElement
    <3>. QED
      BY <1>0, <3>1, <3>3, StaleFinite, CapRoom DEF AttemptsInvOf
  <2>2. CASE ~ (f = e /\ status[e] = "running")
    <3>1. StaleRequeuers(e)' \subseteq StaleRequeuers(e)
      BY <1>3 DEF RequeueExpired, StaleRequeuers
    <3>2. attempts'[e] = attempts[e] /\ status'[e] = status[e]
      BY <1>3, <2>2 DEF RequeueExpired, SweepRow, Release, rowVars
    <3>. QED
      BY <3>1, <3>2, FewerStale
  <2>. QED
    BY <2>1, <2>2
<1>4. ASSUME NEW w \in Workers, NEW f \in Events, FailExpired(w, f)
      PROVE  AttemptsInvOf(e)'
  <2>1. StaleRequeuers(e)' = StaleRequeuers(e)
    BY <1>4 DEF FailExpired, StaleRequeuers
  <2>2. /\ attempts'[e] = attempts[e]
        /\ status'[e] \in {"absent", "queued"} => status[e] \in {"absent", "queued"}
    BY <1>4 DEF FailExpired, SweepRow, Release, rowVars
  <2>. QED
    BY <2>1, <2>2, FewerStale
<1>5. ASSUME NEW w \in Workers, Claim(w)
      PROVE  AttemptsInvOf(e)'
  <2>. PICK B \in SUBSET Queued : ClaimRows(w, B)
    BY <1>5 DEF Claim
  <2>1. StaleRequeuers(e)' = StaleRequeuers(e)
    BY <1>5 DEF Claim, StaleRequeuers
  <2>2. CASE e \in B
    <3>1. status[e] = "queued" /\ status'[e] = "running" /\ attempts'[e] = attempts[e] + 1
      BY <2>2 DEF ClaimRows, Queued
    <3>. QED
      BY <1>0, <2>1, <3>1, StaleFinite, CapRoom DEF AttemptsInvOf
  <2>3. CASE e \notin B
    <3>1. status'[e] = status[e] /\ attempts'[e] = attempts[e]
      BY <2>3 DEF ClaimRows
    <3>. QED
      BY <2>1, <3>1, FewerStale
  <2>. QED
    BY <2>2, <2>3
<1>6. ASSUME NEW w \in Workers, NEW f \in Events, CheckDuplicate(w, f) \/ StoreError(w, f)
      PROVE  AttemptsInvOf(e)'
  BY <1>6, FewerStale DEF CheckDuplicate, StoreError, Advance, rowVars, StaleRequeuers
<1>7. ASSUME NEW w \in Workers, NEW f \in Events, StartProcessing(w, f) \/ Heartbeat(w, f)
      PROVE  AttemptsInvOf(e)'
  BY <1>7, FewerStale DEF StartProcessing, Heartbeat, TouchRow, workerVars, StaleRequeuers
<1>8. ASSUME NEW w \in Workers, NEW f \in Events,
             RejectPayload(w, f) \/ FinishEvent(w, f) \/ CancelEvent(w, f)
      PROVE  AttemptsInvOf(e)'
  <2>1. StaleRequeuers(e)' \subseteq StaleRequeuers(e)
    BY <1>8 DEF RejectPayload, FinishEvent, CancelEvent, Advance, Stop, StaleRequeuers
  <2>2. \E outcome \in Settled : Release(f, outcome)
    BY <1>8 DEF RejectPayload, FinishEvent, CancelEvent, FinishRow, Settled
  <2>3. /\ attempts'[e] = attempts[e]
        /\ status'[e] \in {"absent", "queued"} => status[e] \in {"absent", "queued"}
    BY <2>2 DEF Release, Settled
  <2>. QED
    BY <2>1, <2>3, FewerStale
<1>9. ASSUME NEW w \in Workers, Crash(w) \/ Restart(w)
      PROVE  AttemptsInvOf(e)'
  BY <1>9, FewerStale DEF Crash, Restart, Stop, rowVars, StaleRequeuers
<1>10. CASE UNCHANGED vars
  BY <1>10, FewerStale DEF vars, rowVars, workerVars, StaleRequeuers
<1>. QED
  BY <1>1, <1>2, <1>3, <1>4, <1>5, <1>6, <1>7, <1>8, <1>9, <1>10
  DEF Next, WorkerStep, FaultStep

LEMMA AttemptsInvariant == Spec => []AttemptsInv
<1>1. Init => AttemptsInv
  <2>. SUFFICES ASSUME Init, NEW e \in Events
                PROVE  AttemptsInvOf(e)
    BY DEF AttemptsInv, AttemptsInvOf
  <2>1. StaleRequeuers(e) = {}
    BY DEF Init, StaleRequeuers
  <2>. QED
    BY <2>1, FS_EmptySet, CapRoom DEF Init, AttemptsInvOf
<1>2. TypeInv /\ AttemptsInv /\ [Next]_vars => AttemptsInv'
  BY AttemptsStep DEF AttemptsInv, AttemptsInvOf
<1>. QED
  BY <1>1, <1>2, TypeInvariant, PTL DEF Spec

(* No interleaving of sweeps and claims takes an event up more often than  *)
(* the attempt limit plus once for every other worker.                     *)
THEOREM AttemptsCorrect == Spec => []AttemptsBounded
<1>1. TypeInv /\ AttemptsInv => AttemptsBounded
  <2>. SUFFICES ASSUME TypeInv, AttemptsInv, NEW e \in Events
                PROVE  attempts[e] <= AttemptsCap
    BY DEF AttemptsBounded
  <2>1. Cardinality(StaleRequeuers(e)) \in Nat
    BY StaleFinite DEF StaleRequeuers
  <2>. QED
    BY <2>1, CapRoom DEF AttemptsInv, TypeInv, TypeOK
<1>. QED
  BY <1>1, AttemptsInvariant, TypeInvariant, PTL

-----------------------------------------------------------------------------
(* Order.  created_at numbers the known events; only an enqueue changes    *)
(* which events are known.                                                 *)

LEMMA KnownStep ==
  ASSUME TypeInv, OrderInv, [Next]_vars, ~ \E e \in Events : Enqueue(e)
  PROVE  Known' = Known /\ createdAt' = createdAt
<1>. USE DEF TypeInv, TypeOK, Known
<1>1. ASSUME NEW e \in Events, LeaseLapses(e) \/ \E w \in Workers : TouchRow(e, w)
      PROVE  Known' = Known /\ createdAt' = createdAt
  BY <1>1 DEF LeaseLapses, TouchRow
<1>2. ASSUME NEW e \in Known, NEW outcome, outcome # "absent", Release(e, outcome)
      PROVE  Known' = Known /\ createdAt' = createdAt
  BY <1>2 DEF Release
<1>3. ASSUME NEW w \in Workers, NEW B \in SUBSET Queued, ClaimRows(w, B)
      PROVE  Known' = Known /\ createdAt' = createdAt
  BY <1>3 DEF ClaimRows, Queued
<1>4. CASE UNCHANGED rowVars
  BY <1>4 DEF rowVars
<1>5. ASSUME NEW e \in Events, NEW w \in Workers, e \in batch[w]
      PROVE  e \in Known
  BY <1>5 DEF OrderInv
<1>6. ASSUME NEW e \in Events, status[e] = "running"
      PROVE  e \in Known
  BY <1>6
<1>. QED
  BY <1>1, <1>2, <1>3, <1>4, <1>5, <1>6, StepIsRowStep DEF RowStep, Settled

LEMMA BatchStep ==
  ASSUME TypeInv, OrderInv, [Next]_vars, NEW w \in Workers
  PROVE  batch'[w] \subseteq batch[w] \cup Queued
<1>. USE DEF TypeInv, TypeOK
<1>1. ASSUME NEW v \in Workers, NEW e \in Events, Advance(v, e)
      PROVE  batch'[w] \subseteq batch[w]
  BY <1>1 DEF Advance
<1>2. ASSUME NEW v \in Workers, Stop(v)
      PROVE  batch'[w] \subseteq batch[w]
  BY <1>2 DEF Stop
<1>3. ASSUME NEW v \in Workers, Claim(v)
      PROVE  batch'[w] \subseteq batch[w] \cup Queued
  BY <1>3 DEF Claim
<1>4. CASE UNCHANGED batch
  BY <1>4
<1>. QED
  BY <1>1, <1>2, <1>3, <1>4
  DEF Next, vars, workerVars, WorkerStep, FaultStep, Enqueue, LeaseLapses, ReadExpired,
      RequeueExpired, FailExpired, RejectPayload, CheckDuplicate, StartProcessing,
      Heartbeat, FinishEvent, Crash, Restart, CancelEvent, StoreError

LEMMA AttemptsMark ==
  ASSUME TypeInv, OrderInv, [Next]_vars, NEW e \in Events
  PROVE  /\ status'[e] = "running" => attempts'[e] > 0
         /\ status'[e] = "absent" => attempts'[e] = 0
         /\ attempts'[e] >= attempts[e]
<1>. DEFINE Goal == /\ status'[e] = "running" => attempts'[e] > 0
                    /\ status'[e] = "absent" => attempts'[e] = 0
                    /\ attempts'[e] >= attempts[e]
<1>. SUFFICES Goal
  OBVIOUS
<1>. USE DEF TypeInv, TypeOK, OrderInv
<1>1. ASSUME NEW f \in Events, Enqueue(f) \/ LeaseLapses(f) \/ \E w \in Workers : TouchRow(f, w)
      PROVE  Goal
  BY <1>1 DEF Enqueue, LeaseLapses, TouchRow
<1>2. ASSUME NEW f \in Events, NEW outcome, outcome \notin {"running", "absent"}, Release(f, outcome)
      PROVE  Goal
  BY <1>2 DEF Release
<1>3. ASSUME NEW w \in Workers, NEW B \in SUBSET Queued, ClaimRows(w, B)
      PROVE  Goal
  BY <1>3 DEF ClaimRows, Queued
<1>4. CASE UNCHANGED rowVars
  BY <1>4 DEF rowVars
<1>. QED
  BY <1>1, <1>2, <1>3, <1>4, StepIsRowStep DEF RowStep, Settled

LEMMA OrderInvariant == Spec => []OrderInv
<1>1. Init => OrderInv
  <2>. SUFFICES ASSUME Init PROVE OrderInv
    OBVIOUS
  <2>1. Known = {}
    BY DEF Init, Known
  <2>. QED
    BY <2>1, FS_EmptySet DEF Init, OrderInv
<1>2. TypeInv /\ OrderInv /\ [Next]_vars => OrderInv'
  <2>. SUFFICES ASSUME TypeInv, OrderInv, [Next]_vars
                PROVE  OrderInv'
    OBVIOUS
  <2>1. Known \subseteq Known' /\ IsFiniteSet(Known')
    <3>1. ASSUME NEW e \in Events, Enqueue(e)
          PROVE  Known \subseteq Known'
      BY <3>1 DEF Enqueue, Known, TypeInv, TypeOK
    <3>. QED
      BY <3>1, KnownStep, KnownFinite
  <2>2. /\ \A e \in Known' : createdAt'[e] \in 1..Cardinality(Known')
        /\ \A e, f \in Known' : createdAt'[e] = createdAt'[f] => e = f
    <3>1. ASSUME NEW e \in Events, Enqueue(e)
          PROVE  <2>2!1
      <4>1. Known' = Known \cup {e} /\ e \notin Known
        BY <3>1 DEF Enqueue, Known, TypeInv, TypeOK
      <4>2. Cardinality(Known') = Cardinality(Known) + 1 /\ Cardinality(Known) \in Nat
        BY <4>1, FS_AddElement, FS_CardinalityType DEF TypeInv
      <4>3. \A f \in Known : createdAt'[f] = createdAt[f]
        BY <3>1, <4>1 DEF Enqueue, Known, TypeInv, TypeOK
      <4>4. createdAt'[e] = Cardinality(Known) + 1
        BY <3>1 DEF Enqueue, TypeInv, TypeOK
      <4>5. \A f \in Known : createdAt[f] \in 1..Cardinality(Known)
        BY DEF OrderInv
      <4>. QED
        BY <4>1, <4>2, <4>3, <4>4, <4>5 DEF OrderInv
    <3>2. ASSUME NEW e \in Events, Enqueue(e)
          PROVE  <2>2!2
      <4>1. Known' = Known \cup {e} /\ e \notin Known
        BY <3>2 DEF Enqueue, Known, TypeInv, TypeOK
      <4>2. \A f \in Known : createdAt'[f] = createdAt[f] /\ createdAt[f] <= Cardinality(Known)
        BY <3>2, <4>1 DEF Enqueue, OrderInv, TypeInv, TypeOK, Known
      <4>3. createdAt'[e] = Cardinality(Known) + 1 /\ Cardinality(Known) \in Nat
        BY <3>2, FS_CardinalityType DEF Enqueue, TypeInv, TypeOK
      <4>4. \A f \in Known : createdAt'[f] \in Nat /\ createdAt'[f] # createdAt'[e]
        BY <4>2, <4>3 DEF TypeInv, TypeOK, Known
      <4>. QED
        BY <4>1, <4>2, <4>4 DEF OrderInv
    <3>3. CASE ~ \E e \in Events : Enqueue(e)
      BY <3>3, KnownStep DEF OrderInv
    <3>. QED
      BY <3>1, <3>2, <3>3
  <2>3. \A w \in Workers : batch'[w] \subseteq Known'
    <3>1. Queued \subseteq Known
      BY DEF Queued, Known
    <3>. QED
      BY <2>1, <3>1, BatchStep DEF OrderInv
  <2>. QED
    BY <2>1, <2>2, <2>3, AttemptsMark DEF OrderInv
<1>. QED
  BY <1>1, <1>2, TypeInvariant, PTL DEF Spec

(* An event is claimed for the first time only after every older one.      *)
THEOREM OldestFirstCorrect == Spec => []OldestFirst
<1>1. Init => OldestFirst
  BY DEF Init, OldestFirst
<1>2. TypeInv /\ OrderInv /\ OldestFirst /\ [Next]_vars => OldestFirst'
  <2>. SUFFICES ASSUME TypeInv, OrderInv, OldestFirst, [Next]_vars,
                       NEW e \in Events, NEW f \in Events,
                       status'[e] # "absent", status'[f] # "absent",
                       createdAt'[e] < createdAt'[f], attempts'[f] > 0
                PROVE  attempts'[e] > 0 \/ status'[e] \in Settled
    BY DEF OldestFirst
  <2>. USE DEF TypeInv, TypeOK
  <2>1. /\ attempts'[e] >= attempts[e] /\ attempts'[e] \in Nat
        /\ status[e] \in Settled => status'[e] \in Settled
    BY AttemptsMark, RowTypes, SettledStep
  <2>2. ASSUME NEW g \in Events, Enqueue(g)
        PROVE  attempts'[e] > 0 \/ status'[e] \in Settled
    <3>1. f # g /\ f \in Known
      BY <2>2 DEF Enqueue, OrderInv, Known
    <3>2. createdAt'[f] = createdAt[f] /\ createdAt[f] <= Cardinality(Known)
      BY <2>2, <3>1 DEF Enqueue, OrderInv
    <3>3. e # g
      <4>1. Cardinality(Known) \in Nat
        BY FS_CardinalityType
      <4>. QED
        BY <2>2, <3>2, <4>1 DEF Enqueue
    <3>. QED
      BY <2>1, <2>2, <3>1, <3>2, <3>3 DEF Enqueue, OldestFirst, Known
  <2>3. CASE ~ \E g \in Events : Enqueue(g)
    <3>1. e \in Known /\ f \in Known /\ createdAt[e] < createdAt[f]
      BY <2>3, KnownStep DEF Known
    <3>2. CASE attempts[f] > 0
      BY <2>1, <3>1, <3>2 DEF OldestFirst, Known
    <3>3. CASE ~ attempts[f] > 0
      <4>1. PICK w \in Workers, B \in SUBSET Queued : OldestQueued(B) /\ ClaimRows(w, B)
        <5>1. attempts'[f] # attempts[f]
          BY <3>3
        <5>. QED
          BY <2>3, <5>1, StepIsRowStep
          DEF RowStep, LeaseLapses, TouchRow, Release, rowVars
      <4>2. f \in B
        BY <3>3, <4>1 DEF ClaimRows
      <4>3. CASE status[e] = "queued"
        <5>1. e \in B
          BY <3>1, <4>1, <4>2, <4>3 DEF OldestQueued, Queued
        <5>. QED
          BY <4>1, <5>1 DEF ClaimRows
      <4>4. CASE status[e] # "queued"
        BY <2>1, <3>1, <4>4 DEF OrderInv, Known, Status, Settled
      <4>. QED
        BY <4>3, <4>4
    <3>. QED
      BY <3>2, <3>3
  <2>. QED
    BY <2>2, <2>3
<1>. QED
  BY <1>1, <1>2, TypeInvariant, OrderInvariant, PTL DEF Spec

-----------------------------------------------------------------------------
(* Runs.  Every start of processing uses up one claim.                     *)

RunsInvOf(e) == starts[e] + Cardinality(UnstartedHolders(e)) <= attempts[e]

LEMMA FewerHolders ==
  ASSUME TypeInv, [Next]_vars, NEW e \in Events, RunsInvOf(e),
         UnstartedHolders(e)' \subseteq UnstartedHolders(e),
         starts'[e] = starts[e], attempts'[e] >= attempts[e]
  PROVE  RunsInvOf(e)'
<1>1. UnstartedHolders(e) \in SUBSET Workers /\ UnstartedHolders(e)' \in SUBSET Workers
  BY DEF UnstartedHolders
<1>2. Cardinality(UnstartedHolders(e)') <= Cardinality(UnstartedHolders(e))
  BY <1>1, StaleFinite, FS_Subset
<1>. QED
  BY <1>1, <1>2, StaleFinite, RowTypes DEF RunsInvOf, TypeInv, TypeOK

LEMMA RunsStep ==
  ASSUME TypeInv, OrderInv, [Next]_vars, NEW e \in Events, RunsInvOf(e)
  PROVE  RunsInvOf(e)'
<1>. USE DEF TypeInv, TypeOK, Heartbeating, Current
<1>. DEFINE Holders == UnstartedHolders(e)
<1>0. /\ Holders \in SUBSET Workers
      /\ Holders' \in SUBSET Workers
      /\ attempts'[e] >= attempts[e]
      /\ attempts'[e] \in Nat
  BY AttemptsMark, RowTypes DEF UnstartedHolders
<1>1. ASSUME NEW g \in Events, Enqueue(g)
      PROVE  RunsInvOf(e)'
  <2>1. \A w \in Workers : \A f \in batch[w] : createdAt'[f] = createdAt[f]
    BY <1>1 DEF Enqueue, OrderInv, Known
  <2>2. Holders' \subseteq Holders
    BY <1>1, <2>1 DEF Enqueue, workerVars, UnstartedHolders
  <2>. QED
    BY <1>0, <1>1, <2>2, FewerHolders DEF Enqueue
<1>2. ASSUME NEW f \in Events, LeaseLapses(f) \/ \E w \in Workers : Heartbeat(w, f)
      PROVE  RunsInvOf(e)'
  <2>1. Holders' \subseteq Holders
    BY <1>2 DEF LeaseLapses, Heartbeat, TouchRow, workerVars, UnstartedHolders
  <2>. QED
    BY <1>0, <1>2, <2>1, FewerHolders DEF LeaseLapses, Heartbeat
<1>3. ASSUME NEW w \in Workers, NEW f \in Events, RequeueExpired(w, f) \/ FailExpired(w, f)
      PROVE  RunsInvOf(e)'
  <2>1. Holders' \subseteq Holders
    BY <1>3 DEF RequeueExpired, FailExpired, SweepRow, Release, rowVars, UnstartedHolders
  <2>. QED
    BY <1>0, <1>3, <2>1, FewerHolders DEF RequeueExpired, FailExpired
<1>4. ASSUME NEW w \in Workers, ReadExpired(w) \/ Restart(w) \/ Crash(w)
      PROVE  RunsInvOf(e)'
  <2>1. Holders' \subseteq Holders
    BY <1>4 DEF ReadExpired, Restart, Crash, Stop, rowVars, UnstartedHolders
  <2>. QED
    BY <1>0, <1>4, <2>1, FewerHolders DEF ReadExpired, Restart, Crash
<1>5. ASSUME NEW w \in Workers, Claim(w)
      PROVE  RunsInvOf(e)'
  <2>. PICK B \in SUBSET Queued : ClaimRows(w, B) /\ batch' = [batch EXCEPT ![w] = B]
    BY <1>5 DEF Claim
  <2>1. starts' = starts /\ createdAt' = createdAt
    BY <1>5 DEF Claim, ClaimRows
  <2>2. CASE e \in B
    <3>1. Holders' \subseteq Holders \cup {w}
      BY <1>5, <2>1 DEF Claim, UnstartedHolders
    <3>2. /\ IsFiniteSet(Holders \cup {w})
          /\ Cardinality(Holders \cup {w}) <= Cardinality(Holders) + 1
          /\ Cardinality(Holders \cup {w}) \in Nat
      <4>1. IsFiniteSet(Holders) /\ Cardinality(Holders) \in Nat
        BY <1>0, StaleFinite
      <4>2. /\ IsFiniteSet(Holders \cup {w})
            /\ Cardinality(Holders \cup {w})
                 = IF w \in Holders THEN Cardinality(Holders) ELSE Cardinality(Holders) + 1
        BY <4>1, FS_AddElement
      <4>. HIDE DEF Holders
      <4>. QED
        BY <4>1, <4>2
    <3>3. Cardinality(Holders') <= Cardinality(Holders \cup {w})
      BY <3>1, <3>2, FS_Subset
    <3>4. attempts'[e] = attempts[e] + 1
      BY <2>2 DEF ClaimRows
    <3>. QED
      BY <1>0, <2>1, <3>2, <3>3, <3>4, StaleFinite DEF RunsInvOf
  <2>3. CASE e \notin B
    <3>1. Holders' \subseteq Holders
      BY <1>5, <2>1, <2>3 DEF Claim, UnstartedHolders
    <3>. QED
      BY <1>0, <2>1, <3>1, FewerHolders
  <2>. QED
    BY <2>2, <2>3
<1>6. ASSUME NEW w \in Workers, NEW f \in Events, StartProcessing(w, f)
      PROVE  RunsInvOf(e)'
  <2>1. Holders' \subseteq Holders
    BY <1>6 DEF StartProcessing, TouchRow, UnstartedHolders
  <2>2. CASE f = e
    <3>1. w \in Holders /\ Holders' \subseteq Holders \ {w}
      BY <1>6, <2>1, <2>2 DEF StartProcessing, TouchRow, UnstartedHolders
    <3>2. /\ IsFiniteSet(Holders \ {w})
          /\ Cardinality(Holders \ {w}) = Cardinality(Holders) - 1
      BY <1>0, <3>1, StaleFinite, FS_RemoveElement
    <3>3. Cardinality(Holders') <= Cardinality(Holders) - 1
      BY <3>1, <3>2, FS_Subset
    <3>4. starts'[e] = starts[e] + 1 /\ attempts'[e] = attempts[e]
      BY <1>6, <2>2 DEF StartProcessing, TouchRow
    <3>. QED
      BY <1>0, <3>3, <3>4, StaleFinite DEF RunsInvOf
  <2>3. CASE f # e
    BY <1>0, <1>6, <2>1, <2>3, FewerHolders DEF StartProcessing
  <2>. QED
    BY <2>2, <2>3
<1>7. ASSUME NEW w \in Workers, NEW f \in Events, Current(w, f), Advance(w, f),
             createdAt' = createdAt, starts' = starts
      PROVE  RunsInvOf(e)'
  <2>1. ASSUME Heartbeating(w, e), e # f
        PROVE  FALSE
    <3>1. createdAt[e] = createdAt[f] /\ e \in Known /\ f \in Known
      BY <1>7, <2>1 DEF OrderInv, Known
    <3>. QED
      BY <2>1, <3>1 DEF OrderInv
  <2>2. Holders' \subseteq Holders
    BY <1>7, <2>1 DEF Advance, UnstartedHolders
  <2>. QED
    BY <1>0, <1>7, <2>2, FewerHolders
<1>8. ASSUME NEW w \in Workers, NEW f \in Events,
             RejectPayload(w, f) \/ FinishEvent(w, f) \/ StoreError(w, f)
      PROVE  RunsInvOf(e)'
  BY <1>7, <1>8
  DEF RejectPayload, FinishEvent, StoreError, InHand, FinishRow, Release, rowVars
<1>9. ASSUME NEW w \in Workers, NEW f \in Events, CheckDuplicate(w, f)
      PROVE  RunsInvOf(e)'
  <2>1. CASE Advance(w, f)
    BY <1>7, <1>9, <2>1 DEF CheckDuplicate, rowVars
  <2>2. CASE pc' = [pc EXCEPT ![w] = "touch"] /\ batch' = batch
    <3>1. Holders' \subseteq Holders
      BY <1>9, <2>2 DEF CheckDuplicate, rowVars, UnstartedHolders
    <3>. QED
      BY <1>0, <1>9, <3>1, FewerHolders DEF CheckDuplicate
  <2>. QED
    BY <1>9, <2>1, <2>2 DEF CheckDuplicate
<1>10. ASSUME NEW w \in Workers, NEW f \in Events, CancelEvent(w, f)
       PROVE  RunsInvOf(e)'
  <2>1. Holders' \subseteq Holders
    BY <1>10 DEF CancelEvent, Stop, FinishRow, Release, UnstartedHolders
  <2>. QED
    BY <1>0, <1>10, <2>1, FewerHolders DEF CancelEvent
<1>11. CASE UNCHANGED vars
  <2>1. Holders' \subseteq Holders
    BY <1>11 DEF vars, rowVars, workerVars, UnstartedHolders
  <2>. QED
    BY <1>0, <1>11, <2>1, FewerHolders DEF vars
<1>. QED
  BY <1>1, <1>2, <1>3, <1>4, <1>5, <1>6, <1>8, <1>9, <1>10, <1>11
  DEF Next, WorkerStep, FaultStep

(* The processing of an event is never started more often than it was      *)
(* claimed, so the bound on attempts bounds how often it is applied.       *)
THEOREM RunsCorrect == Spec => []RunsWithinAttempts
<1>1. Init => RunsInv
  <2>. SUFFICES ASSUME Init, NEW e \in Events
                PROVE  starts[e] + Cardinality(UnstartedHolders(e)) <= attempts[e]
    BY DEF RunsInv
  <2>1. UnstartedHolders(e) = {}
    BY DEF Init, UnstartedHolders
  <2>. QED
    BY <2>1, FS_EmptySet DEF Init
<1>2. TypeInv /\ OrderInv /\ RunsInv /\ [Next]_vars => RunsInv'
  BY RunsStep DEF RunsInv, RunsInvOf
<1>3. TypeInv /\ RunsInv => RunsWithinAttempts
  <2>. SUFFICES ASSUME TypeInv, RunsInv, NEW e \in Events
                PROVE  starts[e] <= attempts[e]
    BY DEF RunsWithinAttempts
  <2>1. Cardinality(UnstartedHolders(e)) \in Nat
    BY StaleFinite DEF UnstartedHolders
  <2>. QED
    BY <2>1 DEF RunsInv, TypeInv, TypeOK
<1>. QED
  BY <1>1, <1>2, <1>3, TypeInvariant, OrderInvariant, PTL DEF Spec

-----------------------------------------------------------------------------
(* Refinement: the queue implements the ledger.                            *)

(* The phase of a row changes exactly as its status does. *)
LEMMA Phases ==
  /\ PhaseOf("absent") = "unknown" /\ PhaseOf("queued") = "waiting"
  /\ PhaseOf("running") = "taken"
  /\ \A s \in Settled : PhaseOf(s) = "settled"
BY DEF PhaseOf, Settled

LEMMA LedgerInit == Init => Ledger!Init
<1>. SUFFICES ASSUME Init PROVE Ledger!Init
  OBVIOUS
<1>1. \A e \in Events : PhaseOf(status[e]) = "unknown"
  BY Phases DEF Init
<1>. QED
  BY <1>1 DEF Init, Ledger!Init

LEMMA ReleasePhase ==
  ASSUME TypeInv, NEW e \in Events, NEW outcome, Release(e, outcome)
  PROVE  /\ [f \in Events |-> PhaseOf(status[f])]'
              = [[f \in Events |-> PhaseOf(status[f])] EXCEPT ![e] = PhaseOf(outcome)]
         /\ attempts' = attempts
<1>1. \A f \in Events : status'[f] = IF f = e THEN outcome ELSE status[f]
  BY DEF Release, TypeInv, TypeOK
<1>2. \A f \in Events : PhaseOf(status'[f]) = IF f = e THEN PhaseOf(outcome) ELSE PhaseOf(status[f])
  BY <1>1
<1>. QED
  BY <1>2 DEF Release

LEMMA ClaimPhase ==
  ASSUME TypeInv, NEW w \in Workers, NEW B \in SUBSET Queued, ClaimRows(w, B)
  PROVE  [f \in Events |-> PhaseOf(status[f])]'
           = [f \in Events |-> IF f \in B THEN "taken" ELSE PhaseOf(status[f])]
<1>1. \A f \in Events : status'[f] = IF f \in B THEN "running" ELSE status[f]
  BY DEF ClaimRows
<1>2. \A f \in Events : PhaseOf(status'[f]) = IF f \in B THEN "taken" ELSE PhaseOf(status[f])
  BY <1>1, Phases
<1>. QED
  BY <1>2

LEMMA LedgerStep ==
  ASSUME TypeInv, OrderInv, AttemptsInv, [Next]_vars
  PROVE  [Ledger!Next]_Ledger!vars
<1>1. ASSUME NEW e \in Events, Enqueue(e)
      PROVE  Ledger!Accept(e)
  <2>1. \A f \in Events : PhaseOf(status'[f]) = IF f = e THEN "waiting" ELSE PhaseOf(status[f])
    BY <1>1, Phases DEF Enqueue, TypeInv, TypeOK
  <2>. QED
    BY <1>1, <2>1, Phases DEF Enqueue, Ledger!Accept
<1>2. ASSUME NEW e \in Events, LeaseLapses(e) \/ \E w \in Workers : TouchRow(e, w)
      PROVE  UNCHANGED Ledger!vars
  BY <1>2 DEF LeaseLapses, TouchRow, Ledger!vars
<1>3. ASSUME NEW e \in Events, NEW w \in Workers, NEW outcome \in Settled,
             e \in batch[w], Release(e, outcome)
      PROVE  Ledger!Settle(e) \/ UNCHANGED Ledger!vars
  <2>1. status[e] \in {"queued", "running"} \cup Settled
    BY <1>3 DEF OrderInv, Known, Status, TypeInv, TypeOK
  <2>2. CASE status[e] \in Settled
    <3>1. PhaseOf(outcome) = PhaseOf(status[e])
      BY <2>2, Phases
    <3>2. [f \in Events |-> PhaseOf(status[f])]' = [f \in Events |-> PhaseOf(status[f])]
      BY <1>3, <3>1, ReleasePhase
    <3>. QED
      BY <1>3, <3>2, ReleasePhase DEF Ledger!vars
  <2>3. CASE status[e] \in {"queued", "running"}
    BY <1>3, <2>3, ReleasePhase, Phases DEF Ledger!Settle
  <2>. QED
    BY <2>1, <2>2, <2>3
<1>4. ASSUME NEW e \in Events, status[e] = "running", Release(e, "queued")
      PROVE  Ledger!GiveBack(e)
  BY <1>4, ReleasePhase, Phases DEF Ledger!GiveBack
<1>5. ASSUME NEW e \in Events, status[e] = "running", Release(e, "failed")
      PROVE  Ledger!Settle(e)
  BY <1>5, ReleasePhase, Phases DEF Ledger!Settle, Settled
<1>6. ASSUME NEW w \in Workers, NEW B \in SUBSET Queued, ClaimRows(w, B)
      PROVE  B \in SUBSET Events /\ Ledger!Take(B)
  <2>1. B \in SUBSET Events /\ \A e \in B : status[e] = "queued"
    BY DEF Queued
  <2>2. \A e \in B : attempts[e] < AttemptsCap
    <3>. SUFFICES ASSUME NEW e \in B
                  PROVE  attempts[e] < AttemptsCap
      OBVIOUS
    <3>1. Cardinality(StaleRequeuers(e)) \in Nat
      BY StaleFinite DEF StaleRequeuers
    <3>. QED
      BY <2>1, <3>1, CapRoom DEF AttemptsInv, TypeInv, TypeOK
  <2>3. \A e \in B : PhaseOf(status[e]) = "waiting"
    BY <2>1, Phases
  <2>4. attempts' = [e \in Events |-> IF e \in B THEN attempts[e] + 1 ELSE attempts[e]]
    BY <1>6 DEF ClaimRows
  <2>. QED
    BY <1>6, <2>1, <2>2, <2>3, <2>4, ClaimPhase DEF Ledger!Take
<1>7. CASE UNCHANGED rowVars
  BY <1>7 DEF rowVars, Ledger!vars
<1>. SUFFICES ASSUME ~ UNCHANGED Ledger!vars PROVE Ledger!Next
  OBVIOUS
<1>8. CASE \E e \in Events : Enqueue(e)
  BY <1>1, <1>8 DEF Ledger!Next
<1>9. CASE \E w \in Workers, B \in SUBSET Queued : ClaimRows(w, B)
  BY <1>6, <1>9 DEF Ledger!Next
<1>10. CASE \E e \in Events : Ledger!Settle(e) \/ Ledger!GiveBack(e)
  BY <1>10 DEF Ledger!Next
<1>. QED
  BY <1>2, <1>3, <1>4, <1>5, <1>7, <1>8, <1>9, <1>10, StepIsRowStep DEF RowStep

(* Seen from outside, whatever the workers do to each other: an accepted   *)
(* event waits, is taken up at most AttemptsCap times and is settled once. *)
THEOREM Refinement == Spec => ImplementsLedger
BY LedgerInit, LedgerStep, TypeInvariant, OrderInvariant, AttemptsInvariant, PTL
DEF Spec, ImplementsLedger, Ledger!Spec

=============================================================================
