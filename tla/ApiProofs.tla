------------------------------ MODULE ApiProofs ------------------------------
(***************************************************************************)
(* Proofs about the two ways through the HTTP API.  From a change of a     *)
(* file to its document: the HTTP publisher and the intake that answers    *)
(* it, for every finite set of events, every batch size and every retry    *)
(* limit, whatever fails and however often; the processing of the events   *)
(* that arrive, for every set of files and of processors and every order   *)
(* of delivery.  And from a question to its answer: requests which share   *)
(* one server that holds one knowledge base at a time never get each       *)
(* other's rows, and a request whose knowledge base is left alone is       *)
(* answered from its present files, for any number of requests and of      *)
(* knowledge bases, any number of refreshes and any course of failures.    *)
(***************************************************************************)
EXTENDS OutboxHttp, ReadPath, WritePath, FiniteSetTheorems, TLAPS

-----------------------------------------------------------------------------
(* The publisher over HTTP and its requests.                               *)

(* The inductive invariant.                                                *)

AllReceived(S) == \A e \in S : Received(e)

(* A publisher that waits has posted all it still has to deal with; it     *)
(* marks only what the API has answered for.                               *)
AnswerInv ==
  /\ pc = "wait" =>
       /\ \A r \in requests : r.number = asked => todo \subseteq r.events
       /\ reply = "ok" => AllReceived(todo)
  /\ pc = "mark" => AllReceived(todo)

HttpInv ==
  /\ TypeOK /\ IsFiniteSet(requests)
  /\ AnswerInv /\ PublishedIsReceived /\ ReceivedOnce

-----------------------------------------------------------------------------
LEMMA BoundsType ==
  /\ MaxRetry \in Nat /\ MaxClock \in Nat
  /\ MaxErrors \in Nat /\ MaxStoreErrors \in Nat /\ MaxCrashes \in Nat
BY OutboxAssumption

(* There is a number for one more request.                                 *)
LEMMA FreshNumber ==
  ASSUME TypeOK, IsFiniteSet(requests)
  PROVE  \E n \in 1..Cardinality(requests) + 1 : Fresh(n)
<1>. DEFINE k == Cardinality(requests)
            N == {r.number : r \in requests}
            f == [r \in requests |-> r.number]
<1>1. k \in Nat
  BY FS_CardinalityType
<1>2. f \in Surjection(requests, N)
  BY DEF Surjection
<1>3. IsFiniteSet(N) /\ Cardinality(N) <= k
  BY <1>2, FS_Surjection
<1>4. IsFiniteSet(1..k + 1) /\ Cardinality(1..k + 1) = k + 1
  <2>. HIDE DEF k
  <2>1. 1 \in Int /\ k + 1 \in Int /\ ~ (1 > k + 1) /\ (k + 1) - 1 + 1 = k + 1
    BY <1>1
  <2>. QED
    BY <2>1, FS_Interval
<1>5. SUFFICES ASSUME \A n \in 1..k + 1 : ~ Fresh(n)
               PROVE  FALSE
  OBVIOUS
<1>6. 1..k + 1 \in SUBSET N
  BY <1>5 DEF Fresh
<1>7. Cardinality(1..k + 1) <= Cardinality(N)
  <2>. HIDE DEF k, N
  <2>. QED
    BY <1>3, <1>6, FS_Subset
<1>8. Cardinality(N) \in Nat
  <2>. HIDE DEF N
  <2>. QED
    BY <1>3, FS_CardinalityType
<1>. HIDE DEF k, N
<1>. QED
  BY <1>1, <1>3, <1>4, <1>7, <1>8

LEMMA InjectionIsOne ==
  ASSUME NEW S, NEW T, NEW f \in Injection(S, T)
  PROVE  \A x, y \in S : f[x] = f[y] => x = y
BY DEF Injection, IsInjective

(* The rows made of a set of events: one for each that had none.           *)
LEMMA RowsMade ==
  ASSUME TypeOK, NEW S \in SUBSET Events, NEW s \in Rows(S)
  PROVE  /\ s \in Seq(Events)
         /\ \A i \in DOMAIN s : ~ Received(s[i])
         /\ \A e \in S : Received(e) \/ \E i \in DOMAIN s : s[i] = e
         /\ \A i, j \in DOMAIN s : s[i] = s[j] => i = j
<1>. DEFINE new == {e \in S : ~ Received(e)}
            n   == Cardinality(new)
<1>1. IsFiniteSet(new) /\ n \in Nat
  <2>1. IsFiniteSet(Events) /\ new \in SUBSET Events
    BY HttpAssumption
  <2>. HIDE DEF new
  <2>. QED
    BY <2>1, FS_Subset, FS_CardinalityType
<1>2. s \in [1..n -> new] /\ \A e \in new : \E i \in 1..n : s[i] = e
  BY DEF Rows
<1>3. s \in Surjection(1..n, new)
  <2>. HIDE DEF new, n
  <2>. QED
    BY <1>2 DEF Surjection
<1>4. IsFiniteSet(1..n) /\ Cardinality(1..n) = n
  <2>. HIDE DEF n
  <2>1. 1 \in Int /\ n \in Int
    BY <1>1
  <2>2. IsFiniteSet(1..n) /\ Cardinality(1..n) = IF 1 > n THEN 0 ELSE n - 1 + 1
    BY <2>1, FS_Interval
  <2>. QED
    BY <1>1, <2>2
<1>5. s \in Injection(1..n, new)
  <2>1. Cardinality(1..n) = Cardinality(new)
    BY <1>4
  <2>. HIDE DEF new, n
  <2>. QED
    BY <1>3, <1>4, <2>1, FS_SurjSameCardinalityImpliesInj
<1>6. \A i, j \in 1..n : s[i] = s[j] => i = j
  <2>. HIDE DEF new, n
  <2>. QED
    BY <1>5, InjectionIsOne
<1>7. new \subseteq Events /\ \A e \in new : ~ Received(e)
  OBVIOUS
<1>8. \A e \in S : Received(e) \/ e \in new
  OBVIOUS
<1>. HIDE DEF new, n
<1>9. s \in Seq(new) /\ DOMAIN s = 1..n
  BY <1>1, <1>2
<1>. QED
  BY <1>2, <1>6, <1>7, <1>8, <1>9

(* Rows are added behind the others, for events that had none.             *)
AddRows(s) ==
  /\ s \in Seq(Events)
  /\ \A i \in DOMAIN s : ~ Received(s[i])
  /\ \A i, j \in DOMAIN s : s[i] = s[j] => i = j
  /\ received' = received \o s

LEMMA ConcatElements ==
  ASSUME NEW S, NEW s \in Seq(S), NEW t \in Seq(S)
  PROVE  /\ s \o t \in Seq(S)
         /\ \A i \in DOMAIN (s \o t) :
              \/ i \in DOMAIN s /\ (s \o t)[i] = s[i]
              \/ i - Len(s) \in DOMAIN t /\ (s \o t)[i] = t[i - Len(s)]
         /\ \A i \in DOMAIN s : i \in DOMAIN (s \o t) /\ (s \o t)[i] = s[i]
         /\ \A i \in DOMAIN t :
              i + Len(s) \in DOMAIN (s \o t) /\ (s \o t)[i + Len(s)] = t[i]
<1>1. Len(s) \in Nat /\ DOMAIN s = 1..Len(s) /\ Len(t) \in Nat /\ DOMAIN t = 1..Len(t)
  OBVIOUS
<1>2. s \o t \in Seq(S) /\ DOMAIN (s \o t) = 1..(Len(s) + Len(t))
  OBVIOUS
<1>3. \A i \in 1..(Len(s) + Len(t)) :
        (s \o t)[i] = IF i <= Len(s) THEN s[i] ELSE t[i - Len(s)]
  OBVIOUS
<1>. QED
  BY <1>1, <1>2, <1>3

LEMMA RowsAdded ==
  ASSUME TypeOK, ReceivedOnce, NEW s, AddRows(s)
  PROVE  /\ received' \in Seq(Events)
         /\ ReceivedOnce'
         /\ \A e : Received(e) => Received(e)'
         /\ \A e : (\E i \in DOMAIN s : s[i] = e) => Received(e)'
<1>1. received \in Seq(Events) /\ s \in Seq(Events) /\ received' = received \o s
  BY DEF TypeOK, OutboxTypeOK, AddRows
<1>2. received' \in Seq(Events)
  BY <1>1
<1>3. \A i \in DOMAIN received' :
        \/ i \in DOMAIN received /\ received'[i] = received[i]
        \/ i - Len(received) \in DOMAIN s /\ received'[i] = s[i - Len(received)]
  BY <1>1, ConcatElements
<1>4. \A i \in DOMAIN received : i \in DOMAIN received' /\ received'[i] = received[i]
  BY <1>1, ConcatElements
<1>5. \A i \in DOMAIN s : i + Len(received) \in DOMAIN received'
                          /\ received'[i + Len(received)] = s[i]
  BY <1>1, ConcatElements
<1>6. ReceivedOnce'
  <2>. SUFFICES ASSUME NEW i \in DOMAIN received', NEW j \in DOMAIN received',
                       received'[i] = received'[j]
                PROVE  i = j
    BY DEF ReceivedOnce
  <2>1. i \in Nat /\ j \in Nat /\ Len(received) \in Nat
    BY <1>1, <1>2
  <2>2. CASE i \in DOMAIN received /\ received'[i] = received[i]
    <3>1. j \in DOMAIN received /\ received'[j] = received[j]
      BY <1>3, <2>2 DEF AddRows, Received
    <3>. QED
      BY <2>2, <3>1 DEF ReceivedOnce
  <2>3. CASE i - Len(received) \in DOMAIN s /\ received'[i] = s[i - Len(received)]
    <3>1. j - Len(received) \in DOMAIN s /\ received'[j] = s[j - Len(received)]
      BY <1>3, <2>3 DEF AddRows, Received
    <3>2. i - Len(received) = j - Len(received)
      BY <2>3, <3>1 DEF AddRows
    <3>. QED
      BY <2>1, <3>2
  <2>. QED
    BY <1>3, <2>2, <2>3
<1>7. \A e : Received(e) => Received(e)'
  BY <1>4 DEF Received
<1>8. \A e : (\E i \in DOMAIN s : s[i] = e) => Received(e)'
  BY <1>5 DEF Received
<1>. QED
  BY <1>2, <1>6, <1>7, <1>8

-----------------------------------------------------------------------------
(* The steps of file_service leave the rows of rustfs_events alone.        *)

LEMMA HttpStart == Init => HttpInv
<1>. SUFFICES ASSUME Init
              PROVE  HttpInv
  OBVIOUS
<1>1. TypeOK
  BY BoundsType DEF Init, OutboxInit, TypeOK, OutboxTypeOK
<1>2. IsFiniteSet(requests)
  BY FS_EmptySet DEF Init
<1>3. AnswerInv
  BY DEF Init, OutboxInit, AnswerInv
<1>4. PublishedIsReceived /\ ReceivedOnce
  BY DEF Init, OutboxInit, PublishedIsReceived, ReceivedOnce
<1>. QED
  BY <1>1, <1>2, <1>3, <1>4 DEF HttpInv

LEMMA NothingReceived ==
  ASSUME HttpInv, received' = received, TypeOK', requests' = requests, AnswerInv',
         \A e \in Events : outbox'[e] = "published" => outbox[e] = "published" \/ Received(e)
  PROVE  HttpInv'
BY DEF HttpInv, PublishedIsReceived, ReceivedOnce, Received

(* What a row can be.                                                      *)
RowStatuses == {"absent", "pending", "sending", "published", "failed"}

LEMMA MarkFailedType ==
  ASSUME NEW e \in Events, outbox \in [Events -> RowStatuses], retries \in [Events -> Nat],
         MarkFailed(e)
  PROVE  /\ outbox' \in [Events -> RowStatuses]
         /\ retries' \in [Events -> Nat]
         /\ \A f \in Events : outbox'[f] = "published" => outbox[f] = "published"
BY DEF MarkFailed, RowStatuses

(* A step of file_service that touches no request, and after which nobody  *)
(* waits for an answer or marks, unless it did so before.                  *)
QuietStep ==
  \/ \E e \in Events : Store(e) \/ GiveUpNext(e)
  \/ Pass \/ Claim \/ PostFails \/ MarkingFails
  \/ PublisherDies \/ ServiceCrash \/ ServiceRestart
  \/ UNCHANGED vars

LEMMA QuietSteps ==
  ASSUME HttpInv, QuietStep
  PROVE  HttpInv'
<1>. USE BoundsType DEF HttpInv, TypeOK, OutboxTypeOK
<1>1. ASSUME NEW e \in Events, Store(e)
      PROVE  HttpInv'
  <2>1. TypeOK' /\ AnswerInv'
    BY <1>1 DEF Store, StoreEvent, publisherVars, faultVars, httpVars, AnswerInv, AllReceived,
                Received
  <2>2. \A f \in Events : outbox'[f] = "published" => outbox[f] = "published"
    BY <1>1 DEF Store, StoreEvent
  <2>. QED
    BY <1>1, <2>1, <2>2, NothingReceived DEF Store, StoreEvent, httpVars
<1>2. CASE Pass
  <2>1. TypeOK' /\ AnswerInv'
    BY <1>2 DEF Pass, Tick, rowVars, publisherVars, faultVars, httpVars, AnswerInv,
                AllReceived, Received
  <2>. QED
    BY <1>2, <2>1, NothingReceived DEF Pass, Tick, rowVars, httpVars
<1>3. CASE Claim
  <2>1. TypeOK' /\ AnswerInv'
    BY <1>3 DEF Claim, ClaimOutbox, Claimable, faultVars, httpVars, AnswerInv
  <2>2. \A f \in Events : outbox'[f] = "published" => outbox[f] = "published"
    BY <1>3 DEF Claim, ClaimOutbox
  <2>. QED
    BY <1>3, <2>1, <2>2, NothingReceived DEF Claim, ClaimOutbox, httpVars
<1>4. CASE PostFails \/ MarkingFails
  <2>1. /\ GiveUp /\ UNCHANGED <<rowVars, clock, received, httpVars>>
        /\ Error \/ StoreFails
    BY <1>4 DEF PostFails, MarkingFails
  <2>2. TypeOK' /\ AnswerInv'
    BY <2>1 DEF GiveUp, Error, StoreFails, rowVars, httpVars, AnswerInv
  <2>. QED
    BY <2>1, <2>2, NothingReceived DEF rowVars, httpVars
<1>5. ASSUME NEW e \in Events, GiveUpNext(e)
      PROVE  HttpInv'
  <2>1. /\ outbox' \in [Events -> RowStatuses] /\ retries' \in [Events -> Nat]
        /\ \A f \in Events : outbox'[f] = "published" => outbox[f] = "published"
    BY <1>5, MarkFailedType DEF GiveUpNext, MarkGivenUp, RowStatuses
  <2>2. /\ todo' \in SUBSET batch' /\ batch' \in SUBSET Events
        /\ pc' \in {"idle", "giveup"}
    BY <1>5 DEF GiveUpNext, MarkGivenUp, Finished
  <2>3. TypeOK'
    BY <1>5, <2>1, <2>2 DEF GiveUpNext, MarkGivenUp, MarkFailed, faultVars, httpVars, RowStatuses
  <2>4. AnswerInv'
    BY <2>2 DEF AnswerInv
  <2>. QED
    BY <1>5, <2>1, <2>3, <2>4, NothingReceived DEF GiveUpNext, MarkGivenUp, httpVars
<1>6. CASE PublisherDies
  <2>1. TypeOK' /\ AnswerInv'
    BY <1>6 DEF PublisherDies, TaskDies, StoreFails, rowVars, httpVars, AnswerInv
  <2>. QED
    BY <1>6, <2>1, NothingReceived DEF PublisherDies, TaskDies, rowVars, httpVars
<1>7. CASE ServiceCrash
  <2>1. TypeOK' /\ AnswerInv'
    BY <1>7 DEF ServiceCrash, Crash, rowVars, httpVars, AnswerInv
  <2>. QED
    BY <1>7, <2>1, NothingReceived DEF ServiceCrash, Crash, rowVars, httpVars
<1>8. CASE ServiceRestart
  <2>1. TypeOK' /\ AnswerInv'
    BY <1>8 DEF ServiceRestart, Restart, rowVars, faultVars, httpVars, AnswerInv
  <2>. QED
    BY <1>8, <2>1, NothingReceived DEF ServiceRestart, Restart, rowVars, httpVars
<1>9. CASE UNCHANGED vars
  <2>1. TypeOK' /\ AnswerInv'
    BY <1>9 DEF vars, outboxVars, rowVars, publisherVars, faultVars, httpVars, AnswerInv,
                AllReceived, Received
  <2>. QED
    BY <1>9, <2>1, NothingReceived DEF vars, outboxVars, rowVars, httpVars
<1>. QED
  BY <1>1, <1>2, <1>3, <1>4, <1>5, <1>6, <1>7, <1>8, <1>9 DEF QuietStep

-----------------------------------------------------------------------------
(* The publisher's own steps.                                              *)

(* No request under way has the number of the new one, so an answer that   *)
(* comes late is not taken for the answer to it.                           *)
LEMMA PostStep ==
  ASSUME HttpInv, Post
  PROVE  HttpInv'
<1>. DEFINE new == [number |-> asked', events |-> batch]
<1>1. /\ TypeOK /\ IsFiniteSet(requests) /\ PublishedIsReceived /\ ReceivedOnce
      /\ batch \in SUBSET Events /\ todo \subseteq batch
  BY DEF HttpInv, TypeOK, OutboxTypeOK
<1>2. Fresh(asked') /\ asked' \in Nat
  <2>1. \E n \in 1..Cardinality(requests) + 1 : Fresh(n)
    BY <1>1, FreshNumber
  <2>2. Fresh(CHOOSE n \in 1..Cardinality(requests) + 1 : Fresh(n))
    BY <2>1
  <2>3. Cardinality(requests) \in Nat
    BY <1>1, FS_CardinalityType
  <2>. QED
    BY <2>2, <2>3 DEF Fresh, Post
<1>3. /\ requests' = requests \cup {new} /\ reply' = "none" /\ pc' = "wait"
      /\ UNCHANGED <<rowVars, batch, todo, clock, received, faultVars>>
  BY DEF Post
<1>4. new \in [number : Nat, events : SUBSET Events]
  BY <1>1, <1>2
<1>5. new.number = asked' /\ new.events = batch
  OBVIOUS
<1>. HIDE DEF new
<1>6. \A r \in requests : r.number # asked'
  BY <1>2 DEF Fresh
<1>7. TypeOK'
  <2>1. OutboxTypeOK'
    BY <1>1, <1>3 DEF TypeOK, OutboxTypeOK, rowVars, faultVars
  <2>. QED
    BY <1>1, <1>2, <1>3, <1>4, <2>1 DEF TypeOK
<1>8. IsFiniteSet(requests')
  BY <1>1, <1>3, FS_AddElement
<1>9. AnswerInv'
  BY <1>1, <1>3, <1>5, <1>6 DEF AnswerInv
<1>. QED
  BY <1>1, <1>3, <1>7, <1>8, <1>9
     DEF HttpInv, PublishedIsReceived, ReceivedOnce, Received, rowVars

LEMMA TakeReplyStep ==
  ASSUME HttpInv, TakeReply
  PROVE  HttpInv'
<1>. USE DEF HttpInv, TypeOK, OutboxTypeOK, TakeReply
<1>1. TypeOK'
  BY DEF GiveUp, rowVars, faultVars, httpVars
<1>2. AnswerInv'
  BY DEF AnswerInv, GiveUp, AllReceived, Received
<1>. QED
  BY <1>1, <1>2, NothingReceived DEF rowVars, httpVars

LEMMA MarkNextStep ==
  ASSUME HttpInv, NEW e \in Events, MarkNext(e)
  PROVE  HttpInv'
<1>. USE DEF HttpInv, TypeOK, OutboxTypeOK, MarkNext
<1>1. /\ outbox' = [outbox EXCEPT ![e] = "published"] /\ UNCHANGED <<retries, stamp>>
      /\ pc = "mark" /\ e \in todo
  BY DEF MarkSuccess, Foremost
<1>2. /\ todo' \in SUBSET batch' /\ batch' \in SUBSET Events /\ todo' \subseteq todo
      /\ pc' \in {"idle", "mark"}
  BY DEF Finished
<1>3. TypeOK'
  BY <1>1, <1>2 DEF faultVars, httpVars
<1>4. AnswerInv'
  BY <1>1, <1>2 DEF AnswerInv, AllReceived, Received
<1>5. \A f \in Events : outbox'[f] = "published" => outbox[f] = "published" \/ Received(f)
  BY <1>1 DEF AnswerInv, AllReceived
<1>. QED
  BY <1>3, <1>4, <1>5, NothingReceived DEF httpVars

-----------------------------------------------------------------------------
(* The API's steps.  The answer "ok" to the request the publisher waits    *)
(* for says that the request's events, all it still has to deal with, have *)
(* rows.                                                                   *)

LEMMA AnswerStep ==
  ASSUME HttpInv, NEW r \in requests, NEW s, AddRows(s), NEW answer \in {"ok", "error"},
         Reply(r, answer), UNCHANGED <<rowVars, publisherVars, clock>>,
         errors' \in 0..MaxErrors, UNCHANGED <<storeErrors, crashes>>,
         answer = "ok" => \A e \in r.events : Received(e)'
  PROVE  HttpInv'
<1>. USE DEF HttpInv
<1>1. /\ received' \in Seq(Events) /\ ReceivedOnce'
      /\ \A e : Received(e) => Received(e)'
  BY RowsAdded
<1>2. /\ UNCHANGED <<outbox, retries, stamp, pc, batch, todo, clock, storeErrors, crashes, asked>>
      /\ requests' = requests \ {r}
      /\ reply' = IF pc = "wait" /\ r.number = asked THEN answer ELSE reply
  BY DEF rowVars, publisherVars, Reply
<1>3. TypeOK'
  BY <1>1, <1>2 DEF TypeOK, OutboxTypeOK
<1>4. IsFiniteSet(requests')
  BY <1>2, FS_RemoveElement
<1>5. PublishedIsReceived'
  BY <1>1, <1>2 DEF PublishedIsReceived
<1>6. AnswerInv'
  <2>1. pc = "wait" => \A q \in requests' : q.number = asked' => todo' \subseteq q.events
    BY <1>2 DEF AnswerInv
  <2>2. ASSUME pc = "wait", reply' = "ok", NEW e \in todo
        PROVE  Received(e)'
    <3>1. CASE r.number = asked
      BY <1>2, <2>2, <3>1 DEF AnswerInv
    <3>2. CASE r.number # asked
      BY <1>1, <1>2, <2>2, <3>2 DEF AnswerInv, AllReceived
    <3>. QED
      BY <3>1, <3>2
  <2>3. pc = "mark" => \A e \in todo : Received(e)'
    BY <1>1 DEF AnswerInv, AllReceived
  <2>. QED
    BY <1>2, <2>1, <2>2, <2>3 DEF AnswerInv, AllReceived
<1>. QED
  BY <1>1, <1>3, <1>4, <1>5, <1>6

LEMMA ServeStep ==
  ASSUME HttpInv, NEW r \in requests, Serve(r)
  PROVE  HttpInv'
<1>1. r.events \in SUBSET Events /\ TypeOK /\ ReceivedOnce
  BY DEF HttpInv, TypeOK
<1>2. PICK s \in Rows(r.events) : received' = received \o s
  BY DEF Serve
<1>3. AddRows(s) /\ \A e \in r.events : Received(e) \/ \E i \in DOMAIN s : s[i] = e
  BY <1>1, <1>2, RowsMade DEF AddRows
<1>4. \A e \in r.events : Received(e)'
  BY <1>1, <1>3, RowsAdded
<1>5. /\ Reply(r, "ok") /\ UNCHANGED <<rowVars, publisherVars, clock>>
      /\ errors' \in 0..MaxErrors /\ UNCHANGED <<storeErrors, crashes>>
  BY <1>1 DEF Serve, faultVars, TypeOK, OutboxTypeOK
<1>. QED
  BY <1>3, <1>4, <1>5, AnswerStep

LEMMA ServeFailsStep ==
  ASSUME HttpInv, NEW r \in requests, ServeFails(r)
  PROVE  HttpInv'
<1>1. r.events \in SUBSET Events /\ TypeOK
  BY DEF HttpInv, TypeOK
<1>2. PICK S \in SUBSET r.events : \E s \in Rows(S) : received' = received \o s
  BY DEF ServeFails
<1>3. PICK s \in Rows(S) : received' = received \o s
  BY <1>2
<1>4. AddRows(s)
  BY <1>1, <1>2, <1>3, RowsMade DEF AddRows
<1>5. /\ Reply(r, "error") /\ UNCHANGED <<rowVars, publisherVars, clock>>
      /\ errors' \in 0..MaxErrors /\ UNCHANGED <<storeErrors, crashes>>
  BY <1>1, BoundsType DEF ServeFails, TypeOK, OutboxTypeOK
<1>. QED
  BY <1>4, <1>5, AnswerStep

LEMMA HttpStep ==
  ASSUME HttpInv, [Next]_vars
  PROVE  HttpInv'
BY QuietSteps, PostStep, TakeReplyStep, MarkNextStep, ServeStep, ServeFailsStep
   DEF Next, PublisherStep, QuietStep

LEMMA HttpAlways == Spec => []HttpInv
BY HttpStart, HttpStep, PTL DEF Spec

-----------------------------------------------------------------------------
(* The variables keep their types: table, publisher and requests are       *)
(* always in a state the code knows.                                       *)
THEOREM HttpTypeCorrect == Spec => []TypeOK
<1>1. HttpInv => TypeOK
  BY DEF HttpInv
<1>. QED
  BY <1>1, HttpAlways, PTL

(* What is marked published has its row in rustfs_events, although a       *)
(* request may be served halfway, after its timeout or twice.              *)
THEOREM HttpPublishedCorrect == Spec => []PublishedIsReceived
<1>1. HttpInv => PublishedIsReceived
  BY DEF HttpInv
<1>. QED
  BY <1>1, HttpAlways, PTL

(* However often an event is posted, rustfs_events has one row for it.     *)
THEOREM HttpReceivedOnceCorrect == Spec => []ReceivedOnce
<1>1. HttpInv => ReceivedOnce
  BY DEF HttpInv
<1>. QED
  BY <1>1, HttpAlways, PTL

-----------------------------------------------------------------------------
(* The events that arrive, and the documents.                              *)

(* FollowsTheFile is not inductive: what a job is about to write depends   *)
(* on what it has read and on who else has changed the file since.         *)
LoggedEvents == [of : Sources, type : {"created", "updated", "deleted"}, ver : Numbers]

(* Rows, files and jobs name only events that the log has.                 *)
EventsThere ==
  /\ \A n \in Numbers : phase[n] # "none" => n <= Len(log)
  /\ \A f \in Sources : source[f].ver <= Len(log) /\ (source[f].status = "active" => source[f].ver > 0)
  /\ \A p \in Processors : job[p].pc # "idle" => job[p].n \in 1..Len(log)

(* p is at work on f.                                                      *)
Works(p, f) == job[p].pc # "idle" /\ log[job[p].n].of = f

(* A job is on the path its event's type asks for.                         *)
RightEvent(p) ==
  /\ job[p].pc \in {"fetch", "check", "build", "index"} => log[job[p].n].type # "deleted"
  /\ job[p].pc \in {"look", "erase", "done"} => log[job[p].n].type = "deleted"

(* The document is the file as it is now.                                  *)
Follows(f) ==
  IF source[f].status = "active"
  THEN doc[f] = [status |-> "active", ver |-> source[f].ver]
  ELSE doc[f].status # "active"

(* What a job that has run on its own since it took its event up, with no  *)
(* change of the file, knows: the file is still as it was fetched, and     *)
(* what it has written is still there.                                     *)
LoneFits(p) ==
  job[p].pc # "idle" /\ job[p].alone =>
    /\ \A q \in Processors \ {p} : ~Works(q, Of(p))
    /\ job[p].pc \in {"check", "build", "index"} =>
         source[Of(p)] = [status |-> "active", ver |-> job[p].ver]
    /\ job[p].pc = "index" => doc[Of(p)] = [status |-> "active", ver |-> job[p].ver]
    /\ job[p].pc = "done" => doc[Of(p)].status # "active"

(* A settled file has the right document, unless a job has just written it *)
(* and has not ended: the end of that job decides whether it is settled.   *)
SettledFits(f) ==
  f \in settled /\ (\A p \in Processors : Works(p, f) => job[p].pc \notin {"index", "done"})
    => Follows(f)

WriteInv ==
  /\ WriteTypeOK /\ EventsThere
  /\ \A p \in Processors : RightEvent(p) /\ LoneFits(p)
  /\ \A f \in Sources : SettledFits(f)

Phases == {"none", "sent", "queued", "running", "success", "failed"}
Jobs   == [n : 0..MaxLog, ver : 0..MaxLog, alone : BOOLEAN,
           pc : {"idle", "fetch", "check", "build", "index", "look", "erase", "done"}]

LEMMA WriteStart == WriteInit => WriteInv
<1> SUFFICES ASSUME WriteInit PROVE WriteInv
  OBVIOUS
<1> USE WriteAssumption DEF WriteInit, Blank, NoJob
<1>1. \A p \in Processors : job[p].pc = "idle" OBVIOUS
<1>2. WriteTypeOK
  <2>1. source \in [Sources -> [status : {"none", "active", "deleted"}, ver : 0..MaxLog]]
    OBVIOUS
  <2>2. doc \in [Sources -> [status : Statuses, ver : 0..MaxLog]] BY DEF Statuses
  <2>3. job \in [Processors -> Jobs] BY DEF Jobs
  <2>4. log \in Seq(LoggedEvents) /\ Len(log) = 0 OBVIOUS
  <2>5. phase \in [Numbers -> Phases] /\ base \in BOOLEAN /\ upsets \in 0..MaxUpsets
    <3>1. upsets = 0 /\ 0 \in 0..MaxUpsets BY WriteAssumption
    <3>2. phase \in [Numbers -> Phases] BY DEF Phases
    <3> QED BY <3>1, <3>2
  <2>6. settled \subseteq Sources OBVIOUS
  <2> QED BY <2>1, <2>2, <2>3, <2>4, <2>5, <2>6 DEF WriteTypeOK, Jobs, Phases, LoggedEvents
<1>3. EventsThere BY DEF EventsThere
<1>4. \A p \in Processors : RightEvent(p) /\ LoneFits(p) BY <1>1 DEF RightEvent, LoneFits
<1>5. \A f \in Sources : SettledFits(f) BY DEF SettledFits
<1> QED BY <1>2, <1>3, <1>4, <1>5 DEF WriteInv

(* The log only grows, so that a job's event stays what it was.            *)
LEMMA LogGrows ==
  ASSUME WriteInv, Len(log) < MaxLog, NEW e \in LoggedEvents, log' = Append(log, e)
  PROVE  /\ log' \in Seq(LoggedEvents) /\ Len(log') = Len(log) + 1 /\ Len(log') <= MaxLog
         /\ Len(log) \in Nat /\ log'[Len(log) + 1] = e
         /\ \A n \in 1..Len(log) : log'[n] = log[n]
<1>1. log \in Seq(LoggedEvents) BY DEF WriteInv, WriteTypeOK, LoggedEvents
<1>2. Len(log) \in Nat /\ MaxLog \in Nat BY <1>1, WriteAssumption
<1> QED BY <1>1, <1>2

(* A job that is at work has an event, of one of the files.                *)
LEMMA WorksOn ==
  ASSUME WriteInv, NEW p \in Processors, job[p].pc # "idle"
  PROVE  /\ job[p].n \in Numbers /\ job[p].n \in 1..Len(log) /\ log[job[p].n] \in LoggedEvents
         /\ Of(p) \in Sources
<1>1. job[p].n \in 1..Len(log) BY DEF WriteInv, EventsThere
<1>2. log \in Seq(LoggedEvents) /\ Len(log) <= MaxLog BY DEF WriteInv, WriteTypeOK, LoggedEvents
<1>3. Len(log) \in Nat /\ MaxLog \in Nat BY <1>2, WriteAssumption
<1>4. log[job[p].n] \in LoggedEvents BY <1>1, <1>2
<1> QED BY <1>1, <1>2, <1>3, <1>4 DEF Numbers, Of, LoggedEvents

-----------------------------------------------------------------------------
(* A change of a file, with its event.                                     *)
LEMMA RecordKeeps ==
  ASSUME WriteInv, NEW f \in Sources, NEW type \in {"created", "updated", "deleted"},
         NEW ver \in Numbers, Record(f, type, ver),
         NEW new \in [status : {"none", "active", "deleted"}, ver : 0..MaxLog],
         new.ver <= Len(log) + 1, new.status = "active" => new.ver > 0,
         source' = [source EXCEPT ![f] = new],
         settled' \subseteq settled, f \in settled' => new = source[f]
  PROVE  WriteInv'
<1>1. WriteTypeOK /\ EventsThere BY DEF WriteInv
<1> DEFINE e == [of |-> f, type |-> type, ver |-> ver]
<1>2. /\ Len(log) < MaxLog /\ log' = Append(log, e) /\ UNCHANGED <<base, doc, upsets>>
      /\ phase' = [phase EXCEPT ![Len(log) + 1] = "sent"]
      /\ job' = [p \in Processors |-> IF p \in Busy(f) THEN [job[p] EXCEPT !.alone = FALSE]
                                      ELSE job[p]]
  BY DEF Record
<1>3. e \in LoggedEvents BY DEF LoggedEvents
<1> HIDE DEF e
<1>4. /\ log' \in Seq(LoggedEvents) /\ Len(log') = Len(log) + 1 /\ Len(log') <= MaxLog
      /\ Len(log) \in Nat /\ log'[Len(log) + 1] = e /\ \A n \in 1..Len(log) : log'[n] = log[n]
  BY <1>2, <1>3, LogGrows
<1>5. /\ job' \in [Processors -> Jobs]
      /\ \A p \in Processors :
           /\ job'[p].pc = job[p].pc /\ job'[p].n = job[p].n /\ job'[p].ver = job[p].ver
           /\ job'[p].alone => job[p].alone
           /\ job[p].pc # "idle" /\ Of(p) = f => ~job'[p].alone
  <2>1. job \in [Processors -> Jobs] BY <1>1 DEF WriteTypeOK, Jobs
  <2>2. ASSUME NEW p \in Processors
        PROVE  /\ job'[p] \in Jobs
               /\ job'[p].pc = job[p].pc /\ job'[p].n = job[p].n /\ job'[p].ver = job[p].ver
               /\ job'[p].alone => job[p].alone
               /\ job[p].pc # "idle" /\ Of(p) = f => ~job'[p].alone
    <3>1. job[p] \in Jobs BY <2>1
    <3>2. CASE p \in Busy(f)
      <4>1. job'[p] = [job[p] EXCEPT !.alone = FALSE] BY <1>2, <3>2
      <4> QED BY <3>1, <4>1 DEF Jobs
    <3>3. CASE p \notin Busy(f)
      <4>1. job'[p] = job[p] BY <1>2, <3>3
      <4> QED BY <3>1, <3>3, <4>1 DEF Busy, Of
    <3> QED BY <3>2, <3>3
  <2>3. job' = [p \in Processors |-> job'[p]] BY <1>2
  <2> QED BY <2>2, <2>3
<1>6. /\ source' \in [Sources -> [status : {"none", "active", "deleted"}, ver : 0..MaxLog]]
      /\ \A g \in Sources : source'[g] = IF g = f THEN new ELSE source[g]
  BY <1>1 DEF WriteTypeOK
<1>7. \A p \in Processors : job[p].pc # "idle" =>
        log'[job'[p].n] = log[job[p].n] /\ Of(p)' = Of(p) /\ Of(p) \in Sources
  BY <1>4, <1>5, WorksOn DEF Of
<1>8. \A p \in Processors, g \in Sources : Works(p, g)' <=> Works(p, g)
  BY <1>5, <1>7 DEF Works
<1>9. WriteTypeOK'
  <2>1. phase' \in [Numbers -> Phases]
    BY <1>1, <1>2 DEF WriteTypeOK, Phases
  <2>2. settled' \subseteq Sources BY <1>1 DEF WriteTypeOK
  <2> QED BY <1>1, <1>2, <1>4, <1>5, <1>6, <2>1, <2>2
      DEF WriteTypeOK, Phases, Jobs, LoggedEvents, Numbers, Statuses
<1>10. EventsThere'
  <2>1. \A n \in Numbers : phase'[n] # "none" => n <= Len(log')
    <3>1. \A n \in Numbers : phase'[n] = IF n = Len(log) + 1 THEN "sent" ELSE phase[n]
      BY <1>1, <1>2 DEF WriteTypeOK
    <3> QED BY <1>1, <1>4, <3>1 DEF EventsThere, Numbers
  <2>2. \A g \in Sources : source'[g].ver <= Len(log') /\ (source'[g].status = "active" => source'[g].ver > 0)
    <3>1. \A g \in Sources : source[g].ver \in 0..MaxLog BY <1>1 DEF WriteTypeOK
    <3> QED BY <1>1, <1>4, <1>6, <3>1, WriteAssumption DEF EventsThere
  <2>3. \A p \in Processors : job'[p].pc # "idle" => job'[p].n \in 1..Len(log')
    BY <1>1, <1>4, <1>5 DEF EventsThere
  <2> QED BY <2>1, <2>2, <2>3 DEF EventsThere
<1>11. ASSUME NEW p \in Processors PROVE RightEvent(p)' /\ LoneFits(p)'
  <2>1. RightEvent(p) /\ LoneFits(p) BY DEF WriteInv
  <2>2. RightEvent(p)' BY <1>5, <1>7, <2>1 DEF RightEvent
  <2>3. ASSUME job'[p].pc # "idle", job'[p].alone PROVE LoneFits(p)'
    <3>1. job[p].pc # "idle" /\ job[p].alone /\ Of(p) # f /\ Of(p)' = Of(p) /\ Of(p) \in Sources
      BY <1>5, <1>7, <2>3
    <3>2. source'[Of(p)] = source[Of(p)] BY <1>6, <3>1
    <3>3. \A q \in Processors \ {p} : ~Works(q, Of(p))' BY <1>8, <2>1, <3>1 DEF LoneFits
    <3> QED BY <1>2, <1>5, <2>1, <3>1, <3>2, <3>3 DEF LoneFits, Works
  <2> QED BY <2>2, <2>3 DEF LoneFits
<1>12. ASSUME NEW g \in Sources PROVE SettledFits(g)'
  <2>1. SettledFits(g) BY DEF WriteInv
  <2>2. g \in settled' => source'[g] = source[g] /\ g \in settled BY <1>6
  <2> QED BY <1>2, <1>5, <1>8, <2>1, <2>2 DEF SettledFits, Follows
<1> QED BY <1>9, <1>10, <1>11, <1>12 DEF WriteInv

LEMMA ChangeKeeps ==
  ASSUME WriteInv, NEW f \in Sources, Create(f) \/ Replace(f) \/ Revive(f) \/ Remove(f) \/ Patch(f)
  PROVE  WriteInv'
<1>1. /\ source \in [Sources -> [status : {"none", "active", "deleted"}, ver : 0..MaxLog]]
      /\ source[f].ver <= Len(log) /\ (source[f].status = "active" => source[f].ver > 0)
      /\ log \in Seq(LoggedEvents) /\ Len(log) \in Nat /\ MaxLog \in Nat
  BY WriteAssumption DEF WriteInv, WriteTypeOK, EventsThere, LoggedEvents
<1>2. source[f] \in [status : {"none", "active", "deleted"}, ver : 0..MaxLog] BY <1>1
<1>3. ASSUME NEW type \in {"created", "updated"}, NewVersion(f, type) PROVE WriteInv'
  <2> DEFINE ver == source[f].ver + 1
             new == [status |-> "active", ver |-> ver]
  <2>1. /\ Record(f, type, ver) /\ source' = [source EXCEPT ![f] = new] /\ settled' = settled \ {f}
    BY <1>3 DEF NewVersion
  <2>2. Len(log) < MaxLog BY <2>1 DEF Record
  <2>3. ver \in Numbers /\ ver <= Len(log) + 1 BY <1>1, <1>2, <2>2 DEF Numbers
  <2>4. new \in [status : {"none", "active", "deleted"}, ver : 0..MaxLog]
    BY <2>3 DEF Numbers
  <2>5. new.ver <= Len(log) + 1 /\ (new.status = "active" => new.ver > 0)
    BY <2>3 DEF Numbers
  <2> HIDE DEF new
  <2> QED BY <2>1, <2>3, <2>4, <2>5, RecordKeeps
<1>4. CASE Remove(f)
  <2> DEFINE new == [source[f] EXCEPT !.status = "deleted"]
  <2>1. /\ Record(f, "deleted", source[f].ver) /\ source' = [source EXCEPT ![f] = new]
        /\ settled' = settled \ {f} /\ source[f].status = "active"
    BY <1>1, <1>4 DEF Remove
  <2>2. new \in [status : {"none", "active", "deleted"}, ver : 0..MaxLog] /\ new.status = "deleted"
        /\ new.ver = source[f].ver
    BY <1>2
  <2>3. source[f].ver \in Numbers BY <1>1, <1>2, <2>1 DEF Numbers
  <2>4. new.ver <= Len(log) + 1 BY <1>1, <2>2, <2>3 DEF Numbers
  <2> HIDE DEF new
  <2> QED BY <2>1, <2>2, <2>3, <2>4, RecordKeeps
<1>5. CASE Patch(f)
  <2>1. Record(f, "updated", source[f].ver) /\ UNCHANGED <<source, settled>> /\ source[f].status = "active"
    BY <1>5 DEF Patch
  <2>2. source' = [source EXCEPT ![f] = source[f]] BY <1>1, <2>1
  <2>3. source[f].ver \in Numbers BY <1>1, <1>2, <2>1 DEF Numbers
  <2>4. source[f].ver <= Len(log) + 1 BY <1>1, <2>3 DEF Numbers
  <2> QED BY <1>1, <1>2, <2>1, <2>2, <2>3, <2>4, RecordKeeps
<1> QED BY <1>3, <1>4, <1>5 DEF Create, Replace, Revive

-----------------------------------------------------------------------------
(* A processor takes up an event.                                          *)
LEMMA TakesKeeps ==
  ASSUME WriteInv, NEW p \in Processors, Idling(p),
         log' \in Seq(LoggedEvents), Len(log) <= Len(log'), Len(log') <= MaxLog,
         \A i \in 1..Len(log) : log'[i] = log[i],
         NEW n \in 1..Len(log'), Takes(p, n, log'[n]),
         phase' \in [Numbers -> Phases], \A i \in Numbers : phase'[i] # "none" => i <= Len(log'),
         upsets' \in 0..MaxUpsets
  PROVE  WriteInv'
<1>1. WriteTypeOK /\ EventsThere BY DEF WriteInv
<1>2. /\ job[p].pc = "idle" /\ UNCHANGED <<source, base, doc, settled>> BY DEF Idling
<1>3. /\ Len(log) \in Nat /\ Len(log') \in Nat /\ MaxLog \in Nat /\ n \in Numbers
  <2>1. log \in Seq(LoggedEvents) BY <1>1 DEF WriteTypeOK, LoggedEvents
  <2>2. Len(log) \in Nat /\ Len(log') \in Nat /\ MaxLog \in Nat BY <2>1, WriteAssumption
  <2> QED BY <2>2 DEF Numbers
<1> DEFINE e == log'[n]
           f == e.of
           new == [n |-> n, ver |-> 0, alone |-> Busy(f) = {},
                   pc |-> IF e.type = "deleted" THEN "look" ELSE "fetch"]
<1>4. e \in LoggedEvents /\ f \in Sources
  <2>1. e \in LoggedEvents OBVIOUS
  <2> QED BY <2>1 DEF LoggedEvents
<1>5. job' = [q \in Processors |-> IF q = p THEN new
                                   ELSE IF q \in Busy(f) THEN [job[q] EXCEPT !.alone = FALSE]
                                   ELSE job[q]]
  BY DEF Takes
<1>6. job'[p] = new /\ new \in Jobs /\ new.n = n /\ new.pc \in {"look", "fetch"}
      /\ (new.pc = "look" <=> e.type = "deleted") /\ (new.alone <=> Busy(f) = {})
  <2>1. new \in Jobs BY <1>3 DEF Jobs, Numbers
  <2> QED BY <1>5, <2>1
<1> HIDE DEF new, e, f
<1>7. ASSUME NEW q \in Processors \ {p}
      PROVE  /\ job'[q] \in Jobs
             /\ job'[q].pc = job[q].pc /\ job'[q].n = job[q].n /\ job'[q].ver = job[q].ver
             /\ job'[q].alone => job[q].alone
             /\ job[q].pc # "idle" /\ Of(q) = f => ~job'[q].alone
  <2>1. job[q] \in Jobs BY <1>1 DEF WriteTypeOK, Jobs
  <2>2. CASE q \in Busy(f)
    <3>1. job'[q] = [job[q] EXCEPT !.alone = FALSE] BY <1>5, <2>2
    <3> QED BY <2>1, <3>1 DEF Jobs
  <2>3. CASE q \notin Busy(f)
    <3>1. job'[q] = job[q] BY <1>5, <2>3
    <3> QED BY <2>1, <2>3, <3>1 DEF Busy, Of
  <2> QED BY <2>2, <2>3
<1>8. job' \in [Processors -> Jobs]
  <2>1. \A q \in Processors : job'[q] \in Jobs BY <1>6, <1>7
  <2>2. job' = [q \in Processors |-> job'[q]] BY <1>5
  <2> QED BY <2>1, <2>2
<1>9. \A q \in Processors \ {p} : job[q].pc # "idle" =>
        log'[job'[q].n] = log[job[q].n] /\ Of(q)' = Of(q) /\ Of(q) \in Sources
  BY <1>7, WorksOn DEF Of
<1>10. \A q \in Processors \ {p}, g \in Sources : Works(q, g)' <=> Works(q, g)
  BY <1>7, <1>9 DEF Works
<1>11. Of(p)' = f /\ \A g \in Sources : Works(p, g)' <=> g = f
  BY <1>6 DEF Works, Of, f, e
<1>12. WriteTypeOK'
  BY <1>1, <1>2, <1>8 DEF WriteTypeOK, Phases, Jobs, LoggedEvents, Numbers, Statuses
<1>13. EventsThere'
  <2>1. \A g \in Sources : source'[g].ver <= Len(log') /\ (source'[g].status = "active" => source'[g].ver > 0)
    <3>1. \A g \in Sources : source[g].ver \in 0..MaxLog BY <1>1 DEF WriteTypeOK
    <3> QED BY <1>1, <1>2, <1>3, <3>1 DEF EventsThere
  <2>2. \A q \in Processors : job'[q].pc # "idle" => job'[q].n \in 1..Len(log')
    BY <1>1, <1>3, <1>6, <1>7 DEF EventsThere
  <2> QED BY <2>1, <2>2 DEF EventsThere
<1>14. ASSUME NEW q \in Processors PROVE RightEvent(q)' /\ LoneFits(q)'
  <2>1. CASE q = p
    <3>1. RightEvent(p)' BY <1>6 DEF RightEvent, e
    <3>2. ASSUME job'[p].alone PROVE \A r \in Processors \ {p} : ~Works(r, Of(p))'
      <4>1. Busy(f) = {} BY <1>6, <3>2
      <4> QED BY <1>4, <1>10, <1>11, <4>1 DEF Busy, Works
    <3>3. LoneFits(p)' BY <1>6, <3>2 DEF LoneFits, Works
    <3> QED BY <2>1, <3>1, <3>3
  <2>2. CASE q # p
    <3>1. RightEvent(q) /\ LoneFits(q) BY DEF WriteInv
    <3>2. RightEvent(q)' BY <1>7, <1>9, <2>2, <3>1 DEF RightEvent
    <3>3. ASSUME job'[q].pc # "idle", job'[q].alone PROVE LoneFits(q)'
      <4>1. job[q].pc # "idle" /\ job[q].alone /\ Of(q) # f /\ Of(q)' = Of(q) /\ Of(q) \in Sources
        BY <1>7, <1>9, <2>2, <3>3
      <4>2. \A r \in Processors \ {q} : ~Works(r, Of(q))'
        BY <1>10, <1>11, <3>1, <4>1 DEF LoneFits
      <4> QED BY <1>2, <1>7, <2>2, <3>1, <4>1, <4>2 DEF LoneFits, Works
    <3> QED BY <3>2, <3>3 DEF LoneFits
  <2> QED BY <2>1, <2>2
<1>15. ASSUME NEW g \in Sources PROVE SettledFits(g)'
  <2>1. SettledFits(g) BY DEF WriteInv
  <2>2. \A q \in Processors : Works(q, g) => Works(q, g)' /\ job'[q].pc = job[q].pc
    BY <1>2, <1>7, <1>10 DEF Works
  <2> QED BY <1>2, <2>1, <2>2 DEF SettledFits, Follows
<1> QED BY <1>12, <1>13, <1>14, <1>15 DEF WriteInv

LEMMA TakeUpKeeps ==
  ASSUME WriteInv, NEW p \in Processors, NEW n \in Numbers,
         ClaimEvent(p, n) \/ PostEvent(p, n) \/ Replay(p, n)
  PROVE  WriteInv'
<1>1. WriteTypeOK /\ EventsThere BY DEF WriteInv
<1>2. /\ log \in Seq(LoggedEvents) /\ Len(log) \in Nat /\ MaxLog \in Nat /\ Len(log) <= MaxLog
      /\ upsets \in 0..MaxUpsets /\ MaxUpsets \in Nat /\ phase \in [Numbers -> Phases]
  BY <1>1, WriteAssumption DEF WriteTypeOK, LoggedEvents, Phases
<1>3. CASE ClaimEvent(p, n)
  <2>1. /\ Idling(p) /\ phase[n] = "queued" /\ Takes(p, n, log[n])
        /\ phase' = [phase EXCEPT ![n] = "running"] /\ UNCHANGED <<log, upsets>>
    BY <1>3 DEF ClaimEvent
  <2>2. n \in 1..Len(log) BY <1>1, <1>2, <2>1 DEF EventsThere, Numbers
  <2>3. phase' \in [Numbers -> Phases] /\ \A i \in Numbers : phase'[i] # "none" => i <= Len(log')
    BY <1>1, <1>2, <2>1, <2>2 DEF EventsThere, Phases, Numbers
  <2>4. n \in 1..Len(log') /\ Takes(p, n, log'[n]) BY <2>1, <2>2
  <2> QED BY <1>2, <2>1, <2>3, <2>4, TakesKeeps
<1>4. CASE PostEvent(p, n)
  <2>1. /\ Idling(p) /\ n <= Len(log) /\ Upset /\ Takes(p, n, log[n])
        /\ phase' = [phase EXCEPT ![n] = "running"] /\ UNCHANGED log
    BY <1>4 DEF PostEvent
  <2>2. n \in 1..Len(log) BY <1>2, <2>1 DEF Numbers
  <2>3. phase' \in [Numbers -> Phases] /\ \A i \in Numbers : phase'[i] # "none" => i <= Len(log')
    BY <1>1, <1>2, <2>1, <2>2 DEF EventsThere, Phases, Numbers
  <2>4. n \in 1..Len(log') /\ Takes(p, n, log'[n]) BY <2>1, <2>2
  <2>5. upsets' \in 0..MaxUpsets BY <1>2, <2>1 DEF Upset
  <2> QED BY <1>2, <2>1, <2>3, <2>4, <2>5, TakesKeeps
<1>5. CASE Replay(p, n)
  <2> DEFINE copy == Len(log) + 1
  <2>1. /\ Idling(p) /\ phase[n] # "none" /\ Upset /\ Len(log) < MaxLog
        /\ log' = Append(log, log[n]) /\ phase' = [phase EXCEPT ![copy] = "running"]
        /\ Takes(p, copy, log[n])
    BY <1>5 DEF Replay
  <2>2. n \in 1..Len(log) BY <1>1, <1>2, <2>1 DEF EventsThere, Numbers
  <2>3. log[n] \in LoggedEvents BY <1>2, <2>2
  <2>4. /\ log' \in Seq(LoggedEvents) /\ Len(log') = copy /\ Len(log') <= MaxLog
        /\ log'[copy] = log[n] /\ \A i \in 1..Len(log) : log'[i] = log[i]
    BY <2>1, <2>3, LogGrows
  <2>5. copy \in 1..Len(log') /\ Takes(p, copy, log'[copy]) /\ Len(log) <= Len(log')
    BY <1>2, <2>1, <2>4
  <2>6. phase' \in [Numbers -> Phases] /\ \A i \in Numbers : phase'[i] # "none" => i <= Len(log')
    <3>1. \A i \in Numbers : phase'[i] = IF i = copy THEN "running" ELSE phase[i]
      BY <1>2, <2>1
    <3>2. phase' \in [Numbers -> Phases] BY <1>2, <2>1 DEF Phases
    <3>3. ASSUME NEW i \in Numbers, phase'[i] # "none" PROVE i <= copy
      <4>1. i = copy \/ i <= Len(log) BY <1>1, <3>1, <3>3 DEF EventsThere
      <4> QED BY <1>2, <4>1 DEF Numbers
    <3> QED BY <2>4, <3>2, <3>3
  <2>7. upsets' \in 0..MaxUpsets BY <1>2, <2>1 DEF Upset
  <2> HIDE DEF copy
  <2> QED BY <2>1, <2>4, <2>5, <2>6, <2>7, TakesKeeps
<1> QED BY <1>3, <1>4, <1>5

-----------------------------------------------------------------------------
(* A step of a job: only p moves, and only the document of its file may    *)
(* change, or what is settled of it.                                       *)
MoveFits(p, f, new, d) ==
  /\ new.pc # "idle" => /\ new.n = job[p].n /\ new.alone = job[p].alone
                         /\ RightEvent(p)' /\ job[p].pc \notin {"index", "done"}
                         /\ settled' = settled
  /\ new.pc # "idle" /\ job[p].alone =>
       /\ new.pc \in {"check", "build", "index"} =>
            source[f] = [status |-> "active", ver |-> new.ver]
       /\ new.pc = "index" => d = [status |-> "active", ver |-> new.ver]
       /\ new.pc = "done" => d.status # "active"
  /\ d # doc[f] => new.pc \in {"index", "done"} \/ f \notin settled'
  /\ f \in settled' /\ new.pc = "idle" =>
       \/ job[p].pc \notin {"index", "done"} /\ f \in settled
       \/ Follows(f)'

LEMMA MoveKeeps ==
  ASSUME WriteInv, NEW p \in Processors, job[p].pc # "idle", UNCHANGED <<source, log, base>>,
         NEW f \in Sources, f = Of(p), NEW new \in Jobs, job' = [job EXCEPT ![p] = new],
         phase' \in [Numbers -> Phases], \A i \in Numbers : phase'[i] # "none" => i <= Len(log),
         NEW d \in [status : Statuses, ver : 0..MaxLog], doc' = [doc EXCEPT ![f] = d],
         settled' \subseteq settled \cup {f}, settled \subseteq settled' \cup {f},
         upsets' \in 0..MaxUpsets, MoveFits(p, f, new, d)
  PROVE  WriteInv'
<1> USE DEF MoveFits
<1>1. WriteTypeOK /\ EventsThere BY DEF WriteInv
<1>2. /\ Of(p) = f /\ job[p].n \in Numbers /\ job[p].n \in 1..Len(log) BY WorksOn
<1>3. job' \in [Processors -> Jobs] /\ job'[p] = new /\ \A q \in Processors \ {p} : job'[q] = job[q]
  BY <1>1 DEF WriteTypeOK, Jobs
<1>4. /\ doc' \in [Sources -> [status : Statuses, ver : 0..MaxLog]] /\ doc'[f] = d
      /\ \A g \in Sources \ {f} : doc'[g] = doc[g]
  BY <1>1, <1>2 DEF WriteTypeOK
<1>5. \A q \in Processors \ {p} : Of(q)' = Of(q) BY <1>3 DEF Of
<1>6. \A q \in Processors \ {p}, g \in Sources : Works(q, g)' <=> Works(q, g) BY <1>3 DEF Works
<1>7. new.pc # "idle" => Of(p)' = f /\ \A g \in Sources : Works(p, g)' <=> Works(p, g)
  BY <1>3 DEF Of, Works
<1>8. WriteTypeOK'
  <2>1. settled' \subseteq Sources BY <1>1 DEF WriteTypeOK
  <2>2. /\ source' \in [Sources -> [status : {"none", "active", "deleted"}, ver : 0..MaxLog]]
        /\ log' \in Seq(LoggedEvents) /\ Len(log') <= MaxLog /\ base' \in BOOLEAN
    BY <1>1 DEF WriteTypeOK, LoggedEvents
  <2> QED BY <1>3, <1>4, <2>1, <2>2 DEF WriteTypeOK, Phases, Jobs, LoggedEvents
<1>9. EventsThere' BY <1>1, <1>2, <1>3 DEF EventsThere
<1>10. ASSUME NEW q \in Processors PROVE RightEvent(q)' /\ LoneFits(q)'
  <2>1. RightEvent(q) /\ LoneFits(q) BY DEF WriteInv
  <2>2. CASE q = p /\ new.pc = "idle" BY <1>3, <2>2 DEF RightEvent, LoneFits
  <2>3. CASE q = p /\ new.pc # "idle"
    <3>1. ASSUME job'[p].alone PROVE LoneFits(p)'
      <4>1. job[p].alone /\ Of(p)' = f BY <1>3, <1>7, <2>3, <3>1
      <4>2. \A r \in Processors \ {p} : ~Works(r, Of(p))'
        <5>1. \A r \in Processors \ {p} : ~Works(r, f)' BY <1>2, <1>6, <2>1, <2>3, <4>1 DEF LoneFits
        <5> QED BY <4>1, <5>1 DEF Works
      <4> QED BY <1>3, <1>4, <2>3, <4>1, <4>2 DEF LoneFits, Works
    <3> QED BY <2>3, <3>1 DEF LoneFits
  <2>4. CASE q # p
    <3>1. RightEvent(q)' BY <1>3, <2>1, <2>4 DEF RightEvent
    <3>2. ASSUME job[q].pc # "idle", job[q].alone PROVE LoneFits(q)'
      <4>1. Of(q) # f /\ Of(q) \in Sources
        <5>1. Works(p, f) BY <1>2 DEF Works, Of
        <5> QED BY <2>1, <2>4, <3>2, <5>1, WorksOn DEF LoneFits
      <4>2. \A r \in Processors \ {q} : ~Works(r, Of(q))'
        <5>1. ~Works(p, Of(q)) BY <2>1, <2>4, <3>2 DEF LoneFits
        <5>2. ~Works(p, Of(q))' BY <1>3, <1>5, <1>7, <2>4, <4>1, <5>1 DEF Works
        <5> QED BY <1>5, <1>6, <2>1, <2>4, <3>2, <4>1, <5>2 DEF LoneFits
      <4> QED BY <1>3, <1>4, <1>5, <2>1, <2>4, <3>2, <4>1, <4>2 DEF LoneFits, Works
    <3> QED BY <1>3, <2>4, <3>1, <3>2 DEF LoneFits
  <2> QED BY <2>2, <2>3, <2>4
<1>11. ASSUME NEW g \in Sources PROVE SettledFits(g)'
  <2>1. SettledFits(g) BY DEF WriteInv
  <2>2. CASE g # f
    <3>1. ~Works(p, g) BY <1>2, <2>2 DEF Works, Of
    <3>2. g \in settled' <=> g \in settled BY <2>2
    <3>3. doc'[g] = doc[g] /\ source'[g] = source[g] BY <1>4, <2>2
    <3>4. \A q \in Processors : Works(q, g) => Works(q, g)' /\ job'[q] = job[q] BY <1>3, <1>6, <3>1
    <3> QED BY <2>1, <3>2, <3>3, <3>4 DEF SettledFits, Follows
  <2>3. CASE g = f /\ new.pc = "idle"
    <3>1. SUFFICES ASSUME g \in settled', \A q \in Processors : Works(q, g)' => job'[q].pc \notin {"index", "done"}
                   PROVE  Follows(g)'
      BY DEF SettledFits
    <3>2. CASE job[p].pc \notin {"index", "done"} /\ f \in settled
      <4>1. d = doc[f] BY <2>3, <3>1
      <4>2. \A q \in Processors : Works(q, g) => job[q].pc \notin {"index", "done"}
        <5>1. \A q \in Processors \ {p} : Works(q, g) => job[q].pc \notin {"index", "done"}
          BY <1>3, <1>6, <3>1
        <5> QED BY <3>2, <5>1
      <4>3. Follows(g) BY <2>1, <2>3, <3>2, <4>2 DEF SettledFits
      <4> QED BY <1>4, <2>3, <4>1, <4>3 DEF Follows
    <3> QED BY <2>3, <3>1, <3>2
  <2>4. CASE g = f /\ new.pc # "idle"
    <3>1. CASE new.pc \in {"index", "done"}
      <4>1. Works(p, g)' BY <1>2, <1>3, <1>7, <2>4 DEF Works, Of
      <4> QED BY <1>3, <3>1, <4>1 DEF SettledFits
    <3>2. CASE new.pc \notin {"index", "done"}
      <4>1. d = doc[f] \/ f \notin settled' BY <3>2
      <4>2. (doc'[g] = doc[g] /\ source'[g] = source[g]) \/ g \notin settled' BY <1>4, <2>4, <4>1
      <4>3. job[p].pc \notin {"index", "done"} /\ settled' = settled BY <2>4
      <4>4. \A q \in Processors \ {p} : Works(q, g) => Works(q, g)' /\ job'[q] = job[q] BY <1>3, <1>6
      <4>5. (\A q \in Processors : Works(q, g)' => job'[q].pc \notin {"index", "done"}) =>
              \A q \in Processors : Works(q, g) => job[q].pc \notin {"index", "done"}
        BY <4>3, <4>4
      <4> QED BY <2>1, <4>2, <4>3, <4>5 DEF SettledFits, Follows
    <3> QED BY <3>1, <3>2
  <2> QED BY <2>2, <2>3, <2>4
<1> QED BY <1>8, <1>9, <1>10, <1>11 DEF WriteInv

(* What a step of a job finds: what the invariant says of p.               *)
LEMMA JobIs ==
  ASSUME WriteInv, NEW p \in Processors, job[p].pc # "idle"
  PROVE  /\ Of(p) \in Sources /\ job[p] \in Jobs /\ job \in [Processors -> Jobs]
         /\ doc \in [Sources -> [status : Statuses, ver : 0..MaxLog]]
         /\ source[Of(p)] \in [status : {"none", "active", "deleted"}, ver : 0..MaxLog]
         /\ phase \in [Numbers -> Phases] /\ \A i \in Numbers : phase[i] # "none" => i <= Len(log)
         /\ upsets \in 0..MaxUpsets /\ MaxUpsets \in Nat
         /\ RightEvent(p) /\ LoneFits(p) /\ SettledFits(Of(p))
         /\ job[p].n \in Numbers /\ job[p].n <= Len(log)
<1>1. WriteTypeOK /\ EventsThere BY DEF WriteInv
<1>2. Of(p) \in Sources /\ job[p].n \in Numbers /\ job[p].n \in 1..Len(log) BY WorksOn
<1>3. Len(log) \in Nat BY <1>1 DEF WriteTypeOK
<1>4. job[p].n <= Len(log) BY <1>2, <1>3
<1>5. /\ job \in [Processors -> Jobs] /\ phase \in [Numbers -> Phases]
      /\ doc \in [Sources -> [status : Statuses, ver : 0..MaxLog]]
      /\ source \in [Sources -> [status : {"none", "active", "deleted"}, ver : 0..MaxLog]]
      /\ upsets \in 0..MaxUpsets
  BY <1>1 DEF WriteTypeOK, Jobs, Phases
<1> QED BY <1>1, <1>2, <1>4, <1>5, WriteAssumption DEF EventsThere, WriteInv

LEMMA EndIs ==
  ASSUME WriteInv, NEW p \in Processors, job[p].pc # "idle",
         NEW outcome \in {"success", "failed"}, Ends(p, outcome)
  PROVE  /\ NoJob \in Jobs /\ NoJob.pc = "idle" /\ job' = [job EXCEPT ![p] = NoJob]
         /\ phase' \in [Numbers -> Phases] /\ \A i \in Numbers : phase'[i] # "none" => i <= Len(log)
<1>1. NoJob \in Jobs /\ NoJob.pc = "idle" BY WriteAssumption DEF NoJob, Jobs
<1>2. /\ job' = [job EXCEPT ![p] = NoJob]
      /\ phase' = [phase EXCEPT ![job[p].n] = IF phase[job[p].n] = "sent" THEN phase[job[p].n] ELSE outcome]
  BY DEF Ends
<1>3. /\ phase \in [Numbers -> Phases] /\ \A i \in Numbers : phase[i] # "none" => i <= Len(log)
      /\ job[p].n \in Numbers /\ job[p].n <= Len(log)
  BY JobIs
<1> QED BY <1>1, <1>2, <1>3 DEF Phases

(* A job that goes on without touching the document.                       *)
LEMMA GoesOn ==
  ASSUME WriteInv, NEW p \in Processors,
         job[p].pc \in {"fetch", "check", "build", "look", "erase"}, UNCHANGED <<source, log, base>>,
         UNCHANGED <<phase, doc, settled, upsets>>,
         NEW step \in {"check", "build", "index", "erase"}, NEW ver \in 0..MaxLog,
         job' = [job EXCEPT ![p] = [job[p] EXCEPT !.pc = step, !.ver = ver]],
         step \in {"check", "build", "index"} <=> job[p].pc \in {"fetch", "check", "build"},
         step \in {"check", "build", "index"} /\ job[p].alone =>
           source[Of(p)] = [status |-> "active", ver |-> ver],
         step = "index" => doc[Of(p)] = [status |-> "active", ver |-> ver]
  PROVE  WriteInv'
<1> DEFINE new == [job[p] EXCEPT !.pc = step, !.ver = ver]
<1>1. /\ Of(p) \in Sources /\ job \in [Processors -> Jobs] /\ job[p].pc # "idle"
      /\ doc \in [Sources -> [status : Statuses, ver : 0..MaxLog]]
      /\ phase \in [Numbers -> Phases] /\ \A i \in Numbers : phase[i] # "none" => i <= Len(log)
      /\ upsets \in 0..MaxUpsets /\ RightEvent(p)
  BY JobIs
<1>2. new \in Jobs /\ new.pc = step /\ new.ver = ver /\ new.n = job[p].n /\ new.alone = job[p].alone
  <2>1. job[p] \in Jobs BY <1>1
  <2> QED BY <2>1 DEF Jobs
<1>3. job' = [job EXCEPT ![p] = new] OBVIOUS
<1> HIDE DEF new
<1>4. job'[p] = new BY <1>1, <1>3
<1>5. RightEvent(p)' BY <1>1, <1>2, <1>4 DEF RightEvent
<1>6. /\ doc' = [doc EXCEPT ![Of(p)] = doc[Of(p)]]
      /\ doc[Of(p)] \in [status : Statuses, ver : 0..MaxLog]
  BY <1>1
<1>7. PICK f \in Sources : f = Of(p) BY <1>1
<1>8. MoveFits(p, f, new, doc[f]) BY <1>2, <1>5, <1>7 DEF MoveFits
<1> QED BY <1>1, <1>2, <1>3, <1>6, <1>7, <1>8, MoveKeeps

(* A job that ends without having touched the document.                    *)
LEMMA GivesUp ==
  ASSUME WriteInv, NEW p \in Processors, job[p].pc \notin {"idle", "index", "done"},
         UNCHANGED <<source, log, base>>, UNCHANGED <<doc, upsets, settled>>,
         NEW outcome \in {"success", "failed"}, Ends(p, outcome)
  PROVE  WriteInv'
<1>1. /\ Of(p) \in Sources /\ doc \in [Sources -> [status : Statuses, ver : 0..MaxLog]]
      /\ upsets \in 0..MaxUpsets
  BY JobIs
<1>2. /\ NoJob \in Jobs /\ NoJob.pc = "idle" /\ job' = [job EXCEPT ![p] = NoJob]
      /\ phase' \in [Numbers -> Phases] /\ \A i \in Numbers : phase'[i] # "none" => i <= Len(log)
  BY EndIs
<1>3. /\ doc' = [doc EXCEPT ![Of(p)] = doc[Of(p)]]
      /\ doc[Of(p)] \in [status : Statuses, ver : 0..MaxLog]
  BY <1>1
<1>4. PICK f \in Sources : f = Of(p) BY <1>1
<1>5. MoveFits(p, f, NoJob, doc[f]) BY <1>2 DEF MoveFits
<1> QED BY <1>1, <1>2, <1>3, <1>4, <1>5, MoveKeeps

(* A job that ends in failure after it has touched it.                     *)
LEMMA FailsLate ==
  ASSUME WriteInv, NEW p \in Processors, job[p].pc # "idle", UNCHANGED <<source, log, base>>,
         NEW d \in [status : Statuses, ver : 0..MaxLog], doc' = [doc EXCEPT ![Of(p)] = d],
         settled' = settled \ {Of(p)}, upsets' \in 0..MaxUpsets, Ends(p, "failed")
  PROVE  WriteInv'
<1>1. Of(p) \in Sources BY JobIs
<1>2. /\ NoJob \in Jobs /\ NoJob.pc = "idle" /\ job' = [job EXCEPT ![p] = NoJob]
      /\ phase' \in [Numbers -> Phases] /\ \A i \in Numbers : phase'[i] # "none" => i <= Len(log)
  BY EndIs
<1>3. PICK f \in Sources : f = Of(p) BY <1>1
<1>4. MoveFits(p, f, NoJob, d) BY <1>2, <1>3 DEF MoveFits
<1> QED BY <1>2, <1>3, <1>4, MoveKeeps

LEMMA SaveKeeps ==
  ASSUME WriteInv, NEW p \in Processors, Save(p)
  PROVE  WriteInv'
<1> DEFINE new == [job[p] EXCEPT !.pc = "index", !.ver = job[p].ver]
           d == [status |-> "active", ver |-> job[p].ver]
<1>1. /\ job[p].pc = "build" /\ UNCHANGED <<source, log, base>> /\ doc' = [doc EXCEPT ![Of(p)] = d]
      /\ job' = [job EXCEPT ![p].pc = "index"] /\ UNCHANGED <<phase, upsets, settled>>
  BY DEF Save, Stands, Go
<1>2. /\ Of(p) \in Sources /\ job \in [Processors -> Jobs] /\ job[p] \in Jobs
      /\ phase \in [Numbers -> Phases] /\ \A i \in Numbers : phase[i] # "none" => i <= Len(log)
      /\ upsets \in 0..MaxUpsets /\ RightEvent(p) /\ LoneFits(p)
  BY <1>1, JobIs
<1>3. job[p].ver \in 0..MaxLog BY <1>2 DEF Jobs
<1>4. /\ new \in Jobs /\ new.pc = "index" /\ new.ver = job[p].ver /\ new.n = job[p].n
      /\ new.alone = job[p].alone
  BY <1>2, <1>3 DEF Jobs
<1>5. job' = [job EXCEPT ![p] = new] BY <1>1, <1>2 DEF Jobs
<1>6. d \in [status : Statuses, ver : 0..MaxLog] /\ d = [status |-> "active", ver |-> new.ver]
  BY <1>3, <1>4 DEF Statuses
<1>7. job[p].alone => source[Of(p)] = [status |-> "active", ver |-> new.ver]
  BY <1>1, <1>2, <1>4 DEF LoneFits
<1> HIDE DEF new, d
<1>8. job'[p] = new BY <1>2, <1>5
<1>9. RightEvent(p)' BY <1>1, <1>2, <1>4, <1>8 DEF RightEvent
<1>10. PICK f \in Sources : f = Of(p) BY <1>2
<1>11. MoveFits(p, f, new, d) BY <1>1, <1>4, <1>6, <1>7, <1>9, <1>10 DEF MoveFits
<1> QED BY <1>1, <1>2, <1>4, <1>5, <1>6, <1>10, <1>11, MoveKeeps

LEMMA EraseKeeps ==
  ASSUME WriteInv, NEW p \in Processors, Erase(p)
  PROVE  WriteInv'
<1> DEFINE new == [job[p] EXCEPT !.pc = "done", !.ver = job[p].ver]
           d == [doc[Of(p)] EXCEPT !.status = IF doc[Of(p)].status = "none" THEN "none" ELSE "deleted"]
<1>1. /\ job[p].pc = "erase" /\ UNCHANGED <<source, log, base>>
      /\ job' = [job EXCEPT ![p].pc = "done"] /\ UNCHANGED <<phase, upsets, settled>>
      /\ doc' = [doc EXCEPT ![Of(p)].status = IF @ = "none" THEN "none" ELSE "deleted"]
  BY DEF Erase, Stands, Go
<1>2. /\ Of(p) \in Sources /\ job \in [Processors -> Jobs] /\ job[p] \in Jobs
      /\ phase \in [Numbers -> Phases] /\ \A i \in Numbers : phase[i] # "none" => i <= Len(log)
      /\ doc \in [Sources -> [status : Statuses, ver : 0..MaxLog]]
      /\ upsets \in 0..MaxUpsets /\ RightEvent(p)
  BY <1>1, JobIs
<1>3. job[p].ver \in 0..MaxLog BY <1>2 DEF Jobs
<1>4. /\ new \in Jobs /\ new.pc = "done" /\ new.n = job[p].n /\ new.alone = job[p].alone
  BY <1>2, <1>3 DEF Jobs
<1>5. job' = [job EXCEPT ![p] = new] BY <1>1, <1>2 DEF Jobs
<1>6. d \in [status : Statuses, ver : 0..MaxLog] /\ d.status # "active"
      /\ doc' = [doc EXCEPT ![Of(p)] = d]
  BY <1>1, <1>2 DEF Statuses
<1> HIDE DEF new, d
<1>7. job'[p] = new BY <1>2, <1>5
<1>8. RightEvent(p)' BY <1>1, <1>2, <1>4, <1>7 DEF RightEvent
<1>9. PICK f \in Sources : f = Of(p) BY <1>2
<1>10. MoveFits(p, f, new, d) BY <1>1, <1>4, <1>6, <1>8, <1>9 DEF MoveFits
<1> QED BY <1>1, <1>2, <1>4, <1>5, <1>6, <1>9, <1>10, MoveKeeps

LEMMA SucceedsKeeps ==
  ASSUME WriteInv, NEW p \in Processors, Succeeds(p)
  PROVE  WriteInv'
<1>1. /\ job[p].pc \in {"index", "done"} /\ UNCHANGED <<source, log, base>> /\ UNCHANGED <<doc, upsets>>
      /\ Ends(p, "success")
      /\ settled' = IF job[p].alone /\ ~OutOfDate(p) THEN settled \cup {Of(p)} ELSE settled \ {Of(p)}
  BY DEF Succeeds, Stands
<1>2. /\ Of(p) \in Sources /\ doc \in [Sources -> [status : Statuses, ver : 0..MaxLog]]
      /\ upsets \in 0..MaxUpsets /\ RightEvent(p) /\ LoneFits(p)
  BY <1>1, JobIs
<1>3. /\ NoJob \in Jobs /\ NoJob.pc = "idle" /\ job' = [job EXCEPT ![p] = NoJob]
      /\ phase' \in [Numbers -> Phases] /\ \A i \in Numbers : phase'[i] # "none" => i <= Len(log)
  BY <1>1, EndIs
<1>4. PICK f \in Sources : f = Of(p) BY <1>2
<1>5. f \in settled' => Follows(f)'
  <2>1. SUFFICES ASSUME job[p].alone, ~OutOfDate(p) PROVE Follows(f)'
    BY <1>1, <1>4
  <2>2. CASE job[p].pc = "index"
    <3>1. doc[f] = [status |-> "active", ver |-> job[p].ver] /\ source[f] = doc[f]
      BY <1>2, <1>4, <2>1, <2>2 DEF LoneFits
    <3> QED BY <1>1, <3>1 DEF Follows
  <2>3. CASE job[p].pc = "done"
    <3>1. doc[f].status # "active" BY <1>2, <1>4, <2>1, <2>3 DEF LoneFits
    <3>2. source[f].status # "active" BY <1>2, <1>4, <2>1, <2>3 DEF RightEvent, OutOfDate
    <3> QED BY <1>1, <3>1, <3>2 DEF Follows
  <2> QED BY <1>1, <2>2, <2>3
<1>6. /\ doc' = [doc EXCEPT ![f] = doc[f]] /\ doc[f] \in [status : Statuses, ver : 0..MaxLog]
  BY <1>1, <1>2
<1>7. settled' \subseteq settled \cup {f} /\ settled \subseteq settled' \cup {f} BY <1>1, <1>4
<1>8. MoveFits(p, f, NoJob, doc[f]) BY <1>3, <1>5 DEF MoveFits
<1> QED BY <1>1, <1>2, <1>3, <1>4, <1>6, <1>7, <1>8, MoveKeeps

LEMMA WorkKeeps ==
  ASSUME WriteInv, NEW p \in Processors, ProcessStep(p)
  PROVE  WriteInv'
<1>1. CASE Fetch(p)
  <2>1. /\ job[p].pc = "fetch" /\ UNCHANGED <<source, log, base>>
        /\ source[Of(p)].status = "active" /\ UNCHANGED <<phase, doc, upsets, settled>>
        /\ job' = [job EXCEPT ![p].pc = "check", ![p].ver = source[Of(p)].ver]
    BY <1>1 DEF Fetch, Stands, Served
  <2>2. /\ job \in [Processors -> Jobs]
        /\ source[Of(p)] \in [status : {"none", "active", "deleted"}, ver : 0..MaxLog]
    BY <2>1, JobIs
  <2>3. job' = [job EXCEPT ![p] = [job[p] EXCEPT !.pc = "check", !.ver = source[Of(p)].ver]]
    BY <2>1, <2>2
  <2>4. source[Of(p)].ver \in 0..MaxLog /\ source[Of(p)] = [status |-> "active", ver |-> source[Of(p)].ver]
    BY <2>1, <2>2
  <2> QED BY <2>1, <2>3, <2>4, GoesOn, Zenon
<1>2. CASE FetchGone(p) BY <1>2, GivesUp DEF FetchGone, Stands
<1>3. CASE Check(p)
  <2>1. /\ job[p].pc = "check" /\ UNCHANGED <<source, log, base>> /\ UNCHANGED <<phase, doc, upsets, settled>>
        /\ job' = [job EXCEPT ![p].pc = IF Current(p) THEN "index" ELSE "build"]
    BY <1>3 DEF Check, Stands, Go
  <2>2. job \in [Processors -> Jobs] /\ job[p] \in Jobs /\ LoneFits(p) BY <2>1, JobIs
  <2>3. job[p].ver \in 0..MaxLog BY <2>2 DEF Jobs
  <2>4. job[p].alone => source[Of(p)] = [status |-> "active", ver |-> job[p].ver]
    BY <2>1, <2>2 DEF LoneFits
  <2>5. CASE Current(p)
    <3>1. job' = [job EXCEPT ![p] = [job[p] EXCEPT !.pc = "index", !.ver = job[p].ver]]
      BY <2>1, <2>2, <2>5 DEF Jobs
    <3>2. doc[Of(p)] = [status |-> "active", ver |-> job[p].ver] BY <2>5 DEF Current
    <3> QED BY <2>1, <2>3, <2>4, <3>1, <3>2, GoesOn, Zenon
  <2>6. CASE ~Current(p)
    <3>1. job' = [job EXCEPT ![p] = [job[p] EXCEPT !.pc = "build", !.ver = job[p].ver]]
      BY <2>1, <2>2, <2>6 DEF Jobs
    <3> QED BY <2>1, <2>3, <2>4, <3>1, GoesOn, Zenon
  <2> QED BY <2>5, <2>6
<1>4. CASE Refused(p) BY <1>4, GivesUp DEF Refused, Stands
<1>5. CASE Save(p) BY <1>5, SaveKeeps
<1>6. CASE IngestFails(p)
  <2>1. /\ job[p].pc \in {"build", "index"} /\ UNCHANGED <<source, log, base>> /\ Upset
        /\ doc' = [doc EXCEPT ![Of(p)] = [status |-> "failed", ver |-> job[p].ver]]
        /\ settled' = settled \ {Of(p)} /\ Ends(p, "failed")
    BY <1>6 DEF IngestFails, Stands
  <2>2. job[p] \in Jobs /\ upsets \in 0..MaxUpsets /\ MaxUpsets \in Nat BY <2>1, JobIs
  <2>3. [status |-> "failed", ver |-> job[p].ver] \in [status : Statuses, ver : 0..MaxLog]
    BY <2>2 DEF Jobs, Statuses
  <2>4. upsets' \in 0..MaxUpsets BY <2>1, <2>2 DEF Upset
  <2> QED BY <2>1, <2>3, <2>4, FailsLate
<1>7. CASE Look(p)
  <2>1. /\ job[p].pc = "look" /\ UNCHANGED <<source, log, base>> /\ UNCHANGED <<doc, upsets, settled>>
        /\ IF base THEN Go(p, "erase") /\ UNCHANGED phase ELSE Ends(p, "success")
    BY <1>7 DEF Look, Stands
  <2>2. CASE base
    <3>1. job \in [Processors -> Jobs] /\ job[p] \in Jobs BY <2>1, JobIs
    <3>2. job' = [job EXCEPT ![p] = [job[p] EXCEPT !.pc = "erase", !.ver = job[p].ver]]
      BY <2>1, <2>2, <3>1 DEF Jobs, Go
    <3>3. job[p].ver \in 0..MaxLog BY <3>1 DEF Jobs
    <3>4. UNCHANGED phase BY <2>1, <2>2
    <3> QED BY <2>1, <3>2, <3>3, <3>4, GoesOn, Zenon
  <2>3. CASE ~base BY <2>1, <2>3, GivesUp
  <2> QED BY <2>2, <2>3
<1>8. CASE Erase(p) BY <1>8, EraseKeeps
<1>9. CASE DeletionFails(p)
  <2>1. /\ job[p].pc = "done" /\ UNCHANGED <<source, log, base>> /\ Upset /\ UNCHANGED doc
        /\ settled' = settled \ {Of(p)} /\ Ends(p, "failed")
    BY <1>9 DEF DeletionFails, Stands
  <2>2. /\ Of(p) \in Sources /\ doc \in [Sources -> [status : Statuses, ver : 0..MaxLog]]
        /\ upsets \in 0..MaxUpsets /\ MaxUpsets \in Nat
    BY <2>1, JobIs
  <2>3. doc[Of(p)] \in [status : Statuses, ver : 0..MaxLog] /\ doc' = [doc EXCEPT ![Of(p)] = doc[Of(p)]]
    BY <2>1, <2>2
  <2>4. upsets' \in 0..MaxUpsets BY <2>1, <2>2 DEF Upset
  <2> QED BY <2>1, <2>3, <2>4, FailsLate
<1>10. CASE Succeeds(p) BY <1>10, SucceedsKeeps
<1> QED BY <1>1, <1>2, <1>3, <1>4, <1>5, <1>6, <1>7, <1>8, <1>9, <1>10 DEF ProcessStep

-----------------------------------------------------------------------------
LEMMA RowKeeps ==
  ASSUME WriteInv, NEW n \in Numbers, Deliver(n) \/ Lapses(n)
  PROVE  WriteInv'
<1>1. WriteTypeOK /\ EventsThere BY DEF WriteInv
<1>2. /\ UNCHANGED <<source, log, base, doc, job, settled>> /\ phase[n] \in {"sent", "running"}
      /\ phase' = [phase EXCEPT ![n] = "queued"] /\ (UNCHANGED upsets \/ Upset)
  BY DEF Deliver, Lapses
<1>3. phase' \in [Numbers -> Phases] /\ \A i \in Numbers : phase'[i] # "none" => i <= Len(log)
  BY <1>1, <1>2 DEF WriteTypeOK, EventsThere, Phases
<1>4. upsets' \in 0..MaxUpsets BY <1>1, <1>2, WriteAssumption DEF WriteTypeOK, Upset
<1>5. WriteTypeOK' BY <1>1, <1>2, <1>3, <1>4 DEF WriteTypeOK, Phases
<1>6. EventsThere' BY <1>1, <1>2, <1>3 DEF EventsThere
<1>7. \A p \in Processors : RightEvent(p)' /\ LoneFits(p)'
  BY <1>2 DEF WriteInv, RightEvent, LoneFits, Works, Of
<1>8. \A f \in Sources : SettledFits(f)' BY <1>2 DEF WriteInv, SettledFits, Follows, Works
<1> QED BY <1>5, <1>6, <1>7, <1>8 DEF WriteInv

LEMMA DropKeeps ==
  ASSUME WriteInv, DropBase
  PROVE  WriteInv'
<1>1. WriteTypeOK /\ EventsThere BY DEF WriteInv
<1>2. /\ UNCHANGED <<source, log>> /\ Upset /\ base' = FALSE /\ doc' = [f \in Sources |-> Blank]
      /\ phase' = WithoutRows /\ settled' = {f \in settled : source[f].status # "active"}
      /\ job' = [p \in Processors |-> IF job[p].pc = "idle" THEN job[p]
                                      ELSE [job[p] EXCEPT !.alone = FALSE]]
  BY DEF DropBase
<1>3. phase' \in [Numbers -> Phases] /\ \A i \in Numbers : phase'[i] # "none" => i <= Len(log)
  BY <1>1, <1>2 DEF WriteTypeOK, EventsThere, Phases, WithoutRows
<1>4. job \in [Processors -> Jobs] BY <1>1 DEF WriteTypeOK, Jobs
<1>5. ASSUME NEW p \in Processors
      PROVE  /\ job'[p] \in Jobs /\ job'[p].pc = job[p].pc /\ job'[p].n = job[p].n
             /\ job[p].pc # "idle" => ~job'[p].alone
  <2>1. job[p] \in Jobs BY <1>4
  <2>2. CASE job[p].pc = "idle" BY <1>2, <2>1, <2>2
  <2>3. CASE job[p].pc # "idle"
    <3>1. job'[p] = [job[p] EXCEPT !.alone = FALSE] BY <1>2, <2>3
    <3> QED BY <2>1, <3>1 DEF Jobs
  <2> QED BY <2>2, <2>3
<1>6. job' \in [Processors -> Jobs]
  <2>1. job' = [p \in Processors |-> job'[p]] BY <1>2
  <2> QED BY <1>5, <2>1
<1>7. upsets' \in 0..MaxUpsets BY <1>1, <1>2, WriteAssumption DEF WriteTypeOK, Upset
<1>8. doc' \in [Sources -> [status : Statuses, ver : 0..MaxLog]]
  BY <1>2, WriteAssumption DEF Blank, Statuses
<1>9. WriteTypeOK'
  <2>1. settled' \subseteq Sources BY <1>1, <1>2 DEF WriteTypeOK
  <2>2. /\ source' \in [Sources -> [status : {"none", "active", "deleted"}, ver : 0..MaxLog]]
        /\ log' \in Seq(LoggedEvents) /\ Len(log') <= MaxLog
    BY <1>1, <1>2 DEF WriteTypeOK, LoggedEvents
  <2> QED BY <1>2, <1>3, <1>6, <1>7, <1>8, <2>1, <2>2 DEF WriteTypeOK, Phases, Jobs, LoggedEvents
<1>10. EventsThere' BY <1>1, <1>2, <1>3, <1>5 DEF EventsThere
<1>11. \A p \in Processors : RightEvent(p)' /\ LoneFits(p)'
  BY <1>2, <1>5 DEF WriteInv, RightEvent, LoneFits
<1>12. ASSUME NEW f \in Sources PROVE SettledFits(f)'
  BY <1>2 DEF SettledFits, Follows, Blank
<1> QED BY <1>9, <1>10, <1>11, <1>12 DEF WriteInv

LEMMA WriteAlways == WriteSpec => []WriteInv
<1>1. ASSUME WriteInv, [WriteNext]_writeVars PROVE WriteInv'
  <2>1. CASE UNCHANGED writeVars
    BY <1>1, <2>1 DEF writeVars, WriteInv, WriteTypeOK, EventsThere, RightEvent, LoneFits, SettledFits,
                      Follows, Works, Of
  <2>2. ASSUME RegisterBase PROVE WriteInv'
    BY <1>1, <2>2 DEF RegisterBase, WriteInv, WriteTypeOK, EventsThere, RightEvent, LoneFits,
                      SettledFits, Follows, Works, Of
  <2> QED BY <1>1, <2>1, <2>2, ChangeKeeps, RowKeeps, TakeUpKeeps, WorkKeeps, DropKeeps
          DEF WriteNext
<1> QED BY WriteStart, <1>1, PTL DEF WriteSpec

(* Files, events, documents and jobs stay of the kinds that the code knows *)
(* through every order of deliveries, failures and deletions               *)
(* (rustfs_events.py).                                                     *)
THEOREM WriteTypeCorrect == WriteSpec => []WriteTypeOK
  BY WriteAlways, PTL DEF WriteInv

(* In whatever order a file's events arrive, late, twice or replayed, and  *)
(* whatever failed before: once an event has been processed on its own     *)
(* after the file's last change, and is not the deletion of a file that is *)
(* back, the document is the file as it is now (rustfs_events.py).         *)
THEOREM FollowsCorrect == WriteSpec => []FollowsTheFile
<1>1. WriteInv => FollowsTheFile
  <2> SUFFICES ASSUME WriteInv, NEW f \in settled, Busy(f) = {} PROVE Follows(f)
    BY DEF FollowsTheFile, Follows
  <2>1. f \in Sources /\ SettledFits(f) BY DEF WriteInv, WriteTypeOK
  <2>2. \A p \in Processors : ~Works(p, f) BY DEF Busy, Works
  <2> QED BY <2>1, <2>2 DEF SettledFits
<1> QED BY WriteAlways, <1>1, PTL

-----------------------------------------------------------------------------
(* Requests and the server they share.                                     *)

(* The values that fields are reset to are of their types. *)
LEMMA EmptyValues ==
  /\ NoIndex \in Indexes
  /\ NoRecords \in Records /\ Corpora \subseteq Records
  /\ NoSignature \in Signatures
  /\ NoHits \in Hits /\ NoRequest \in RequestStates
  /\ FreshServer \in Servers
  /\ Nothing \in Versions /\ Nothing \in KBsOrNone
<1>1. /\ NoIndex \in Indexes
      /\ NoRecords \in Records /\ Corpora \subseteq Records
      /\ Nothing \in Versions /\ Nothing \in KBsOrNone
  BY DEF NoIndex, Indexes, Records, Versions, KBsOrNone
<1>2. NoHits \in Hits
  BY <1>1 DEF NoHits, Hits
<1>5. NoSignature \in Signatures
  BY <1>1 DEF NoSignature, Signatures
<1>3. NoRequest \in RequestStates
  BY <1>1, <1>2, <1>5 DEF NoRequest, RequestStates, Steps
<1>4. FreshServer \in Servers
  BY <1>1, <1>5 DEF FreshServer, Servers
<1> QED BY <1>1, <1>2, <1>3, <1>4, <1>5

(* A refresh of a knowledge base's files tells its requests only that they *)
(* are not steady any more.                                                *)
LEMMA TouchKeeps ==
  ASSUME ReadTypeOK, NEW k \in KBs, Touch(k)
  PROVE  /\ request' \in [Requests -> RequestStates]
         /\ \A r \in Requests :
              /\ request'[r].pc = request[r].pc /\ request'[r].kb = request[r].kb
              /\ request'[r].mark = request[r].mark
              /\ request'[r].hits = request[r].hits
<1>1. ASSUME NEW r \in Requests
      PROVE  /\ [request[r] EXCEPT !.steady = FALSE, !.since = Nothing] \in RequestStates
             /\ request'[r].pc = request[r].pc /\ request'[r].kb = request[r].kb
             /\ request'[r].mark = request[r].mark
             /\ request'[r].hits = request[r].hits
  <2>1. request[r] \in RequestStates
    BY DEF ReadTypeOK
  <2> QED BY <2>1, EmptyValues DEF RequestStates, Touch
<1>2. request' \in [Requests -> RequestStates]
  BY <1>1 DEF Touch, ReadTypeOK
<1> QED BY <1>1, <1>2

(* The signature of a knowledge base's files is one. *)
LEMMA SignatureType ==
  ASSUME ReadTypeOK, NEW k \in KBs
  PROVE  Signature(k) \in Signatures /\ Signature(k).kb = k
BY EmptyValues DEF Signature, Signatures, ReadTypeOK, KBsOrNone

(* Rows read from a file that is being written are rows. *)
LEMMA ReadableType ==
  ASSUME ReadTypeOK, NEW k \in KBs
  PROVE  Readable(k) \subseteq Records
<1>1. corpus[k] \in Corpora
  BY DEF ReadTypeOK
<1>2. \A some \in BOOLEAN : [corpus[k] EXCEPT !.rows = some] \in Corpora
  BY <1>1 DEF Corpora
<1> QED BY <1>1, <1>2 DEF Readable, Records, Corpora

-----------------------------------------------------------------------------
(* The run_lock is held by the one request that uses the server, after the *)
(* session was entered; nothing is under way while the process is down.    *)
Running == {"init", "corpus", "index", "search"}

LockInv ==
  \A r \in Requests :
    /\ request[r].pc \in Running => runLock = r
    /\ request[r].pc \in Running \cup {"lock"} => session = "entered"
    /\ health = "stopped" => request[r].pc = "idle"

(* An index in memory lies beside the records of the knowledge base that   *)
(* the signature names, once its init has succeeded, ...                   *)
SignedInv ==
  server.sign.kb # Nothing /\ server.model # Nothing => server.kb = server.sign.kb

(* ... and is of no other than the request's when the request searches.    *)
OwnInv ==
  \A r \in Requests :
    /\ request[r].pc \in {"corpus", "index"} => request[r].mark.kb = request[r].kb
    /\ alive /\ request[r].pc \in {"corpus", "index"} =>
         server.kb = request[r].kb /\ server.model = Nothing
    /\ alive /\ request[r].pc = "search" /\ server.model # Nothing =>
         server.kb = request[r].kb

ReadInv == ReadTypeOK /\ LockInv /\ SignedInv /\ OwnInv /\ AnswersFromOwnKB

(* What a step that changes request r alone, to s, leaves to be shown.     *)
LEMMA OneRequest ==
  ASSUME ReadTypeOK, NEW r \in Requests, NEW s \in RequestStates,
         s.pc # "idle" => s.kb \in KBs,
         request' = [request EXCEPT ![r] = s]
  PROVE  /\ request' \in [Requests -> RequestStates]
         /\ \A q \in Requests : request'[q].pc # "idle" => request'[q].kb \in KBs
         /\ request'[r] = s
         /\ \A q \in Requests \ {r} : request'[q] = request[q]
BY DEF ReadTypeOK

(* A request that comes. *)
LEMMA NewRequest ==
  ASSUME ReadTypeOK, NEW r \in Requests, NEW k \in KBs, Come(r, k)
  PROVE  /\ request' \in [Requests -> RequestStates]
         /\ \A q \in Requests : request'[q].pc # "idle" => request'[q].kb \in KBs
         /\ request'[r].pc = "session"
         /\ \A q \in Requests \ {r} : request'[q] = request[q]
<1> DEFINE n == IF Settled(k) THEN corpus[k].ver ELSE Nothing
           s == [NoRequest EXCEPT !.pc = "session", !.kb = k, !.steady = Settled(k),
                                  !.since = n]
<1>1. n \in Versions /\ Settled(k) \in BOOLEAN /\ k \in KBsOrNone
  BY DEF ReadTypeOK, Versions, Corpora, Settled, KBsOrNone
<1>2. s \in RequestStates /\ s.kb = k /\ s.pc = "session"
  <2> HIDE DEF n
  <2> QED BY <1>1, EmptyValues DEF RequestStates, Steps
<1>3. request' = [request EXCEPT ![r] = s]
  BY DEF Come
<1> QED BY <1>2, <1>3 DEF ReadTypeOK

(* A step that moves request r on. *)
LEMMA MovedRequest ==
  ASSUME ReadTypeOK, NEW r \in Requests, NEW p \in Steps, request[r].pc # "idle",
         GoOn(r, p) 
  PROVE  /\ request' \in [Requests -> RequestStates]
         /\ \A q \in Requests : request'[q].pc # "idle" => request'[q].kb \in KBs
         /\ request'[r] = [request[r] EXCEPT !.pc = p]
         /\ request'[r].pc = p /\ request'[r].kb = request[r].kb
         /\ request'[r].mark = request[r].mark
         /\ \A q \in Requests \ {r} : request'[q] = request[q]
<1> DEFINE s == [request[r] EXCEPT !.pc = p]
<1>1. /\ s \in RequestStates /\ s.kb = request[r].kb /\ s.pc = p
      /\ s.mark = request[r].mark
  BY DEF ReadTypeOK, RequestStates
<1>2. request' = [request EXCEPT ![r] = s]
  BY DEF GoOn
<1>3. s.kb \in KBs
  BY <1>1 DEF ReadTypeOK
<1> QED BY <1>1, <1>2, <1>3 DEF ReadTypeOK

(* A run that fails. *)
LEMMA FailedRequest ==
  ASSUME ReadTypeOK, NEW r \in Requests, NEW b \in BOOLEAN, request[r].pc # "idle",
         FailRun(r, b)
  PROVE  /\ request' \in [Requests -> RequestStates]
         /\ \A q \in Requests : request'[q].pc # "idle" => request'[q].kb \in KBs
         /\ request'[r].pc = "failed"
         /\ \A q \in Requests \ {r} : request'[q] = request[q]
<1> DEFINE s == [request[r] EXCEPT !.pc = "failed", !.mark = NoSignature, !.sane = b]
<1>1. s \in RequestStates /\ s.kb = request[r].kb /\ s.pc = "failed"
  BY EmptyValues DEF ReadTypeOK, RequestStates, Steps
<1>2. request' = [request EXCEPT ![r] = s]
  BY DEF FailRun
<1> QED BY <1>1, <1>2 DEF ReadTypeOK

-----------------------------------------------------------------------------
(* The invariant holds at first, and every step keeps it.                  *)

LEMMA ReadInvInit == ReadInit => ReadInv
<1> SUFFICES ASSUME ReadInit PROVE ReadInv
  OBVIOUS
<1> USE ReadAssumption, EmptyValues DEF ReadInit
<1>1. /\ server = FreshServer /\ FreshServer.sign.kb = Nothing
      /\ \A r \in Requests : request[r] = NoRequest /\ request[r].pc = "idle"
  BY DEF FreshServer, NoSignature, NoRequest
<1>2. ReadTypeOK
  BY <1>1 DEF ReadTypeOK, Corpora, Indexes
<1>3. LockInv /\ SignedInv /\ OwnInv /\ AnswersFromOwnKB
  BY <1>1 DEF LockInv, SignedInv, OwnInv, AnswersFromOwnKB, Running
<1> QED BY <1>2, <1>3 DEF ReadInv

LEMMA WriterKeeps ==
  ASSUME ReadInv, NEW k \in Refreshed, WriterNext(k)
  PROVE  ReadInv'
<1> USE ReadAssumption DEF ReadInv
<1>1. /\ UNCHANGED <<processVars, runLock, server, starts>>
      /\ Touch(k) \/ UNCHANGED request
  BY DEF WriterNext, WriteCorpus, CorpusWritten, ClearIndex, SaveIndex,
         SaveVocabulary, WriterStops, WriterOnly
<1>2. /\ request' \in [Requests -> RequestStates]
      /\ \A r \in Requests :
           /\ request'[r].pc = request[r].pc /\ request'[r].kb = request[r].kb
           /\ request'[r].mark = request[r].mark
           /\ request'[r].hits = request[r].hits
  BY <1>1, TouchKeeps DEF ReadTypeOK
<1>3. /\ corpus' \in [KBs -> Corpora] /\ bm25' \in [KBs -> Indexes]
      /\ writer' \in [KBs -> {"idle", "writing", "clearing", "saving", "vocabulary"}]
      /\ refreshes' \in Nat /\ mishaps' \in Nat
  <2> USE DEF ReadTypeOK, WriterOnly
  <2>1. CASE WriteCorpus(k)
    BY <2>1 DEF WriteCorpus, Corpora
  <2>2. CASE CorpusWritten(k)
    BY <2>2 DEF CorpusWritten, Corpora
  <2>3. CASE ClearIndex(k)
    BY <2>3, EmptyValues DEF ClearIndex
  <2>4. CASE SaveIndex(k)
    BY <2>4 DEF SaveIndex, Corpora, Indexes
  <2>5. CASE SaveVocabulary(k)
    BY <2>5 DEF SaveVocabulary, Indexes
  <2>6. CASE WriterStops(k)
    BY <2>6 DEF WriterStops, Mishap
  <2> QED BY <2>1, <2>2, <2>3, <2>4, <2>5, <2>6 DEF WriterNext
<1>4. ReadTypeOK'
  BY <1>1, <1>2, <1>3 DEF ReadTypeOK, processVars
<1>5. LockInv' /\ SignedInv' /\ OwnInv' /\ AnswersFromOwnKB'
  BY <1>1, <1>2 DEF LockInv, SignedInv, OwnInv, AnswersFromOwnKB, processVars
<1> QED BY <1>4, <1>5

LEMMA ProcessKeeps ==
  ASSUME ReadInv, ProcessNext
  PROVE  ReadInv'
<1> USE ReadAssumption, EmptyValues DEF ReadInv, filesVars, processVars, StartOnly, Mishap
<1>1. CASE StartCold \/ StartFails
  <2>1. ReadTypeOK'
    BY <1>1 DEF StartCold, StartFails, ReadTypeOK
  <2>2. LockInv' /\ SignedInv' /\ OwnInv' /\ AnswersFromOwnKB'
    BY <1>1 DEF StartCold, StartFails, LockInv, SignedInv, OwnInv, AnswersFromOwnKB
  <2> QED BY <2>1, <2>2
<1>2. CASE StartWarming
  <2>1. ReadTypeOK'
    BY <1>2 DEF StartWarming, ReadTypeOK
  <2>2. LockInv' /\ SignedInv' /\ OwnInv' /\ AnswersFromOwnKB'
    BY <1>2 DEF StartWarming, LockInv, SignedInv, OwnInv, AnswersFromOwnKB, Running
  <2> QED BY <2>1, <2>2
<1>3. CASE Stop \/ ServerDies
  <2>1. FreshServer.sign.kb = Nothing
    BY DEF FreshServer, NoSignature
  <2>2. ReadTypeOK'
    <3>1. CASE Stop
      BY <3>1 DEF Stop, ReadTypeOK
    <3>2. CASE ServerDies
      <4>1. alive' = FALSE /\ server' = FreshServer /\ mishaps' \in Nat
        BY <3>2 DEF ServerDies, ReadTypeOK
      <4> QED BY <3>2, <4>1 DEF ServerDies, ReadTypeOK
    <3> QED BY <1>3, <3>1, <3>2
  <2>3. LockInv' /\ SignedInv' /\ OwnInv' /\ AnswersFromOwnKB'
    BY <1>3, <2>1 DEF Stop, ServerDies, LockInv, SignedInv, OwnInv, AnswersFromOwnKB, Running
  <2> QED BY <2>2, <2>3
<1>4. ASSUME NEW r \in Requests, WarmupAnswered(r) \/ WarmupFailed(r) PROVE ReadInv'
  <2>1. /\ request' \in [Requests -> RequestStates]
        /\ \A q \in Requests : request'[q].pc # "idle" => request'[q].kb \in KBs
        /\ request'[r].pc = "idle"
        /\ \A q \in Requests \ {r} : request'[q] = request[q]
    <3>1. NoRequest.pc = "idle" /\ request' = [request EXCEPT ![r] = NoRequest]
      BY <1>4 DEF WarmupAnswered, WarmupFailed, NoRequest
    <3> QED BY <3>1, OneRequest
  <2>2. ReadTypeOK'
    BY <1>4, <2>1 DEF WarmupAnswered, WarmupFailed, ReadTypeOK
  <2>3. LockInv' /\ SignedInv' /\ OwnInv' /\ AnswersFromOwnKB'
    BY <1>4, <2>1 DEF WarmupAnswered, WarmupFailed, LockInv, SignedInv, OwnInv,
       AnswersFromOwnKB, Running
  <2> QED BY <2>2, <2>3
<1>5. ASSUME NEW r \in Requests, NEW k \in KBs, WarmupQuery(r, k) PROVE ReadInv'
  <2>1. /\ request' \in [Requests -> RequestStates]
        /\ \A q \in Requests : request'[q].pc # "idle" => request'[q].kb \in KBs
        /\ request'[r].pc = "session"
        /\ \A q \in Requests \ {r} : request'[q] = request[q]
    BY <1>5, NewRequest DEF WarmupQuery
  <2>2. ReadTypeOK'
    BY <1>5, <2>1 DEF WarmupQuery, ReadTypeOK
  <2>3. LockInv' /\ SignedInv' /\ OwnInv' /\ AnswersFromOwnKB'
    BY <1>5, <2>1 DEF WarmupQuery, LockInv, SignedInv, OwnInv, AnswersFromOwnKB, Running
  <2> QED BY <2>2, <2>3
<1> QED BY <1>1, <1>2, <1>3, <1>4, <1>5 DEF ProcessNext

LEMMA RequestKeeps ==
  ASSUME ReadInv, NEW r \in Requests, RequestNext(r)
  PROVE  ReadInv'
<1> USE ReadAssumption, EmptyValues
    DEF ReadInv, filesVars, processVars, RunOnly, Mishap, At
<1> request[r] \in RequestStates /\ server \in Servers
  BY DEF ReadTypeOK
<1>1. ASSUME NEW k \in KBs, Ask(r, k) PROVE ReadInv'
  <2>1. /\ request' \in [Requests -> RequestStates]
        /\ \A q \in Requests : request'[q].pc # "idle" => request'[q].kb \in KBs
        /\ request'[r].pc = "session"
        /\ \A q \in Requests \ {r} : request'[q] = request[q]
    BY <1>1, NewRequest DEF Ask
  <2>2. ReadTypeOK'
    BY <1>1, <2>1 DEF Ask, ReadTypeOK
  <2>3. LockInv' /\ SignedInv' /\ OwnInv' /\ AnswersFromOwnKB'
    BY <1>1, <2>1 DEF Ask, Serving, LockInv, SignedInv, OwnInv, AnswersFromOwnKB, Running
  <2> QED BY <2>2, <2>3
<1>2. CASE Respond(r)
  <2>1. /\ request' \in [Requests -> RequestStates]
        /\ \A q \in Requests : request'[q].pc # "idle" => request'[q].kb \in KBs
        /\ request'[r].pc = "idle"
        /\ \A q \in Requests \ {r} : request'[q] = request[q]
    BY <1>2, OneRequest DEF Respond, NoRequest
  <2>2. ReadTypeOK'
    BY <1>2, <2>1 DEF Respond, ReadTypeOK
  <2>3. LockInv' /\ SignedInv' /\ OwnInv' /\ AnswersFromOwnKB'
    BY <1>2, <2>1 DEF Respond, LockInv, SignedInv, OwnInv, AnswersFromOwnKB, Running
  <2> QED BY <2>2, <2>3
<1>3. CASE EnterSession(r) \/ SessionThere(r)
  <2>1. /\ request' \in [Requests -> RequestStates]
        /\ \A q \in Requests : request'[q].pc # "idle" => request'[q].kb \in KBs
        /\ request'[r].pc = "lock" /\ request'[r].kb = request[r].kb
        /\ request'[r].mark = request[r].mark
        /\ \A q \in Requests \ {r} : request'[q] = request[q]
    BY <1>3, MovedRequest DEF EnterSession, SessionThere, Steps
  <2>2. ReadTypeOK'
    BY <1>3, <2>1 DEF EnterSession, SessionThere, ReadTypeOK
  <2>3. LockInv' /\ SignedInv' /\ OwnInv' /\ AnswersFromOwnKB'
    BY <1>3, <2>1 DEF EnterSession, SessionThere, LockInv, SignedInv, OwnInv, AnswersFromOwnKB, Running
  <2> QED BY <2>2, <2>3
<1>4. CASE SessionFails(r)
  <2> DEFINE s == [request[r] EXCEPT !.pc = "failed", !.sane = FALSE]
  <2>1. s \in RequestStates /\ s.kb = request[r].kb /\ s.pc = "failed"
    BY DEF RequestStates, Steps
  <2>2. request' = [request EXCEPT ![r] = s]
    BY <1>4 DEF SessionFails
  <2>3. /\ request[r].pc = "session" /\ session # "entered" /\ session' = "made"
        /\ UNCHANGED <<filesVars, health, toWarm, alive, runLock, server, starts>>
        /\ mishaps' \in Nat
    BY <1>4 DEF SessionFails, ReadTypeOK
  <2> HIDE DEF s
  <2>4. ReadTypeOK'
    BY <2>1, <2>2, <2>3 DEF ReadTypeOK
  <2>5. LockInv' /\ SignedInv' /\ OwnInv' /\ AnswersFromOwnKB'
    BY <2>1, <2>2, <2>3 DEF ReadTypeOK, LockInv, SignedInv, OwnInv, AnswersFromOwnKB, Running
  <2> QED BY <2>4, <2>5
<1>5. CASE Acquire(r)
  <2>1. /\ request' \in [Requests -> RequestStates]
        /\ \A q \in Requests : request'[q].pc # "idle" => request'[q].kb \in KBs
        /\ request'[r].pc = "init" /\ request'[r].kb = request[r].kb
        /\ request'[r].mark = request[r].mark
        /\ \A q \in Requests \ {r} : request'[q] = request[q]
    BY <1>5, MovedRequest DEF Acquire, Steps
  <2>2. ReadTypeOK'
    BY <1>5, <2>1 DEF Acquire, ReadTypeOK
  <2>3. LockInv' /\ SignedInv' /\ OwnInv' /\ AnswersFromOwnKB'
    BY <1>5, <2>1 DEF Acquire, LockInv, SignedInv, OwnInv, AnswersFromOwnKB, Running
  <2> QED BY <2>2, <2>3
<1>6. CASE ServerGone(r) \/ TornIndex(r) \/ SearchFails(r)
  <2>1. /\ request' \in [Requests -> RequestStates]
        /\ \A q \in Requests : request'[q].pc # "idle" => request'[q].kb \in KBs
        /\ request'[r].pc = "failed"
        /\ \A q \in Requests \ {r} : request'[q] = request[q]
    BY <1>6, FailedRequest DEF ServerGone, TornIndex, SearchFails, Servers
  <2>2. ReadTypeOK'
    BY <1>6, <2>1 DEF ServerGone, TornIndex, SearchFails, ReadTypeOK, FailRun
  <2>3. LockInv' /\ SignedInv' /\ OwnInv' /\ AnswersFromOwnKB'
    BY <1>6, <2>1 DEF ServerGone, TornIndex, SearchFails, FailRun, LockInv, SignedInv, OwnInv, AnswersFromOwnKB, Running
  <2> QED BY <2>2, <2>3
<1>7. CASE SkipInit(r)
  <2>1. /\ request' \in [Requests -> RequestStates]
        /\ \A q \in Requests : request'[q].pc # "idle" => request'[q].kb \in KBs
        /\ request'[r].pc = "search" /\ request'[r].kb = request[r].kb
        /\ \A q \in Requests \ {r} : request'[q] = request[q]
    BY <1>7, MovedRequest DEF SkipInit, Steps
  <2>2. server.sign.kb = request[r].kb /\ request[r].kb \in KBs
    BY <1>7, SignatureType DEF SkipInit, ReadTypeOK
  <2>3. ReadTypeOK'
    BY <1>7, <2>1 DEF SkipInit, ReadTypeOK
  <2>4. LockInv' /\ SignedInv' /\ OwnInv' /\ AnswersFromOwnKB'
    BY <1>7, <2>1, <2>2 DEF SkipInit, LockInv, SignedInv, OwnInv, AnswersFromOwnKB, Running
  <2> QED BY <2>3, <2>4
<1>8. CASE BeginInit(r)
  <2> DEFINE k == request[r].kb
             s == [request[r] EXCEPT !.pc = "corpus", !.mark = Signature(k)]
             v == [server EXCEPT !.kb = k, !.records = NoRecords, !.model = Nothing,
                                 !.soured = TRUE]
  <2>1. k \in KBs /\ Signature(k) \in Signatures /\ Signature(k).kb = k
    BY <1>8, SignatureType DEF BeginInit, ReadTypeOK
  <2>2. s \in RequestStates /\ s.kb = k /\ s.pc = "corpus" /\ s.mark.kb = k
    BY <2>1 DEF RequestStates, Steps
  <2>3. v \in Servers /\ v.kb = k /\ v.model = Nothing
    BY <2>1 DEF Servers, KBsOrNone
  <2>4. request' = [request EXCEPT ![r] = s] /\ server' = v
    BY <1>8 DEF BeginInit
  <2>5. request[r].pc = "init" /\ UNCHANGED runLock
    BY <1>8 DEF BeginInit
  <2>6. UNCHANGED <<filesVars, processVars, starts, mishaps>>
    BY <1>8 DEF BeginInit
  <2> HIDE DEF k, s, v
  <2>7. ReadTypeOK'
    BY <2>1, <2>2, <2>3, <2>4, <2>5, <2>6 DEF ReadTypeOK
  <2>8. LockInv' /\ SignedInv' /\ OwnInv' /\ AnswersFromOwnKB'
    BY <2>1, <2>2, <2>3, <2>4, <2>5, <2>6 DEF ReadTypeOK, LockInv, SignedInv, OwnInv, AnswersFromOwnKB, Running
  <2> QED BY <2>7, <2>8
<1>9. CASE LoadCorpus(r) \/ TornRow(r)
  <2>1. PICK c \in Readable(request[r].kb) : server' = [server EXCEPT !.records = c]
    BY <1>9 DEF LoadCorpus, TornRow
  <2>2. c \in Records
    BY <1>9, <2>1, ReadableType DEF LoadCorpus, TornRow, ReadTypeOK
  <2>3. server' \in Servers /\ server'.kb = server.kb /\ server'.model = server.model
        /\ server'.sign = server.sign
    BY <2>1, <2>2 DEF Servers
  <2>4. CASE LoadCorpus(r)
    <3>1. /\ request' \in [Requests -> RequestStates]
          /\ \A q \in Requests : request'[q].pc # "idle" => request'[q].kb \in KBs
          /\ request'[r].pc = "index" /\ request'[r].kb = request[r].kb
          /\ request'[r].mark = request[r].mark
          /\ \A q \in Requests \ {r} : request'[q] = request[q]
      BY <2>4, MovedRequest DEF LoadCorpus, Steps
    <3>2. ReadTypeOK'
      BY <2>4, <2>3, <3>1 DEF LoadCorpus, ReadTypeOK
    <3>3. LockInv' /\ SignedInv' /\ OwnInv' /\ AnswersFromOwnKB'
      BY <2>4, <2>3, <3>1 DEF LoadCorpus, LockInv, SignedInv, OwnInv, AnswersFromOwnKB, Running
    <3> QED BY <3>2, <3>3
  <2>5. CASE TornRow(r)
    <3>1. /\ request' \in [Requests -> RequestStates]
          /\ \A q \in Requests : request'[q].pc # "idle" => request'[q].kb \in KBs
          /\ request'[r].pc = "failed"
          /\ \A q \in Requests \ {r} : request'[q] = request[q]
      BY <2>5, FailedRequest DEF TornRow
    <3>2. ReadTypeOK'
      BY <2>5, <2>3, <3>1 DEF TornRow, FailRun, ReadTypeOK
    <3>3. LockInv' /\ SignedInv' /\ OwnInv' /\ AnswersFromOwnKB'
      BY <2>5, <2>3, <3>1 DEF TornRow, FailRun, LockInv, SignedInv, OwnInv, AnswersFromOwnKB, Running
    <3> QED BY <3>2, <3>3
  <2> QED BY <1>9, <2>4, <2>5
<1>10. CASE LoadIndex(r)
  <2> DEFINE k == request[r].kb
             m == bm25[k].of
             s == [request[r] EXCEPT !.pc = "search", !.mark = NoSignature]
             v == [server EXCEPT !.model = m, !.sign = request[r].mark, !.soured = FALSE]
  <2>1. k \in KBs /\ m \in Versions
    BY <1>10 DEF LoadIndex, ReadTypeOK, Indexes, Versions
  <2>2. s \in RequestStates /\ s.kb = k /\ s.pc = "search"
    BY DEF RequestStates, Steps
  <2>3. v \in Servers /\ v.kb = server.kb /\ v.sign = request[r].mark
    BY <2>1 DEF Servers, RequestStates
  <2>4. request' = [request EXCEPT ![r] = s] /\ server' = v
    BY <1>10 DEF LoadIndex
  <2>5. request[r].pc = "index" /\ alive /\ UNCHANGED runLock
    BY <1>10 DEF LoadIndex
  <2>6. UNCHANGED <<filesVars, processVars, starts, mishaps>>
    BY <1>10 DEF LoadIndex
  <2> HIDE DEF k, m, s, v
  <2>7. server.kb = k /\ request[r].mark.kb = k
    BY <2>5 DEF OwnInv, k
  <2>8. ReadTypeOK'
    BY <2>1, <2>2, <2>3, <2>4, <2>5, <2>6 DEF ReadTypeOK
  <2>9. LockInv' /\ SignedInv' /\ OwnInv' /\ AnswersFromOwnKB'
    BY <2>1, <2>2, <2>3, <2>4, <2>5, <2>6, <2>7 DEF ReadTypeOK, LockInv, SignedInv, OwnInv, AnswersFromOwnKB, Running
  <2> QED BY <2>8, <2>9
<1>11. CASE Search(r)
  <2> DEFINE h == [kb |-> server.kb, records |-> server.records, of |-> server.model]
             s == [request[r] EXCEPT !.pc = "answered", !.sane = ~server.soured, !.hits = h]
  <2>1. h \in Hits /\ h.kb = server.kb /\ h.records = server.records
    BY DEF Hits, Servers
  <2>2. s \in RequestStates /\ s.kb = request[r].kb /\ s.pc = "answered" /\ s.hits = h
    <3> HIDE DEF h
    <3> QED BY <2>1 DEF RequestStates, Steps, Servers
  <2>3. request' = [request EXCEPT ![r] = s]
    BY <1>11 DEF Search
  <2>4. /\ request[r].pc = "search" /\ alive /\ runLock' = Nothing
        /\ server.records.rows => server.model # Nothing
        /\ UNCHANGED <<filesVars, processVars, starts, mishaps, server>>
    BY <1>11 DEF Search
  <2> HIDE DEF h, s
  <2>5. s.hits.records.rows => s.hits.kb = s.kb
    BY <2>1, <2>2, <2>4 DEF OwnInv
  <2>6. ReadTypeOK'
    BY <2>2, <2>3, <2>4 DEF ReadTypeOK
  <2>7. LockInv' /\ SignedInv' /\ OwnInv' /\ AnswersFromOwnKB'
    BY <2>2, <2>3, <2>4, <2>5 DEF ReadTypeOK, LockInv, SignedInv, OwnInv, AnswersFromOwnKB, Running
  <2> QED BY <2>6, <2>7
<1> QED BY <1>1, <1>2, <1>3, <1>4, <1>5, <1>6, <1>7, <1>8, <1>9, <1>10, <1>11
        DEF RequestNext

LEMMA ReadInvariant == ReadSpec => []ReadInv
<1>1. ReadInv /\ [ReadNext]_readVars => ReadInv'
  <2> SUFFICES ASSUME ReadInv, [ReadNext]_readVars PROVE ReadInv'
    OBVIOUS
  <2>1. CASE ReadNext
    BY <2>1, WriterKeeps, ProcessKeeps, RequestKeeps DEF ReadNext
  <2>2. CASE UNCHANGED readVars
    BY <2>2 DEF readVars, filesVars, processVars, ReadInv, ReadTypeOK, LockInv,
       SignedInv, OwnInv, AnswersFromOwnKB
  <2> QED BY <2>1, <2>2
<1> QED BY <1>1, ReadInvInit, PTL DEF ReadSpec

-----------------------------------------------------------------------------
(* That answers are current.  A signature tells which state of the files   *)
(* an init has met at its start, not which state it went on to read; that  *)
(* this is enough rests on how the writer goes about: a corpus is given a  *)
(* new number before anything else changes, and once its files agree they  *)
(* are left alone until the next one.                                      *)

(* What a refresh, wherever it is or has stopped, leaves of the files.     *)
FilesFit(k) ==
  /\ bm25[k].of # Nothing => bm25[k].of <= corpus[k].ver
  /\ bm25[k].of = corpus[k].ver =>
       corpus[k].rows /\ writer[k] \notin {"writing", "clearing"}
  /\ writer[k] = "saving" => bm25[k] = NoIndex /\ corpus[k].rows
  /\ writer[k] = "vocabulary" => ~bm25[k].whole /\ bm25[k].of = corpus[k].ver

(* A signature that was ever computed is of no later corpus than the       *)
(* present one, and if it is of the present one and found the files in     *)
(* agreement, they have been so since.                                     *)
Past(s) ==
  s.kb # Nothing =>
    /\ s.corpus.ver \in Nat /\ s.corpus.ver <= corpus[s.kb].ver
    /\ s.corpus.ver = corpus[s.kb].ver /\ s.corpus.whole
         /\ s.bm25 = [of |-> corpus[s.kb].ver, whole |-> TRUE]
       => Settled(s.kb)

(* If the signature kept is that of files in agreement, the server holds   *)
(* what is in them, unless an init has raised since.                       *)
LoadedFits ==
  server.sign.kb # Nothing /\ ~server.soured
  /\ Settled(server.sign.kb) /\ server.sign = Signature(server.sign.kb)
    => /\ server.kb = server.sign.kb
       /\ server.records = corpus[server.sign.kb]
       /\ server.model = corpus[server.sign.kb].ver

ServerFits == Past(server.sign) /\ LoadedFits

(* A steady request knows the version its knowledge base still has, ...    *)
SteadyFits(q) ==
  q.steady =>
    /\ q.kb \in KBs /\ Settled(q.kb)
    /\ q.since = corpus[q.kb].ver

(* ... and its init the present signature; an init that goes on to find    *)
(* the files as its signature has them has read what is in them.           *)
InitFits(q) ==
  /\ q.steady /\ q.pc \in {"corpus", "index"} => q.mark = Signature(q.kb)
  /\ alive /\ q.pc \in {"corpus", "index"} => server.soured
  /\ alive /\ q.pc = "index" /\ Settled(q.kb) /\ q.mark = Signature(q.kb) =>
       server.records = corpus[q.kb]

SearchFits(q) ==
  alive /\ q.pc = "search" /\ q.steady /\ ~server.soured => server.sign = Signature(q.kb)

AnswerFits(q) ==
  q.pc \in {"answered", "failed"} /\ q.steady /\ q.sane =>
    /\ q.pc = "answered"
    /\ q.hits.records = [ver |-> q.since, whole |-> TRUE, rows |-> TRUE]
    /\ q.hits.of = q.since

Fits(q) == SteadyFits(q) /\ Past(q.mark) /\ InitFits(q) /\ SearchFits(q) /\ AnswerFits(q)

CurrentInv ==
  /\ \A k \in KBs : FilesFit(k)
  /\ ServerFits
  /\ \A r \in Requests : \A q : q = request[r] => Fits(q)

(* Only what has a signature of its own is past anything. *)
LEMMA PastOfNothing == Past(NoSignature)
BY DEF Past, NoSignature

LEMMA PastOfPresent ==
  ASSUME ReadTypeOK, NEW k \in KBs, FilesFit(k)
  PROVE  Past(Signature(k))
<1>1. corpus[k] \in Corpora /\ bm25[k] \in Indexes
  BY DEF ReadTypeOK
<1>2. writer[k] \in {"idle", "writing", "clearing", "saving", "vocabulary"}
  BY DEF ReadTypeOK
<1>3. /\ Signature(k).kb = k /\ Signature(k).corpus = corpus[k]
      /\ Signature(k).bm25 = bm25[k]
  BY DEF Signature
<1>4. corpus[k].ver \in Nat /\ corpus[k].ver <= corpus[k].ver
  BY <1>1 DEF Corpora
<1>5. ASSUME corpus[k].whole, bm25[k] = [of |-> corpus[k].ver, whole |-> TRUE]
      PROVE  Settled(k)
  <2>1. bm25[k].of = corpus[k].ver /\ bm25[k].whole /\ bm25[k].of # Nothing
    BY <1>4, <1>5, ReadAssumption
  <2>2. writer[k] = "idle"
    BY <1>2, <2>1 DEF FilesFit, NoIndex
  <2> QED BY <1>5, <2>2 DEF Settled
<1> QED BY <1>3, <1>4, <1>5 DEF Past

-----------------------------------------------------------------------------
(* Steps that leave the files alone.                                       *)

FilesStill == UNCHANGED <<corpus, bm25, writer>>

LEMMA StillSettled ==
  ASSUME FilesStill
  PROVE  /\ \A k : (Settled(k)' <=> Settled(k)) /\ Signature(k)' = Signature(k)
         /\ \A k : FilesFit(k)' <=> FilesFit(k)
         /\ \A s : Past(s)' <=> Past(s)
BY DEF FilesStill, Settled, Signature, FilesFit, Past

(* They leave a request what it is, if it does not look at the server or   *)
(* the server stays, too.                                                  *)
LEMMA FitsStill ==
  ASSUME FilesStill, NEW q, Fits(q),
         UNCHANGED <<server, alive>> \/ ~alive' \/ q.pc \notin {"corpus", "index", "search"}
  PROVE  Fits(q)'
<1>1. /\ \A k : (Settled(k)' <=> Settled(k)) /\ Signature(k)' = Signature(k)
      /\ \A s : Past(s)' <=> Past(s)
      /\ corpus' = corpus
  BY StillSettled DEF FilesStill
<1>2. SteadyFits(q)' /\ Past(q.mark)' /\ AnswerFits(q)'
  BY <1>1 DEF Fits, SteadyFits, AnswerFits
<1>3. InitFits(q)'
  BY <1>1 DEF Fits, InitFits
<1>4. SearchFits(q)'
  BY <1>1 DEF Fits, SearchFits
<1> QED BY <1>2, <1>3, <1>4 DEF Fits

LEMMA ServerStill ==
  ASSUME FilesStill, UNCHANGED server, ServerFits
  PROVE  ServerFits'
BY StillSettled DEF ServerFits, LoadedFits, FilesStill

LEMMA FreshServerFits ==
  ASSUME server' = FreshServer
  PROVE  ServerFits'
BY DEF ServerFits, LoadedFits, Past, FreshServer, NoSignature

Unseen(Q) ==
  UNCHANGED <<server, alive>> \/ ~alive'
  \/ \A q \in Q : request[q].pc \notin {"corpus", "index", "search"}

LEMMA RequestsStill ==
  ASSUME CurrentInv, FilesStill, UNCHANGED request, ServerFits', Unseen(Requests)
  PROVE  CurrentInv'
<1>1. \A k \in KBs : FilesFit(k)'
  BY StillSettled DEF CurrentInv
<1>2. ASSUME NEW r \in Requests, NEW q, q = request'[r]
      PROVE  Fits(q)'
  <2>1. q = request[r]
    BY <1>2
  <2>2. Fits(q)
    BY <2>1 DEF CurrentInv
  <2>3. UNCHANGED <<server, alive>> \/ ~alive' \/ q.pc \notin {"corpus", "index", "search"}
    BY <2>1 DEF Unseen
  <2>4. Fits(q)'
    BY <2>2, <2>3, FitsStill
  <2> QED BY <2>4
<1> QED BY <1>1, <1>2 DEF CurrentInv

LEMMA OneRequestFits ==
  ASSUME ReadTypeOK, CurrentInv, FilesStill, ServerFits',
         NEW r \in Requests, NEW s, Fits(s)', request' = [request EXCEPT ![r] = s],
         Unseen(Requests \ {r})
  PROVE  CurrentInv'
<1>1. \A k \in KBs : FilesFit(k)'
  BY StillSettled DEF CurrentInv
<1>2. ASSUME NEW p \in Requests, NEW q, q = request'[p]
      PROVE  Fits(q)'
  <2>1. CASE p = r
    <3>1. q = s
      BY <1>2, <2>1 DEF ReadTypeOK
    <3> QED BY <3>1
  <2>2. CASE p # r
    <3>1. q = request[p]
      BY <1>2, <2>2 DEF ReadTypeOK
    <3>2. Fits(q)
      BY <3>1 DEF CurrentInv
    <3>3. UNCHANGED <<server, alive>> \/ ~alive' \/ q.pc \notin {"corpus", "index", "search"}
      BY <2>2, <3>1 DEF Unseen
    <3>4. Fits(q)'
      BY <3>2, <3>3, FitsStill
    <3> QED BY <3>4
  <2> QED BY <2>1, <2>2
<1> QED BY <1>1, <1>2 DEF CurrentInv

-----------------------------------------------------------------------------
(* The writer.                                                             *)

(* What a step of it does to the files of its knowledge base: they do not  *)
(* agree before it, unless it is the first one of a refresh, and they do   *)
(* not agree after it, unless it was the last one.                         *)
LEMMA WriterEffect ==
  ASSUME ReadTypeOK, NEW k \in KBs, FilesFit(k), WriterNext(k)
  PROVE  /\ FilesFit(k)'
         /\ \A j \in KBs \ {k} :
              /\ corpus'[j] = corpus[j] /\ bm25'[j] = bm25[j] /\ writer'[j] = writer[j]
         /\ \/ corpus'[k].ver = corpus[k].ver + 1 /\ ~Settled(k)'
            \/ corpus'[k].ver = corpus[k].ver /\ ~Settled(k)
         /\ UNCHANGED <<server, alive>>
         /\ Touch(k) \/ (request' = request /\ ~Settled(k))
<1>0. /\ corpus[k] \in Corpora /\ bm25[k] \in Indexes /\ corpus[k].ver \in Nat
      /\ corpus \in [KBs -> Corpora] /\ bm25 \in [KBs -> Indexes]
      /\ writer \in [KBs -> {"idle", "writing", "clearing", "saving", "vocabulary"}]
  BY DEF ReadTypeOK, Corpora
<1>00. UNCHANGED <<server, alive>>
  BY DEF WriterNext, WriteCorpus, CorpusWritten, ClearIndex, SaveIndex, SaveVocabulary,
         WriterStops, WriterOnly, processVars
<1> USE ReadAssumption
<1>1. CASE WriteCorpus(k)
  <2>1. PICK some \in BOOLEAN :
          corpus' = [corpus EXCEPT ![k] = [ver |-> @.ver + 1, whole |-> FALSE, rows |-> some]]
    BY <1>1 DEF WriteCorpus
  <2>2. /\ corpus'[k].ver = corpus[k].ver + 1 /\ ~corpus'[k].whole
        /\ bm25' = bm25 /\ writer'[k] = "writing" /\ Touch(k)
    BY <1>0, <1>1, <2>1 DEF WriteCorpus
  <2>3. FilesFit(k)'
    <3>1. bm25[k].of # Nothing => bm25[k].of \in Nat
      BY <1>0 DEF Indexes
    <3> QED BY <1>0, <2>2, <3>1 DEF FilesFit
  <2>4. \A j \in KBs \ {k} :
          corpus'[j] = corpus[j] /\ bm25'[j] = bm25[j] /\ writer'[j] = writer[j]
    BY <1>0, <1>1, <2>1 DEF WriteCorpus
  <2> QED BY <1>00, <2>2, <2>3, <2>4 DEF Settled
<1>2. CASE CorpusWritten(k)
  <2>1. /\ corpus' = [corpus EXCEPT ![k].whole = TRUE] /\ bm25' = bm25
        /\ writer[k] = "writing" /\ writer' = [writer EXCEPT ![k] = "clearing"] /\ Touch(k)
    BY <1>2 DEF CorpusWritten
  <2>2. corpus'[k].ver = corpus[k].ver /\ writer'[k] = "clearing"
    BY <1>0, <2>1 DEF Corpora
  <2>3. FilesFit(k)'
    BY <2>1, <2>2 DEF FilesFit
  <2>4. \A j \in KBs \ {k} :
          corpus'[j] = corpus[j] /\ bm25'[j] = bm25[j] /\ writer'[j] = writer[j]
    BY <1>0, <2>1
  <2> QED BY <1>00, <2>1, <2>2, <2>3, <2>4 DEF Settled
<1>3. CASE ClearIndex(k)
  <2>1. /\ bm25' = [bm25 EXCEPT ![k] = NoIndex] /\ corpus' = corpus
        /\ writer[k] = "clearing" /\ Touch(k)
        /\ writer' = [writer EXCEPT ![k] = IF corpus[k].rows THEN "saving" ELSE "idle"]
    BY <1>3 DEF ClearIndex
  <2>2. /\ bm25'[k] = NoIndex /\ NoIndex.of = Nothing
        /\ (writer'[k] = "saving" /\ corpus[k].rows) \/ writer'[k] = "idle"
    BY <1>0, <2>1 DEF NoIndex
  <2>3. FilesFit(k)'
    BY <1>0, <2>1, <2>2 DEF FilesFit
  <2>4. \A j \in KBs \ {k} :
          corpus'[j] = corpus[j] /\ bm25'[j] = bm25[j] /\ writer'[j] = writer[j]
    BY <1>0, <2>1
  <2> QED BY <1>00, <2>1, <2>3, <2>4 DEF Settled
<1>4. CASE SaveIndex(k)
  <2>1. /\ bm25' = [bm25 EXCEPT ![k] = [of |-> corpus[k].ver, whole |-> FALSE]]
        /\ corpus' = corpus /\ Touch(k)
        /\ writer[k] = "saving" /\ writer' = [writer EXCEPT ![k] = "vocabulary"]
    BY <1>4 DEF SaveIndex
  <2>2. /\ bm25'[k].of = corpus[k].ver /\ bm25'[k].whole = FALSE
        /\ writer'[k] = "vocabulary"
    BY <1>0, <2>1
  <2>3. FilesFit(k)'
    BY <1>0, <2>1, <2>2 DEF FilesFit
  <2>4. \A j \in KBs \ {k} :
          corpus'[j] = corpus[j] /\ bm25'[j] = bm25[j] /\ writer'[j] = writer[j]
    BY <1>0, <2>1
  <2> QED BY <1>00, <2>1, <2>3, <2>4 DEF Settled
<1>5. CASE SaveVocabulary(k)
  <2>1. /\ bm25' = [bm25 EXCEPT ![k].whole = TRUE] /\ corpus' = corpus /\ Touch(k)
        /\ writer[k] = "vocabulary" /\ writer' = [writer EXCEPT ![k] = "idle"]
    BY <1>5 DEF SaveVocabulary
  <2>2. bm25'[k].of = bm25[k].of /\ writer'[k] = "idle"
    BY <1>0, <2>1 DEF Indexes
  <2>3. FilesFit(k)'
    BY <1>0, <2>1, <2>2 DEF FilesFit
  <2>4. \A j \in KBs \ {k} :
          corpus'[j] = corpus[j] /\ bm25'[j] = bm25[j] /\ writer'[j] = writer[j]
    BY <1>0, <2>1
  <2> QED BY <1>00, <2>1, <2>3, <2>4 DEF Settled
<1>6. CASE WriterStops(k)
  <2>1. /\ UNCHANGED <<corpus, bm25, request>>
        /\ writer[k] # "idle" /\ writer' = [writer EXCEPT ![k] = "idle"]
    BY <1>6 DEF WriterStops
  <2>2. writer'[k] = "idle"
    BY <1>0, <2>1
  <2>3. FilesFit(k)'
    BY <2>1, <2>2 DEF FilesFit
  <2>4. \A j \in KBs \ {k} :
          corpus'[j] = corpus[j] /\ bm25'[j] = bm25[j] /\ writer'[j] = writer[j]
    BY <1>0, <2>1
  <2> QED BY <1>00, <2>1, <2>3, <2>4 DEF Settled
<1> QED BY <1>1, <1>2, <1>3, <1>4, <1>5, <1>6 DEF WriterNext

(* So a signature of the past stays one, and none is the present one when  *)
(* the files come to agree.                                                *)
LEMMA PastStays ==
  ASSUME ReadTypeOK, NEW k \in KBs, FilesFit(k), WriterNext(k),
         NEW s \in Signatures, Past(s)
  PROVE  /\ Past(s)'
         /\ s.kb = k => ~(Settled(k)' /\ s = Signature(k)')
<1>1. /\ \A j \in KBs \ {k} :
           corpus'[j] = corpus[j] /\ bm25'[j] = bm25[j] /\ writer'[j] = writer[j]
      /\ \/ corpus'[k].ver = corpus[k].ver + 1 /\ ~Settled(k)'
         \/ corpus'[k].ver = corpus[k].ver /\ ~Settled(k)
  BY WriterEffect
<1>2. corpus[k].ver \in Nat
  BY DEF ReadTypeOK, Corpora
<1>3. s.kb = Nothing \/ s.kb \in KBs
  BY DEF Signatures, KBsOrNone
<1>4. CASE s.kb = Nothing
  BY <1>4, ReadAssumption DEF Past
<1>5. CASE s.kb \in KBs \ {k}
  BY <1>1, <1>5 DEF Past, Settled
<1>6. CASE s.kb = k
  <2>1. s.kb # Nothing /\ s.corpus.ver \in Nat /\ s.corpus.ver <= corpus[k].ver
    BY <1>6, ReadAssumption DEF Past
  <2>2. CASE corpus'[k].ver = corpus[k].ver + 1 /\ ~Settled(k)'
    <3>1. s.corpus.ver <= corpus'[k].ver /\ s.corpus.ver # corpus'[k].ver
      BY <1>2, <2>1, <2>2
    <3> QED BY <1>6, <2>1, <2>2, <3>1 DEF Past
  <2>3. CASE corpus'[k].ver = corpus[k].ver /\ ~Settled(k)
    <3>1. ~(/\ s.corpus.ver = corpus[k].ver /\ s.corpus.whole
            /\ s.bm25 = [of |-> corpus[k].ver, whole |-> TRUE])
      BY <1>6, <2>1, <2>3 DEF Past
    <3>2. Past(s)'
      BY <1>6, <2>1, <2>3, <3>1 DEF Past
    <3>3. ~(Settled(k)' /\ s = Signature(k)')
      BY <2>3, <3>1 DEF Settled, Signature
    <3> QED BY <3>2, <3>3
  <2> QED BY <1>1, <2>2, <2>3
<1> QED BY <1>3, <1>4, <1>5, <1>6

LEMMA WriterKeepsCurrent ==
  ASSUME ReadInv, CurrentInv, NEW k \in Refreshed, WriterNext(k)
  PROVE  CurrentInv'
<1>0. k \in KBs /\ ReadTypeOK /\ FilesFit(k)
  BY ReadAssumption DEF ReadInv, CurrentInv
<1>1. /\ FilesFit(k)'
      /\ \A j \in KBs \ {k} :
           corpus'[j] = corpus[j] /\ bm25'[j] = bm25[j] /\ writer'[j] = writer[j]
      /\ UNCHANGED <<server, alive>>
      /\ Touch(k) \/ (request' = request /\ ~Settled(k))
  BY <1>0, WriterEffect
<1>2. \A j \in KBs \ {k} : /\ Settled(j)' <=> Settled(j)
                           /\ Signature(j)' = Signature(j)
                           /\ FilesFit(j)' <=> FilesFit(j)
  BY <1>1 DEF Settled, Signature, FilesFit
<1>3. \A j \in KBs : FilesFit(j)'
  BY <1>1, <1>2 DEF CurrentInv
<1>4. ServerFits'
  <2> DEFINE s == server.sign
  <2>1. s \in Signatures /\ Past(s) /\ LoadedFits /\ s.kb \in KBs \cup {Nothing}
    BY <1>0 DEF ReadTypeOK, Servers, CurrentInv, ServerFits, Signatures, KBsOrNone
  <2>2. PICK t : t = s
    OBVIOUS
  <2>3. Past(t)' /\ (t.kb = k => ~(Settled(k)' /\ t = Signature(k)'))
    BY <1>0, <2>1, <2>2, PastStays
  <2>4. server' = server /\ server'.sign = t
    BY <1>1, <2>2
  <2>5. Past(server.sign)'
    BY <2>3, <2>4 DEF Past
  <2>6. LoadedFits'
    <3>1. CASE t.kb = k
      BY <2>3, <2>4, <3>1 DEF LoadedFits
    <3>2. CASE t.kb \in KBs \ {k}
      BY <1>1, <1>2, <2>1, <2>2, <2>4, <3>2 DEF LoadedFits
    <3>3. CASE t.kb = Nothing
      BY <2>4, <3>3 DEF LoadedFits
    <3> QED BY <2>1, <2>2, <3>1, <3>2, <3>3
  <2> QED BY <2>5, <2>6 DEF ServerFits
<1>5. ASSUME NEW r \in Requests, NEW q, q = request'[r]
      PROVE  Fits(q)'
  <2>0. PICK p : p = request[r]
    OBVIOUS
  <2>1. p \in RequestStates /\ Fits(p)
    BY <1>0, <2>0 DEF ReadTypeOK, CurrentInv
  <2>2. /\ q.pc = p.pc /\ q.kb = p.kb /\ q.mark = p.mark /\ q.hits = p.hits
        /\ q \in RequestStates
    <3>1. CASE Touch(k)
      BY <1>0, <1>5, <2>0, <3>1, TouchKeeps
    <3>2. CASE request' = request
      BY <1>5, <2>0, <2>1, <3>2
    <3> QED BY <1>1, <3>1, <3>2
  <2>3. (q = p /\ p.kb # k) \/ ~q.steady
    <3>1. CASE Touch(k)
      <4>1. CASE p.kb = k
        <5>1. q = [p EXCEPT !.steady = FALSE, !.since = Nothing]
          BY <1>5, <2>0, <3>1, <4>1 DEF Touch
        <5> QED BY <2>1, <5>1 DEF RequestStates
      <4>2. CASE p.kb # k
        BY <1>5, <2>0, <3>1, <4>2 DEF Touch
      <4> QED BY <4>1, <4>2
    <3>2. CASE request' = request /\ ~Settled(k)
      BY <1>5, <2>0, <2>1, <3>2 DEF Fits, SteadyFits
    <3> QED BY <1>1, <3>1, <3>2
  <2>4. SteadyFits(q)'
    BY <1>1, <1>2, <2>1, <2>3 DEF Fits, SteadyFits
  <2>5. PICK m \in Signatures : m = p.mark
    BY <2>1 DEF RequestStates
  <2>6. Past(m)' /\ (m.kb = k => ~(Settled(k)' /\ m = Signature(k)'))
    BY <1>0, <2>1, <2>5, PastStays DEF Fits
  <2>7. Past(q.mark)'
    BY <2>2, <2>5, <2>6 DEF Past
  <2>8. AnswerFits(q)'
    BY <2>1, <2>3 DEF Fits, AnswerFits
  <2>9. SearchFits(q)'
    BY <1>1, <1>2, <2>1, <2>3 DEF Fits, SearchFits, SteadyFits
  <2>10. InitFits(q)'
    <3>1. (q.steady /\ q.pc \in {"corpus", "index"} => q.mark = Signature(q.kb))'
      BY <1>2, <2>1, <2>3 DEF Fits, InitFits, SteadyFits
    <3>2. (alive /\ q.pc \in {"corpus", "index"} => server.soured)'
      BY <1>1, <2>1, <2>2 DEF Fits, InitFits
    <3>3. ASSUME alive', q.pc = "index", Settled(q.kb)', q.mark = Signature(q.kb)'
          PROVE  server'.records = corpus'[q.kb]
      <4>1. q.kb \in KBs
        <5>1. request[r].pc # "idle"
          BY <2>0, <2>2, <3>3
        <5> QED BY <1>0, <2>0, <2>2, <5>1 DEF ReadTypeOK
      <4>2. q.mark.kb = q.kb
        BY <3>3 DEF Signature
      <4>3. q.kb # k
        BY <2>2, <2>5, <2>6, <3>3, <4>2
      <4> QED BY <1>1, <1>2, <2>1, <2>2, <3>3, <4>1, <4>3 DEF Fits, InitFits
    <3> QED BY <3>1, <3>2, <3>3 DEF InitFits
  <2> QED BY <2>4, <2>7, <2>8, <2>9, <2>10 DEF Fits
<1> QED BY <1>3, <1>4, <1>5 DEF CurrentInv

-----------------------------------------------------------------------------
(* The requests.                                                           *)

(* A request at a step that promises nothing fits.                         *)
LEMMA PlainFits ==
  ASSUME NEW q, SteadyFits(q), Past(q.mark), q.pc \in {"idle", "session", "lock", "init"}
  PROVE  Fits(q)
BY DEF Fits, InitFits, SearchFits, AnswerFits

LEMMA MovedPlain ==
  ASSUME ReadTypeOK, NEW q \in RequestStates, Fits(q), NEW p \in {"lock", "init"}
  PROVE  Fits([q EXCEPT !.pc = p])
<1> DEFINE s == [q EXCEPT !.pc = p]
<1>1. /\ s.pc = p /\ s.steady = q.steady /\ s.kb = q.kb
      /\ s.since = q.since /\ s.mark = q.mark
  BY DEF RequestStates
<1>2. SteadyFits(s) /\ Past(s.mark)
  BY <1>1 DEF Fits, SteadyFits
<1>3. Fits(s)
  BY <1>1, <1>2, PlainFits
<1> QED BY <1>3

LEMMA IdleFits == Fits(NoRequest)
BY PlainFits, PastOfNothing DEF NoRequest, SteadyFits

LEMMA ComeKeepsCurrent ==
  ASSUME ReadInv, CurrentInv, NEW r \in Requests, NEW k \in KBs, Come(r, k),
         FilesStill, UNCHANGED <<server, alive>>
  PROVE  CurrentInv'
<1> DEFINE n == IF Settled(k) THEN corpus[k].ver ELSE Nothing
           s == [NoRequest EXCEPT !.pc = "session", !.kb = k, !.steady = Settled(k),
                                  !.since = n]
<1>1. /\ s.pc = "session" /\ s.kb = k /\ s.steady = Settled(k) /\ s.since = n
      /\ s.mark = NoSignature
  BY DEF NoRequest
<1>2. SteadyFits(s)
  BY <1>1 DEF SteadyFits
<1>3. Fits(s)
  BY <1>1, <1>2, PlainFits, PastOfNothing
<1>4. PICK t : t = s
  OBVIOUS
<1>5. request' = [request EXCEPT ![r] = t] /\ Fits(t)
  BY <1>3, <1>4 DEF Come
<1>6. Fits(t)'
  BY <1>5, FitsStill
<1>7. ServerFits' /\ Unseen(Requests \ {r})
  BY ServerStill DEF CurrentInv, Unseen
<1> QED BY <1>5, <1>6, <1>7, OneRequestFits DEF ReadInv

LEMMA DoneKeepsCurrent ==
  ASSUME ReadInv, CurrentInv, NEW r \in Requests,
         request' = [request EXCEPT ![r] = NoRequest],
         FilesStill, UNCHANGED <<server, alive>>
  PROVE  CurrentInv'
<1>1. PICK t : t = NoRequest
  OBVIOUS
<1>2. Fits(t)
  BY <1>1, IdleFits
<1>3. Fits(t)'
  BY <1>2, FitsStill
<1>4. ServerFits' /\ Unseen(Requests \ {r})
  BY ServerStill DEF CurrentInv, Unseen
<1> QED BY <1>1, <1>3, <1>4, OneRequestFits DEF ReadInv

(* A run that fails was not steady or not sane.                            *)
LEMMA FailureKeepsCurrent ==
  ASSUME ReadInv, CurrentInv, NEW r \in Requests, NEW b \in BOOLEAN,
         request' = [request EXCEPT ![r].pc = "failed", ![r].mark = NoSignature, ![r].sane = b],
         request[r].steady => ~b, FilesStill, ServerFits', Unseen(Requests \ {r})
  PROVE  CurrentInv'
<1>0. PICK q : q = request[r]
  OBVIOUS
<1>1. q \in RequestStates /\ Fits(q)
  BY <1>0 DEF ReadInv, ReadTypeOK, CurrentInv
<1> DEFINE s == [q EXCEPT !.pc = "failed", !.mark = NoSignature, !.sane = b]
<1>2. /\ s.pc = "failed" /\ s.mark = NoSignature /\ s.sane = b
      /\ s.steady = q.steady /\ s.kb = q.kb /\ s.since = q.since
  BY <1>1 DEF RequestStates
<1>3. SteadyFits(s)
  BY <1>1, <1>2 DEF Fits, SteadyFits
<1>4. Fits(s)
  BY <1>0, <1>2, <1>3, PastOfNothing DEF Fits, InitFits, SearchFits, AnswerFits
<1>5. request' = [request EXCEPT ![r] = s]
  BY <1>0
<1>6. PICK t : t = s
  OBVIOUS
<1>7. t.pc = "failed" /\ Fits(t)
  BY <1>2, <1>4, <1>6
<1>8. Fits(t)'
  BY <1>7, FitsStill
<1> QED BY <1>5, <1>6, <1>8, OneRequestFits DEF ReadInv

LEMMA MovesKeepCurrent ==
  ASSUME ReadInv, CurrentInv, NEW r \in Requests, NEW p \in {"lock", "init"}, GoOn(r, p),
         FilesStill, UNCHANGED server, Unseen(Requests \ {r})
  PROVE  CurrentInv'
<1>0. PICK q : q = request[r]
  OBVIOUS
<1>1. q \in RequestStates /\ Fits(q) /\ ReadTypeOK
  BY <1>0 DEF ReadInv, ReadTypeOK, CurrentInv
<1>2. PICK t : t = [q EXCEPT !.pc = p]
  OBVIOUS
<1>3. Fits(t) /\ t.pc = p
  BY <1>1, <1>2, MovedPlain DEF RequestStates
<1>4. Fits(t)'
  BY <1>3, FitsStill
<1>5. ServerFits'
  BY ServerStill DEF CurrentInv
<1>6. request' = [request EXCEPT ![r] = t]
  BY <1>0, <1>2 DEF GoOn
<1> QED BY <1>1, <1>4, <1>5, <1>6, OneRequestFits

(* What uses the server holds the lock: nobody else is at it.              *)
LEMMA AloneAtServer ==
  ASSUME ReadInv, NEW r \in Requests, request[r].pc \in Running
  PROVE  Unseen(Requests \ {r})
BY DEF ReadInv, LockInv, Running, Unseen

LEMMA BeginKeepsCurrent ==
  ASSUME ReadInv, CurrentInv, NEW r \in Requests, BeginInit(r)
  PROVE  CurrentInv'
<1>0. PICK q : q = request[r]
  OBVIOUS
<1>1. /\ q \in RequestStates /\ Fits(q) /\ ReadTypeOK /\ server \in Servers
      /\ request[r].pc = "init" /\ q.kb \in KBs
  BY <1>0 DEF ReadInv, ReadTypeOK, CurrentInv, BeginInit, At
<1>2. FilesStill /\ alive' = alive
  BY DEF BeginInit, RunOnly, filesVars, processVars, FilesStill
<1>3. /\ server'.sign = server.sign /\ server'.soured
  BY <1>1 DEF BeginInit, Servers
<1>4. ServerFits'
  BY <1>2, <1>3, StillSettled DEF CurrentInv, ServerFits, LoadedFits, Past, FilesStill
<1>5. PICK m : m = Signature(q.kb)
  OBVIOUS
<1>6. Past(m)
  BY <1>1, <1>5, PastOfPresent DEF CurrentInv
<1>7. PICK t : t = [q EXCEPT !.pc = "corpus", !.mark = m]
  OBVIOUS
<1>8. /\ t.pc = "corpus" /\ t.mark = m /\ t.steady = q.steady /\ t.kb = q.kb
      /\ t.since = q.since
  BY <1>1, <1>7 DEF RequestStates
<1>9. request' = [request EXCEPT ![r] = t]
  BY <1>0, <1>5, <1>7 DEF BeginInit
<1>10. /\ \A k : (Settled(k)' <=> Settled(k)) /\ Signature(k)' = Signature(k)
       /\ corpus' = corpus /\ \A s : Past(s)' <=> Past(s)
  BY <1>2, StillSettled DEF FilesStill
<1>11. SteadyFits(t)' /\ Past(t.mark)'
  BY <1>1, <1>6, <1>8, <1>10 DEF Fits, SteadyFits
<1>12. InitFits(t)' /\ SearchFits(t)' /\ AnswerFits(t)'
  BY <1>3, <1>5, <1>8, <1>10 DEF InitFits, SearchFits, AnswerFits
<1>13. Unseen(Requests \ {r})
  BY <1>1, AloneAtServer DEF Running
<1> QED BY <1>1, <1>2, <1>4, <1>9, <1>11, <1>12, <1>13, OneRequestFits DEF Fits

(* Files in agreement are read as they are.                                *)
LEMMA LoadKeepsCurrent ==
  ASSUME ReadInv, CurrentInv, NEW r \in Requests, LoadCorpus(r)
  PROVE  CurrentInv'
<1>0. PICK q : q = request[r]
  OBVIOUS
<1>1. /\ q \in RequestStates /\ Fits(q) /\ ReadTypeOK /\ server \in Servers
      /\ request[r].pc = "corpus" /\ alive
  BY <1>0 DEF ReadInv, ReadTypeOK, CurrentInv, LoadCorpus, At
<1>2. FilesStill /\ alive' = alive
  BY DEF LoadCorpus, RunOnly, filesVars, processVars, FilesStill
<1>3. PICK c \in Readable(q.kb) : server' = [server EXCEPT !.records = c]
  BY <1>0 DEF LoadCorpus
<1>4. /\ server'.sign = server.sign /\ server'.soured = server.soured
      /\ server'.records = c /\ server.soured
  BY <1>0, <1>1, <1>3 DEF Servers, Fits, InitFits
<1>5. ServerFits'
  BY <1>2, <1>4, StillSettled DEF CurrentInv, ServerFits, LoadedFits, Past, FilesStill
<1>6. Settled(q.kb) => c = corpus[q.kb]
  BY <1>3 DEF Settled, Readable
<1>7. PICK t : t = [q EXCEPT !.pc = "index"]
  OBVIOUS
<1>8. /\ t.pc = "index" /\ t.mark = q.mark /\ t.steady = q.steady /\ t.kb = q.kb
      /\ t.since = q.since
  BY <1>1, <1>7 DEF RequestStates
<1>9. request' = [request EXCEPT ![r] = t]
  BY <1>0, <1>7 DEF LoadCorpus, GoOn
<1>10. /\ \A k : (Settled(k)' <=> Settled(k)) /\ Signature(k)' = Signature(k)
       /\ corpus' = corpus /\ \A s : Past(s)' <=> Past(s)
  BY <1>2, StillSettled DEF FilesStill
<1>11. SteadyFits(t)' /\ Past(t.mark)'
  BY <1>1, <1>8, <1>10 DEF Fits, SteadyFits
<1>12. InitFits(t)'
  BY <1>0, <1>1, <1>4, <1>6, <1>8, <1>10 DEF Fits, InitFits
<1>13. SearchFits(t)' /\ AnswerFits(t)'
  BY <1>8 DEF SearchFits, AnswerFits
<1>14. Unseen(Requests \ {r})
  BY <1>1, AloneAtServer DEF Running
<1> QED BY <1>1, <1>2, <1>5, <1>9, <1>11, <1>12, <1>13, <1>14, OneRequestFits DEF Fits

LEMMA IndexKeepsCurrent ==
  ASSUME ReadInv, CurrentInv, NEW r \in Requests, LoadIndex(r)
  PROVE  CurrentInv'
<1>0. PICK q : q = request[r]
  OBVIOUS
<1>1. /\ q \in RequestStates /\ Fits(q) /\ ReadTypeOK /\ server \in Servers
      /\ q.pc = "index" /\ alive
  BY <1>0 DEF ReadInv, ReadTypeOK, CurrentInv, LoadIndex, At
<1>2. FilesStill /\ alive' = alive
  BY DEF LoadIndex, RunOnly, filesVars, processVars, FilesStill
<1>3. server' = [server EXCEPT !.model = bm25[q.kb].of, !.sign = q.mark, !.soured = FALSE]
  BY <1>0 DEF LoadIndex
<1>4. /\ server'.sign = q.mark /\ server'.records = server.records
      /\ server'.kb = server.kb /\ server'.model = bm25[q.kb].of
  BY <1>1, <1>3 DEF Servers
<1>5. server.kb = q.kb /\ q.mark.kb = q.kb
  BY <1>0, <1>1 DEF ReadInv, OwnInv
<1>6. PICK m : m = q.mark
  OBVIOUS
<1>7. Past(m) /\ m.kb = q.kb /\ server'.sign = m
  BY <1>1, <1>4, <1>5, <1>6 DEF Fits
<1>8. /\ \A k : (Settled(k)' <=> Settled(k)) /\ Signature(k)' = Signature(k)
      /\ corpus' = corpus /\ \A s : Past(s)' <=> Past(s)
  BY <1>2, StillSettled DEF FilesStill
<1>9. ServerFits'
  <2>1. Past(m)'
    BY <1>7, <1>8
  <2>2. Past(server.sign)'
    BY <1>7, <2>1 DEF Past
  <2>3. ASSUME Settled(q.kb), m = Signature(q.kb)
        PROVE  server.records = corpus[q.kb] /\ bm25[q.kb].of = corpus[q.kb].ver
    BY <1>1, <1>6, <2>3 DEF Fits, InitFits, Settled
  <2>4. LoadedFits'
    BY <1>4, <1>5, <1>7, <1>8, <2>3 DEF LoadedFits
  <2> QED BY <2>2, <2>4 DEF ServerFits
<1>10. PICK t : t = [q EXCEPT !.pc = "search", !.mark = NoSignature]
  OBVIOUS
<1>11. /\ t.pc = "search" /\ t.mark = NoSignature /\ t.steady = q.steady /\ t.kb = q.kb
       /\ t.since = q.since
  BY <1>1, <1>10 DEF RequestStates
<1>12. request' = [request EXCEPT ![r] = t]
  BY <1>0, <1>10 DEF LoadIndex
<1>13. SteadyFits(t)' /\ Past(t.mark)'
  BY <1>1, <1>8, <1>11, PastOfNothing DEF Fits, SteadyFits
<1>14. SearchFits(t)'
  BY <1>1, <1>6, <1>7, <1>8, <1>11 DEF Fits, InitFits, SearchFits
<1>15. InitFits(t)' /\ AnswerFits(t)'
  BY <1>11 DEF InitFits, AnswerFits
<1>16. Unseen(Requests \ {r})
  BY <1>0, <1>1, AloneAtServer DEF Running
<1> QED BY <1>1, <1>2, <1>9, <1>12, <1>13, <1>14, <1>15, <1>16, OneRequestFits DEF Fits

(* A steady request that finds the server sane finds its own files there.  *)
LEMMA SearchIsCurrent ==
  ASSUME ReadInv, CurrentInv, NEW r \in Requests,
         request[r].pc = "search", alive, request[r].steady, ~server.soured
  PROVE  LET k == request[r].kb
         IN  /\ server.kb = k /\ Settled(k)
             /\ server.records = corpus[k] /\ server.model = corpus[k].ver
             /\ request[r].since = corpus[k].ver
             /\ corpus[k] = [ver |-> corpus[k].ver, whole |-> TRUE, rows |-> TRUE]
             /\ bm25[k].of # Nothing
<1>0. PICK q : q = request[r]
  OBVIOUS
<1>1. q.kb \in KBs /\ Settled(q.kb) /\ q.since = corpus[q.kb].ver /\ Fits(q)
  BY <1>0 DEF CurrentInv, Fits, SteadyFits
<1>2. server.sign = Signature(q.kb)
  BY <1>0, <1>1 DEF Fits, SearchFits
<1>3. server.sign.kb = q.kb /\ q.kb # Nothing
  BY <1>1, <1>2, ReadAssumption DEF Signature
<1>4. /\ server.kb = q.kb /\ server.records = corpus[q.kb]
      /\ server.model = corpus[q.kb].ver
  BY <1>1, <1>2, <1>3 DEF CurrentInv, ServerFits, LoadedFits
<1>5. corpus[q.kb] \in Corpora
  BY <1>1 DEF ReadInv, ReadTypeOK
<1>6. corpus[q.kb].whole /\ bm25[q.kb].of = corpus[q.kb].ver
  BY <1>1 DEF Settled
<1>7. corpus[q.kb].rows /\ corpus[q.kb].ver # Nothing
  BY <1>1, <1>5, <1>6, ReadAssumption DEF CurrentInv, FilesFit, Corpora
<1>8. corpus[q.kb] = [ver |-> corpus[q.kb].ver, whole |-> TRUE, rows |-> TRUE]
  BY <1>5, <1>6, <1>7 DEF Corpora
<1> QED BY <1>0, <1>1, <1>4, <1>6, <1>7, <1>8

LEMMA AnswerKeepsCurrent ==
  ASSUME ReadInv, CurrentInv, NEW r \in Requests, Search(r)
  PROVE  CurrentInv'
<1>0. PICK q : q = request[r]
  OBVIOUS
<1>1. /\ q \in RequestStates /\ Fits(q) /\ ReadTypeOK /\ server \in Servers
      /\ q.pc = "search" /\ alive
  BY <1>0 DEF ReadInv, ReadTypeOK, CurrentInv, Search, At
<1>2. FilesStill /\ UNCHANGED <<server, alive>>
  BY DEF Search, RunOnly, filesVars, processVars, FilesStill
<1> DEFINE h == [kb |-> server.kb, records |-> server.records, of |-> server.model]
<1>3. PICK t : t = [q EXCEPT !.pc = "answered", !.sane = ~server.soured, !.hits = h]
  OBVIOUS
<1>4. /\ t.pc = "answered" /\ t.sane = ~server.soured
      /\ t.hits.records = server.records /\ t.hits.of = server.model
      /\ t.mark = q.mark /\ t.steady = q.steady /\ t.kb = q.kb /\ t.since = q.since
  BY <1>1, <1>3 DEF RequestStates
<1>5. request' = [request EXCEPT ![r] = t]
  BY <1>0, <1>3 DEF Search
<1>6. SteadyFits(t) /\ Past(t.mark)
  BY <1>1, <1>4 DEF Fits, SteadyFits
<1>7. InitFits(t) /\ SearchFits(t)
  BY <1>4 DEF InitFits, SearchFits
<1>8. AnswerFits(t)
  <2>1. SUFFICES ASSUME q.steady, ~server.soured
                 PROVE  /\ server.records = [ver |-> q.since, whole |-> TRUE, rows |-> TRUE]
                        /\ server.model = q.since
    BY <1>4 DEF AnswerFits
  <2> QED BY <1>0, <1>1, <2>1, SearchIsCurrent
<1>9. Fits(t)
  BY <1>6, <1>7, <1>8 DEF Fits
<1>10. Fits(t)'
  BY <1>2, <1>9, FitsStill
<1>11. ServerFits' /\ Unseen(Requests \ {r})
  BY <1>2, ServerStill DEF CurrentInv, Unseen
<1> QED BY <1>1, <1>2, <1>5, <1>10, <1>11, OneRequestFits

LEMMA RequestKeepsCurrent ==
  ASSUME ReadInv, CurrentInv, NEW r \in Requests, RequestNext(r)
  PROVE  CurrentInv'
<1> USE DEF RunOnly, filesVars, processVars, FilesStill
<1>1. ASSUME NEW k \in KBs, Ask(r, k) PROVE CurrentInv'
  BY <1>1, ComeKeepsCurrent DEF Ask
<1>2. CASE Respond(r)
  BY <1>2, DoneKeepsCurrent DEF Respond
<1>3. CASE EnterSession(r)
  <2>1. Unseen(Requests \ {r})
    BY <1>3 DEF EnterSession, Unseen, ReadInv, LockInv, Running
  <2>2. GoOn(r, "lock") /\ FilesStill /\ server' = server
    BY <1>3 DEF EnterSession
  <2> QED BY <2>1, <2>2, MovesKeepCurrent
<1>4. CASE SessionThere(r) \/ Acquire(r)
  <2>1. Unseen(Requests \ {r}) /\ FilesStill /\ server' = server
    BY <1>4 DEF SessionThere, Acquire, Unseen
  <2>2. GoOn(r, "lock") \/ GoOn(r, "init")
    BY <1>4 DEF SessionThere, Acquire
  <2> QED BY <2>1, <2>2, MovesKeepCurrent
<1>5. CASE SessionFails(r)
  <2> DEFINE q == request[r]
  <2>1. q \in RequestStates /\ Fits(q) /\ ReadTypeOK
    BY DEF ReadInv, ReadTypeOK, CurrentInv
  <2>2. PICK t : t = [q EXCEPT !.pc = "failed", !.sane = FALSE]
    OBVIOUS
  <2>3. /\ t.pc = "failed" /\ ~t.sane /\ t.mark = q.mark
        /\ t.steady = q.steady /\ t.kb = q.kb /\ t.since = q.since
    BY <2>1, <2>2 DEF RequestStates
  <2>4. SteadyFits(t) /\ Past(t.mark)
    BY <2>1, <2>3 DEF Fits, SteadyFits
  <2>5. Fits(t)
    BY <2>3, <2>4 DEF Fits, InitFits, SearchFits, AnswerFits
  <2>6. /\ FilesStill /\ UNCHANGED <<server, alive>>
        /\ request' = [request EXCEPT ![r] = t]
    BY <1>5, <2>2 DEF SessionFails
  <2>7. Fits(t)'
    BY <2>5, <2>6, FitsStill
  <2>8. ServerFits' /\ Unseen(Requests \ {r})
    BY <2>6, ServerStill DEF CurrentInv, Unseen
  <2> QED BY <2>1, <2>6, <2>7, <2>8, OneRequestFits
<1>6. CASE ServerGone(r) \/ TornIndex(r) \/ SearchFails(r)
  <2>1. FilesStill /\ UNCHANGED <<server, alive>>
    BY <1>6 DEF ServerGone, TornIndex, SearchFails
  <2>2. ServerFits' /\ Unseen(Requests \ {r})
    BY <2>1, ServerStill DEF CurrentInv, Unseen
  <2>3. (~server.soured) \in BOOLEAN
    OBVIOUS
  <2>4. PICK b \in BOOLEAN : FailRun(r, b) /\ (request[r].steady => ~b)
    <3>1. CASE ServerGone(r)
      BY <3>1 DEF ServerGone
    <3>2. CASE TornIndex(r)
      <4>1. ~bm25[request[r].kb].whole
        BY <3>2 DEF TornIndex
      <4>2. ~Settled(request[r].kb)
        BY <4>1 DEF Settled
      <4>3. ~request[r].steady
        BY <4>2 DEF CurrentInv, Fits, SteadyFits
      <4> QED BY <3>2, <4>3 DEF TornIndex
    <3>3. CASE SearchFails(r)
      <4>1. ASSUME request[r].steady, ~server.soured PROVE FALSE
        <5>1. request[r].pc = "search" /\ alive
          BY <3>3 DEF SearchFails, At
        <5>2. PICK k : k = request[r].kb
          OBVIOUS
        <5>3. /\ server.kb = k /\ bm25[k].of # Nothing
              /\ server.records = corpus[k] /\ server.model = corpus[k].ver
              /\ corpus[k].whole
          BY <4>1, <5>1, <5>2, SearchIsCurrent DEF Settled
        <5> QED BY <3>3, <5>3 DEF SearchFails, Matched
      <4> QED BY <2>3, <3>3, <4>1 DEF SearchFails
    <3> QED BY <1>6, <3>1, <3>2, <3>3
  <2> QED BY <2>1, <2>2, <2>4, FailureKeepsCurrent DEF FailRun
<1>7. CASE TornRow(r)
  <2>1. FilesStill /\ alive' = alive /\ request[r].pc = "corpus" /\ alive
    BY <1>7 DEF TornRow, At
  <2>2. Unseen(Requests \ {r})
    BY <2>1, AloneAtServer DEF Running
  <2>3. server'.sign = server.sign /\ server'.soured = server.soured /\ server.soured
    BY <1>7, <2>1 DEF TornRow, ReadInv, ReadTypeOK, Servers, CurrentInv, Fits, InitFits
  <2>4. ServerFits'
    BY <2>1, <2>3, StillSettled DEF CurrentInv, ServerFits, LoadedFits, Past
  <2>5. ~request[r].steady
    BY <1>7 DEF TornRow, CurrentInv, Fits, SteadyFits, Settled
  <2>6. FailRun(r, TRUE)
    BY <1>7 DEF TornRow
  <2> QED BY <2>1, <2>2, <2>4, <2>5, <2>6, FailureKeepsCurrent DEF FailRun
<1>8. CASE SkipInit(r)
  <2> DEFINE q == request[r]
  <2>1. q \in RequestStates /\ Fits(q) /\ ReadTypeOK
    BY DEF ReadInv, ReadTypeOK, CurrentInv
  <2>2. PICK t : t = [q EXCEPT !.pc = "search"]
    OBVIOUS
  <2>3. /\ t.pc = "search" /\ t.mark = q.mark
        /\ t.steady = q.steady /\ t.kb = q.kb /\ t.since = q.since
    BY <2>1, <2>2 DEF RequestStates
  <2>4. SteadyFits(t) /\ Past(t.mark)
    BY <2>1, <2>3 DEF Fits, SteadyFits
  <2>5. Fits(t)
    BY <1>8, <2>3, <2>4 DEF SkipInit, Fits, InitFits, SearchFits, AnswerFits
  <2>6. /\ FilesStill /\ UNCHANGED <<server, alive>>
        /\ request' = [request EXCEPT ![r] = t]
    BY <1>8, <2>2 DEF SkipInit, GoOn
  <2>7. Fits(t)'
    BY <2>5, <2>6, FitsStill
  <2>8. ServerFits' /\ Unseen(Requests \ {r})
    BY <2>6, ServerStill DEF CurrentInv, Unseen
  <2> QED BY <2>1, <2>6, <2>7, <2>8, OneRequestFits
<1>9. CASE BeginInit(r) \/ LoadCorpus(r) \/ LoadIndex(r) \/ Search(r)
  BY <1>9, BeginKeepsCurrent, LoadKeepsCurrent, IndexKeepsCurrent, AnswerKeepsCurrent
<1> QED BY <1>1, <1>2, <1>3, <1>4, <1>5, <1>6, <1>7, <1>8, <1>9 DEF RequestNext

LEMMA ProcessKeepsCurrent ==
  ASSUME ReadInv, CurrentInv, ProcessNext
  PROVE  CurrentInv'
<1> USE DEF StartOnly, filesVars, processVars, FilesStill
<1>1. CASE StartCold \/ StartFails
  <2>1. FilesStill /\ UNCHANGED <<server, alive, request>>
    BY <1>1 DEF StartCold, StartFails
  <2> QED BY <2>1, ServerStill, RequestsStill DEF CurrentInv, Unseen
<1>2. CASE StartWarming
  <2>1. FilesStill /\ UNCHANGED <<server, request>> /\ health = "stopped"
    BY <1>2 DEF StartWarming
  <2>2. Unseen(Requests)
    BY <2>1 DEF ReadInv, LockInv, Unseen
  <2> QED BY <2>1, <2>2, ServerStill, RequestsStill DEF CurrentInv
<1>3. CASE Stop \/ ServerDies
  <2>1. FilesStill /\ request' = request /\ server' = FreshServer /\ ~alive'
    BY <1>3 DEF Stop, ServerDies
  <2> QED BY <2>1, FreshServerFits, RequestsStill DEF Unseen
<1>4. ASSUME NEW r \in Requests, WarmupAnswered(r) \/ WarmupFailed(r) PROVE CurrentInv'
  <2>1. /\ FilesStill /\ UNCHANGED <<server, alive>>
        /\ request' = [request EXCEPT ![r] = NoRequest]
    BY <1>4 DEF WarmupAnswered, WarmupFailed
  <2> QED BY <2>1, DoneKeepsCurrent
<1>5. ASSUME NEW r \in Requests, NEW k \in KBs, WarmupQuery(r, k) PROVE CurrentInv'
  BY <1>5, ComeKeepsCurrent DEF WarmupQuery
<1> QED BY <1>1, <1>2, <1>3, <1>4, <1>5 DEF ProcessNext

LEMMA CurrentInit ==
  ASSUME ReadInit
  PROVE  CurrentInv
<1>1. ASSUME NEW k \in KBs PROVE FilesFit(k)
  BY <1>1 DEF ReadInit, FilesFit
<1>2. ServerFits
  BY DEF ReadInit, ServerFits, LoadedFits, Past, FreshServer, NoSignature
<1>3. \A r \in Requests : request[r] = NoRequest
  BY DEF ReadInit
<1> QED BY <1>1, <1>2, <1>3, IdleFits DEF CurrentInv

LEMMA CurrentInvariant == ReadSpec => []CurrentInv
<1>1. ReadInv /\ CurrentInv /\ [ReadNext]_readVars => CurrentInv'
  <2> SUFFICES ASSUME ReadInv, CurrentInv, [ReadNext]_readVars PROVE CurrentInv'
    OBVIOUS
  <2>1. CASE ReadNext
    BY <2>1, WriterKeepsCurrent, ProcessKeepsCurrent, RequestKeepsCurrent DEF ReadNext
  <2>2. CASE UNCHANGED readVars
    <3>1. FilesStill /\ UNCHANGED <<server, alive, request>>
      BY <2>2 DEF readVars, filesVars, processVars, FilesStill
    <3> QED BY <3>1, ServerStill, RequestsStill DEF CurrentInv, Unseen
  <2> QED BY <2>1, <2>2
<1> QED BY <1>1, CurrentInit, ReadInvariant, PTL DEF ReadSpec

-----------------------------------------------------------------------------
(* Every variable always has its type. *)
THEOREM ReadTypeInvariant == ReadSpec => []ReadTypeOK
<1>1. ReadInv => ReadTypeOK
  BY DEF ReadInv
<1> QED BY <1>1, ReadInvariant, PTL

(* No request is ever given rows of another knowledge base, whatever order *)
(* requests, refreshes, restarts, crashes and failing inits come in.       *)
THEOREM OwnKnowledgeBase == ReadSpec => []AnswersFromOwnKB
<1>1. ReadInv => AnswersFromOwnKB
  BY DEF ReadInv
<1> QED BY <1>1, ReadInvariant, PTL

(* A request whose knowledge base is left alone while it is under way is   *)
(* answered, and from the present state of its files, whatever the server  *)
(* had loaded before, in whichever half of whose refresh; the signature    *)
(* that retriever_init compares is enough for it.                          *)
THEOREM CurrentAnswers == ReadSpec => []AnswersCurrent
<1>1. CurrentInv => AnswersCurrent
  BY DEF CurrentInv, Fits, AnswerFits, AnswersCurrent
<1> QED BY <1>1, CurrentInvariant, PTL

=============================================================================
