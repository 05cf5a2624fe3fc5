----------------------------- MODULE OutboxHttp -----------------------------
(***************************************************************************)
(* The publisher's other transport: a batch is one POST to the queue/batch *)
(* endpoint of the BizRAG API, and stands or falls as a whole.             *)
(*                                                                         *)
(* urlopen blocks file_service's only loop until it returns, so no event   *)
(* is stored meanwhile.  The API serves a request in one go, but may do so *)
(* after the publisher has timed out and posted the events anew.           *)
(***************************************************************************)
EXTENDS Outbox

(* A batch is what one SELECT returns. *)
ASSUME HttpAssumption == IsFiniteSet(Events)

VARIABLES
  requests,  (* what is posted and not yet served                            *)
  asked,     (* the number of the latest request ...                         *)
  reply      (* ... and the answer to it: "none", "ok", "error"              *)

httpVars == <<requests, asked, reply>>
vars     == <<outboxVars, httpVars>>

(* A number that no request under way has. *)
Fresh(n) == n \in 1..Cardinality(requests) + 1 /\ \A r \in requests : r.number # n

TypeOK ==
  /\ OutboxTypeOK
  /\ pc \in {"idle", "post", "wait", "mark", "giveup", "dead", "down"}
  /\ \A r \in requests : r \in [number : Nat, events : SUBSET Events]
  /\ asked \in Nat
  /\ reply \in {"none", "ok", "error"}

Init == OutboxInit /\ requests = {} /\ asked = 0 /\ reply = "none"

-----------------------------------------------------------------------------
Store(e) ==
  /\ pc \in {"idle", "dead"}
  /\ StoreEvent(e)
  /\ UNCHANGED httpVars

Pass == Tick /\ UNCHANGED httpVars

Claim == ClaimOutbox("post") /\ UNCHANGED httpVars

Post ==
  /\ pc = "post"
  /\ asked' = CHOOSE n \in 1..Cardinality(requests) + 1 : Fresh(n)
  /\ requests' = requests \cup {[number |-> asked', events |-> batch]}
  /\ reply' = "none"
  /\ pc' = "wait"
  /\ UNCHANGED <<rowVars, batch, todo, clock, received, faultVars>>

(* No URL, no connection, no answer in time. *)
PostFails ==
  /\ pc = "post" \/ (pc = "wait" /\ reply = "none")
  /\ Error
  /\ GiveUp
  /\ UNCHANGED <<rowVars, clock, received, httpVars>>

(* Mutant: any answer will do. *)
TakeAnyReply ==
  /\ pc = "wait" /\ reply # "none"
  /\ pc' = "mark" /\ UNCHANGED <<batch, todo>>
  /\ UNCHANGED <<rowVars, clock, received, faultVars, httpVars>>

TakeReply ==
  /\ pc = "wait" /\ reply # "none"
  /\ IF reply = "ok" THEN pc' = "mark" /\ UNCHANGED <<batch, todo>> ELSE GiveUp
  /\ UNCHANGED <<rowVars, clock, received, faultVars, httpVars>>

(* The events are marked one by one, inside the try of the request: if one *)
(* UPDATE fails, all of them are marked failed.                            *)
MarkNext(e) ==
  /\ pc = "mark" /\ Foremost(e)
  /\ MarkSuccess(e)
  /\ IF todo = {e} THEN Finished ELSE todo' = todo \ {e} /\ UNCHANGED <<pc, batch>>
  /\ UNCHANGED <<clock, received, faultVars, httpVars>>

MarkingFails ==
  /\ pc = "mark"
  /\ StoreFails
  /\ GiveUp
  /\ UNCHANGED <<rowVars, clock, received, httpVars>>

GiveUpNext(e)  == MarkGivenUp(e) /\ UNCHANGED httpVars
PublisherDies  == TaskDies /\ UNCHANGED httpVars
ServiceCrash   == Crash /\ UNCHANGED httpVars
ServiceRestart == Restart /\ UNCHANGED httpVars

-----------------------------------------------------------------------------
(* The BizRAG API.                                                         *)

(* The ways to make rows of the events S that have none, oldest first. *)
Rows(S) ==
  LET new == {e \in S : ~ Received(e)}
      n   == Cardinality(new)
  IN  {s \in [1..n -> new] :
         /\ \A e \in new : \E i \in 1..n : s[i] = e
         /\ \A i, j \in 1..n : i < j => stamp[s[i]] <= stamp[s[j]]}

(* A reply reaches the publisher only if it still waits for this request. *)
Reply(r, answer) ==
  /\ requests' = requests \ {r}
  /\ reply' = IF pc = "wait" /\ r.number = asked THEN answer ELSE reply
  /\ UNCHANGED asked

(* Mutant: rows are made without a look for them. *)
ServeUnchecked(r) ==
  /\ r \in requests
  /\ \E s \in [1..Cardinality(r.events) -> r.events] :
       /\ \A e \in r.events : \E i \in DOMAIN s : s[i] = e
       /\ received' = received \o s
  /\ Reply(r, "ok")
  /\ UNCHANGED <<rowVars, publisherVars, clock, faultVars>>

(* queue_rustfs_batch: enqueue_rustfs_event for each event of the request. *)
Serve(r) ==
  /\ r \in requests
  /\ \E s \in Rows(r.events) : received' = received \o s
  /\ Reply(r, "ok")
  /\ UNCHANGED <<rowVars, publisherVars, clock, faultVars>>

(* It fails on the way, with the rows of the first events made; or the API *)
(* is down.  The publisher is told, or loses its connection.               *)
ServeFails(r) ==
  /\ r \in requests
  /\ errors < MaxErrors /\ errors' = errors + 1
  /\ \E S \in SUBSET r.events :
       /\ S # r.events
       /\ \A e \in S, f \in r.events \ S : stamp[e] <= stamp[f]
       /\ \E s \in Rows(S) : received' = received \o s
  /\ Reply(r, "error")
  /\ UNCHANGED <<rowVars, publisherVars, clock, storeErrors, crashes>>

-----------------------------------------------------------------------------
PublisherStep ==
  \/ Claim \/ Post \/ TakeReply
  \/ \E e \in Events : MarkNext(e) \/ GiveUpNext(e)

Next ==
  \/ \E e \in Events : Store(e)
  \/ Pass
  \/ PublisherStep \/ PostFails \/ MarkingFails
  \/ PublisherDies \/ ServiceCrash \/ ServiceRestart
  \/ \E r \in requests : Serve(r) \/ ServeFails(r)

Spec == Init /\ [][Next]_vars

-----------------------------------------------------------------------------
(* Properties.                                                             *)

(* An event marked published has its row in BizRAG, although a request may *)
(* be served halfway, late or twice.                                       *)
PublishedIsReceived ==
  \A e \in Events : outbox[e] = "published" => Received(e)

(* A younger event overtakes an older one only if they were stored in the  *)
(* same second, the older one was sent more than once, or its request was  *)
(* under way when file_service went down.                                  *)
OvertakesOnlyAfterRetry ==
  \A i, j \in DOMAIN received :
    i < j /\ stamp[received[j]] < stamp[received[i]] =>
      \/ retries[received[j]] > 0
      \/ crashes > 0 /\ outbox[received[j]] = "sending"

(* What is posted twice is received once. *)
ReceivedOnce ==
  \A i, j \in DOMAIN received : received[i] = received[j] => i = j

=============================================================================
