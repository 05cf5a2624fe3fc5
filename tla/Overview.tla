------------------------------ MODULE Overview ------------------------------
(***************************************************************************)
(* The operations page (observability_service.py): what it makes of the    *)
(* operation spans and of the queue of events.  The page is put together   *)
(* from several queries while operations begin and end, so its parts may   *)
(* speak of different moments; each step below is one group of queries.    *)
(*                                                                         *)
(* Time is counted in periods, and a span's rank is its place in spans,    *)
(* the order of started_at.  Left out: descriptions, progress and samples, *)
(* the task and event rows of a knowledge base, the text of the metrics.   *)
(***************************************************************************)
EXTENDS Integers, Sequences, FiniteSets, SequencesExt, Selections

CONSTANTS
  Parts,         \* MONITORED_COMPONENTS that occur
  Kinds,         \* which of them work on which knowledge bases
  Slow,          \* a duration above every latency threshold; others are fast
  Fast,
  ActiveAge,     \* ACTIVE_WORK_MAX_AGE, ten minutes
  RecentWindow,  \* the 60 minutes of the page
  HealthWindow,  \* the 30 minutes of the health checks
  RecentLimit,   \* the newest 400 spans
  RunningLimit,  \* the newest 200 running spans
  HighQueue,     \* 20 queued events
  CriticalQueue, \* 100 queued events
  Backlogs,      \* numbers of queued events that occur
  MaxMeanwhile,  \* bound: changes while a page is put together
  MaxSpans,      \* bound: spans
  MaxNow         \* bound: periods

ASSUME OverviewAssumption ==
  /\ {ActiveAge, RecentWindow, HealthWindow, MaxMeanwhile, MaxSpans, MaxNow} \subseteq Nat
  /\ IsFiniteSet(Parts) /\ \A kind \in Kinds : kind[1] \in Parts
  /\ {Fast, Slow} \subseteq Nat /\ Fast < Slow
  /\ {RecentLimit, RunningLimit} \subseteq Nat \ {0}
  /\ 0 < HighQueue /\ HighQueue < CriticalQueue

VARIABLES
  now, spans,
  backlog,  \* rustfs_events that are queued
  held,     \* when those in the hands of a worker were last updated; only of
            \* the newest 400 events, which are the ones the page looks at
  page      \* the page being put together: what its queries have returned

overviewVars == <<now, spans, backlog, held, page>>

(* changed and cut are history: what has changed since the page was begun, *)
(* and whether more operations ran than a listing of them holds.           *)
NoPage == [step |-> "none", rows |-> <<>>, running |-> <<>>, health |-> "none",
           queued |-> 0, workers |-> <<>>, changed |-> {}, cut |-> FALSE, meanwhile |-> 0]

OverviewInit == now = 0 /\ spans = <<>> /\ backlog = 0 /\ held = {} /\ page = NoPage

-----------------------------------------------------------------------------
(* Rows.  list_operation_spans: newest first, at most limit of them.       *)

Newest(rows, limit) ==
  SubSeq(Reverse(rows), 1, IF Len(rows) < limit THEN Len(rows) ELSE limit)

RecentItems(rows, window) == Picked(rows, {i \in DOMAIN rows : rows[i].start >= now - window})

RecentRows(window) == RecentItems(Newest(spans, RecentLimit), window)

With(rows, status) == Picked(rows, {i \in DOMAIN rows : rows[i].status = status})

(* Mutant: the newest spans, those of them that run. *)
RunningAmongNewest == With(Newest(spans, RunningLimit), "running")

RunningRows == Newest(With(spans, "running"), RunningLimit)

Overflow == Len(With(spans, "running")) > RunningLimit

(* _inflight_state; a span is not updated, so its age is that of its start. *)
InflightState(row) ==
  IF row.status # "running" THEN "none"
  ELSE IF now - row.start > ActiveAge THEN "stalled" ELSE "active"

In(rows, state)   == Picked(rows, {i \in DOMAIN rows : InflightState(rows[i]) = state})
Of(rows, part)    == Picked(rows, {i \in DOMAIN rows : rows[i].part = part})
AtPlace(rows, kb) == Picked(rows, {i \in DOMAIN rows : rows[i].kb = kb})

(* _percentile: Python rounds halves to the even neighbour. *)
RoundHalfEven(n, d) ==
  LET floor == n \div d
  IN IF 2 * (n % d) > d \/ (2 * (n % d) = d /\ floor % 2 = 1) THEN floor + 1 ELSE floor

(* The n-th of the values once they are sorted. *)
NthSmallest(values, n) ==
  values[CHOOSE i \in DOMAIN values :
           /\ Cardinality({j \in DOMAIN values : values[j] < values[i]}) < n
           /\ n <= Cardinality({j \in DOMAIN values : values[j] <= values[i]})]

P95(durations) ==
  IF durations = <<>> THEN 0
  ELSE NthSmallest(durations, RoundHalfEven(95 * (Len(durations) - 1), 100) + 1)

Latency(rows) ==
  P95([i \in DOMAIN With(rows, "success") |-> With(rows, "success")[i].ms])

(* _component_health_snapshot. *)
PartStatus(part, rows, running) ==
  LET mine == Of(rows, part)
      live == Of(running, part)
  IN IF In(live, "active") # <<>> THEN "active"
     ELSE IF In(live, "stalled") # <<>> THEN "stalled"
     ELSE IF mine = <<>> THEN "idle"
     ELSE IF Head(mine).status # "failed" THEN "healthy"
     ELSE IF With(mine, "success") = <<>> THEN "degraded" ELSE "warning"

(* build_health_snapshot: the queue, ... *)
QueueStatus(queued, updated) ==
  IF queued > CriticalQueue THEN "degraded"
  ELSE IF \E t \in updated : now - t > ActiveAge THEN "stalled" ELSE "healthy"

(* ... and the whole: answers if the store counts its knowledge bases,     *)
(* ready if the read service does not have to be warmed up.                *)
Health(answers, ready, rows, running, queued, updated) ==
  IF ~answers THEN "down"
  ELSE IF \/ ~ready
          \/ QueueStatus(queued, updated) # "healthy"
          \/ \E part \in Parts :
               PartStatus(part, rows, running) \in {"degraded", "warning", "stalled"}
  THEN "degraded" ELSE "ok"

(* _build_alerts.  rows are those of the page, the rest is read afresh. *)
WorkerStalled(rows, queued, running) ==
  LET successes == With(Of(rows, "worker"), "success")
  IN /\ queued > 0
     /\ In(Of(running, "worker"), "active") = <<>>
     /\ \/ successes = <<>>
        \/ Head(successes).start < now - ActiveAge

Alerts(rows, queued, running) ==
  {a \in {"queue_backlog_critical", "queue_backlog_high", "failed_operations_recent",
          "retrieve_latency_high", "worker_stalled"} :
     CASE a = "queue_backlog_critical"   -> queued > CriticalQueue
       [] a = "queue_backlog_high"       -> queued \in (HighQueue + 1)..CriticalQueue
       [] a = "failed_operations_recent" -> With(rows, "failed") # <<>>
       [] a = "retrieve_latency_high"    -> Latency(Of(rows, "retrieve")) >= Slow
       [] a = "worker_stalled"           -> WorkerStalled(rows, queued, running)}

(* _build_kb_activity: the sort key of a knowledge base, smallest first:   *)
(* what works comes first, and among equals what was active longest ago.   *)
KBKey(kb, rows, running) ==
  LET active  == Len(In(AtPlace(running, kb), "active"))
      stalled == Len(In(AtPlace(running, kb), "stalled"))
      recent  == AtPlace(rows, kb)
  IN <<IF active > 0 THEN 0 ELSE 1, -active, -stalled,
       IF recent = <<>> THEN -1 ELSE Head(recent).start>>

Before(a, b) ==
  \E i \in 1..4 : a[i] < b[i] /\ \A j \in 1..(i - 1) : a[j] = b[j]

-----------------------------------------------------------------------------
(* What goes on meanwhile.                                                 *)

Building == page.step \notin {"none", "shown"}

Changes(what) ==
  IF Building
  THEN /\ page.meanwhile < MaxMeanwhile
       /\ page' = [page EXCEPT !.changed = @ \cup {what}, !.meanwhile = @ + 1]
  ELSE page' = NoPage

Starts(part, kb) ==
  /\ Len(spans) < MaxSpans
  /\ spans' = Append(spans, [part |-> part, kb |-> kb, start |-> now,
                             status |-> "running", ms |-> 0])
  /\ Changes(part) /\ UNCHANGED <<now, backlog, held>>

Finishes(i, status, ms) ==
  /\ spans[i].status = "running"
  /\ spans' = [spans EXCEPT ![i].status = status, ![i].ms = ms]
  /\ Changes(spans[i].part) /\ UNCHANGED <<now, backlog, held>>

TimePasses ==
  /\ now < MaxNow /\ now' = now + 1
  /\ ~Building /\ page' = NoPage
  /\ UNCHANGED <<spans, backlog, held>>

BacklogBecomes(n) ==
  /\ n # backlog /\ backlog' = n
  /\ Changes("rustfs_event_queue") /\ UNCHANGED <<now, spans, held>>

(* A worker takes an event, or sends a heartbeat of one: other events may  *)
(* have been updated at the same time t.                                   *)
EventUpdated ==
  /\ \E t \in held \cup {now}, other \in BOOLEAN :
       held' = {now} \cup IF other THEN held ELSE held \ {t}
  /\ held' # held
  /\ Changes("rustfs_event_queue") /\ UNCHANGED <<now, spans, backlog>>

(* An event is settled or requeued, or 400 have come after it.             *)
EventLeaves(t) ==
  /\ held' = held \ {t}
  /\ Changes("rustfs_event_queue") /\ UNCHANGED <<now, spans, backlog>>

-----------------------------------------------------------------------------
(* build_overview; a page takes no time to speak of.                       *)

ReadRecent ==
  /\ ~Building
  /\ page' = [NoPage EXCEPT !.step = "recent", !.rows = RecentRows(RecentWindow)]
  /\ UNCHANGED <<now, spans, backlog, held>>

ReadRunning ==
  /\ page.step = "recent"
  /\ page' = [page EXCEPT !.step = "running", !.running = RunningRows, !.cut = Overflow]
  /\ UNCHANGED <<now, spans, backlog, held>>

ReadHealth(answers, ready) ==
  /\ page.step = "running"
  /\ page' = [page EXCEPT !.step = "health", !.cut = @ \/ Overflow,
                !.health = Health(answers, ready, RecentRows(HealthWindow), RunningRows,
                                  backlog, held)]
  /\ UNCHANGED <<now, spans, backlog, held>>

ReadAlerts ==
  /\ page.step = "health"
  /\ page' = [page EXCEPT !.step = "shown", !.queued = backlog, !.workers = RunningRows]
  /\ UNCHANGED <<now, spans, backlog, held>>

(* Any other query that raises ends the page. *)
QueryFails == Building /\ page' = NoPage /\ UNCHANGED <<now, spans, backlog, held>>

OverviewNext ==
  \/ \E k \in Kinds : Starts(k[1], k[2])
  \/ \E i \in DOMAIN spans :
       Finishes(i, "failed", Fast) \/ \E ms \in {Fast, Slow} : Finishes(i, "success", ms)
  \/ TimePasses
  \/ \E n \in Backlogs : BacklogBecomes(n)
  \/ EventUpdated \/ \E t \in held : EventLeaves(t)
  \/ ReadRecent \/ ReadRunning \/ ReadAlerts \/ QueryFails
  \/ \E answers, ready \in BOOLEAN : ReadHealth(answers, ready)

OverviewSpec == OverviewInit /\ [][OverviewNext]_overviewVars

(* Put together from queries made one after another, each of a limited     *)
(* number of rows, the page still tells what is going on.  Whatever else   *)
(* changes meanwhile, of a part that nothing happens to it says that it    *)
(* works or hangs just when it does, and health is not "ok" when a part    *)
(* hangs, unless more operations run than are listed.  Health is not "ok"  *)
(* either when, all the while, the queue is too long or one of the newest  *)
(* 400 events hangs in the hands of a worker.  Every operation listed is   *)
(* counted under one part; a queue that no worker has begun to work on for *)
(* ActiveAge is reported as stalled; one slow request among the few of a   *)
(* quiet hour (no more than eleven: of more, the 95th percentile is not    *)
(* the longest) is reported; and a knowledge base at work is listed before *)
(* one that rests.                                                         *)
PageTellsTheTruth ==
  page.step = "shown" =>
    LET runs(part)  == {i \in DOMAIN spans : spans[i].part = part /\ spans[i].status = "running"}
        fresh(part) == {i \in runs(part) : spans[i].start >= now - ActiveAge}
        fresh_at(kb) == {i \in DOMAIN page.running : /\ page.running[i].kb = kb
                                                     /\ page.running[i].start >= now - ActiveAge}
        shown(part) == PartStatus(part, page.rows, page.running)
        counted(part) == UNION {{<<part, state, n>> : n \in DOMAIN In(Of(page.running, part), state)} :
                                  state \in {"active", "stalled"}}
    IN /\ ~page.cut =>
            \A part \in Parts \ page.changed :
              /\ shown(part) = "active" <=> fresh(part) # {}
              /\ shown(part) = "stalled" <=> runs(part) # {} /\ fresh(part) = {}
              /\ shown(part) = "stalled" => page.health # "ok"
       /\ /\ "rustfs_event_queue" \notin page.changed
          /\ backlog > CriticalQueue \/ \E t \in held : t < now - ActiveAge
          => page.health # "ok"
       /\ Cardinality(UNION {counted(part) : part \in Parts}) = Len(page.running)
       /\ /\ page.queued > 0
          /\ \A i \in DOMAIN spans : spans[i].part = "worker" => spans[i].start < now - ActiveAge
          => "worker_stalled" \in Alerts(page.rows, page.queued, page.workers)
       /\ Len(With(Of(page.rows, "retrieve"), "success")) <= 11 =>
            ("retrieve_latency_high" \in Alerts(page.rows, page.queued, page.workers) <=>
               \E i \in DOMAIN page.rows :
                 page.rows[i].part = "retrieve" /\ page.rows[i].ms = Slow)
       /\ \A a, b \in {k[2] : k \in Kinds} :
            fresh_at(a) # {} /\ fresh_at(b) = {} =>
              Before(KBKey(a, page.rows, page.running), KBKey(b, page.rows, page.running))
=============================================================================
