-------------------------------- MODULE Tasks ---------------------------------
(***************************************************************************)
(* The records of work under way: the tasks, event rows and operation      *)
(* spans of metadata_store.py as the calls that work on them write them    *)
(* (kb_admin.py, rustfs_events.py, rustfs_worker_cli.py, observability.py) *)
(* and as reconcile_runtime_state, which every worker runs before it       *)
(* claims, settles them for the calls that have gone silent.               *)
(*                                                                         *)
(* A call is one run of ingest_file: of an admin request (a direct call),  *)
(* or of a worker that has claimed an event. Its spans form one trace and  *)
(* are numbered from the outermost: process_claimed_event,                 *)
(* handle_rustfs_event and ingest_file for an event; ingest_file and       *)
(* sync_document_index for a direct call. Ids never recur, so the task, the *)
(* trace and the spans of a call are known by the call.                    *)
(***************************************************************************)
EXTENDS Naturals, Sequences, FiniteSets

CONSTANTS
  Calls,        \* runs of ingest_file
  Crews,        \* the sets of them that may come in one behaviour
  Events,       \* rows of rustfs_events
  EventOf,      \* [Calls -> Events \cup {Direct}]: the event a call works on
  Direct,       \* of no event
  MaxAttempts,  \* max_attempts of the worker
  MaxLapses     \* bound: late heartbeats of the living, and processes that
                \*   die with a call or a sweep under way, in all

ASSUME TasksAssumption ==
  /\ Crews \subseteq SUBSET Calls
  /\ Calls \cap Events = {} /\ Direct \notin Events /\ EventOf \in [Calls -> Events \cup {Direct}]
  /\ MaxAttempts \in Nat \ {0}
  /\ MaxLapses \in Nat

VARIABLES
  todo,     \* the steps a call has still to take
  dead,     \* the calls whose process has died, and of these ...
  midway,   \* ... the ones that had a task running and no sweep upon them
  verdict,  \* how the work of each call went
  task,     \* the status of its row in tasks
  span,     \* the status of its spans
  row,      \* the status of each event row
  attempts, \* its attempt_count
  overdue,  \* the calls and events whose last heartbeat is too old
  sweep,    \* the sweep under way: its step, and what it has found
  silences, deaths

recordVars == <<task, span, row, attempts>>
boundVars  == <<silences, deaths>>
tasksVars  == <<todo, dead, midway, verdict, recordVars, overdue, sweep, boundVars>>

ByEvent(c) == EventOf[c] # Direct
Levels(c)  == IF ByEvent(c) THEN 1..3 ELSE 1..2
Spans      == {<<c, l>> : c \in Calls, l \in 1..3} \ {<<c, 3>> : c \in {d \in Calls : ~ByEvent(d)}}

(* The steps of a call that commit something, up to its work. *)
Opening(c) ==
  IF ByEvent(c)
  THEN << <<"claim">>, <<"open", 1>>, <<"open", 2>>, <<"create">>, <<"open", 3>>, <<"work">> >>
  ELSE << <<"create">>, <<"open", 1>>, <<"open", 2>>, <<"work">> >>

(* A faulty Closing: the outermost span is closed first. *)
OutermostFirst(c, v) ==
  IF ByEvent(c)
  THEN << <<"close", 1>>, <<"report">>, <<"close", 2>>, <<"finish">>, <<"close", 3>> >>
  ELSE << <<"close", 1>>, <<"report">>, <<"close", 2>> >>

(* And after it: a success is reported inside the spans it closes, an      *)
(* error by the handler it reaches once it has left them.                  *)
Closing(c, v) ==
  CASE ByEvent(c) /\ v = "success" ->
         << <<"report">>, <<"close", 3>>, <<"finish">>, <<"close", 2>>, <<"close", 1>> >>
    [] ByEvent(c) /\ v = "failed" ->
         << <<"close", 3>>, <<"report">>, <<"close", 2>>, <<"finish">>, <<"close", 1>> >>
    [] ~ByEvent(c) /\ v = "success" -> << <<"close", 2>>, <<"report">>, <<"close", 1>> >>
    [] OTHER                        -> << <<"close", 2>>, <<"close", 1>>, <<"report">> >>

NoSweep == [pc |-> "idle", found |-> {}, rows |-> {}]

TasksInit ==
  /\ \E C \in Crews : todo = [c \in Calls |-> IF c \in C THEN Opening(c) ELSE <<>>]
  /\ dead = {} /\ midway = {}
  /\ verdict = [c \in Calls |-> "none"]
  /\ task = [c \in Calls |-> "none"]
  /\ span = [s \in Spans |-> "none"]
  /\ row = [e \in Events |-> "queued"]
  /\ attempts = [e \in Events |-> 0]
  /\ overdue = {}
  /\ sweep = NoSweep
  /\ silences = 0 /\ deaths = 0

-----------------------------------------------------------------------------
(* A call, commit by commit. None of its writes looks at the status the    *)
(* row has: what a sweep has set in between is overwritten.                *)

Ready(c, what) == c \notin dead /\ todo[c] # <<>> /\ Head(todo[c])[1] = what

Done(c) == todo' = [todo EXCEPT ![c] = Tail(@)]
CallOnly == UNCHANGED <<dead, midway, sweep, silences, deaths>>

(* claim_rustfs_events, for one event. *)
ClaimRow(c) ==
  /\ Ready(c, "claim") /\ row[EventOf[c]] = "queued"
  /\ row' = [row EXCEPT ![EventOf[c]] = "running"]
  /\ attempts' = [attempts EXCEPT ![EventOf[c]] = @ + 1]
  /\ overdue' = overdue \ {EventOf[c]}
  /\ Done(c) /\ CallOnly /\ UNCHANGED <<verdict, task, span>>

OpenSpan(c) ==
  /\ Ready(c, "open")
  /\ span' = [span EXCEPT ![<<c, Head(todo[c])[2]>>] = "running"]
  /\ Done(c) /\ CallOnly /\ UNCHANGED <<verdict, task, row, attempts, overdue>>

CreateTask(c) ==
  /\ Ready(c, "create")
  /\ task' = [task EXCEPT ![c] = "running"]
  /\ Done(c) /\ CallOnly /\ UNCHANGED <<verdict, span, row, attempts, overdue>>

Work(c) ==
  /\ Ready(c, "work")
  /\ \E v \in {"success", "failed"} :
       /\ verdict' = [verdict EXCEPT ![c] = v]
       /\ todo' = [todo EXCEPT ![c] = Closing(c, v)]
  /\ CallOnly /\ UNCHANGED <<recordVars, overdue>>

(* ObservedOperation.finish *)
CloseSpan(c) ==
  /\ Ready(c, "close")
  /\ span' = [span EXCEPT ![<<c, Head(todo[c])[2]>>] = verdict[c]]
  /\ Done(c) /\ CallOnly /\ UNCHANGED <<verdict, task, row, attempts, overdue>>

(* update_task, after which the heartbeat of the task stops. *)
ReportTask(c) ==
  /\ Ready(c, "report")
  /\ task' = [task EXCEPT ![c] = verdict[c]]
  /\ overdue' = overdue \ {c}
  /\ Done(c) /\ CallOnly /\ UNCHANGED <<verdict, span, row, attempts>>

FinishEvent(c) ==
  /\ Ready(c, "finish")
  /\ row' = [row EXCEPT ![EventOf[c]] = verdict[c]]
  /\ overdue' = overdue \ {EventOf[c]}
  /\ Done(c) /\ CallOnly /\ UNCHANGED <<verdict, task, span, attempts>>

Pending(c, what) == \E i \in DOMAIN todo[c] : todo[c][i][1] = what

(* The calls that beat for the row of an event: touch_rustfs_event_lease   *)
(* does not ask which worker has claimed it.                               *)
Beating(e) ==
  {c \in Calls \ dead : EventOf[c] = e /\ ~Pending(c, "claim")
                        /\ (Pending(c, "work") \/ Pending(c, "finish"))}

(* touch_task, and touch_rustfs_event_lease. *)
TouchTask(c) ==
  /\ c \in overdue /\ c \notin dead /\ task[c] = "running"
  /\ overdue' = overdue \ {c}
  /\ CallOnly /\ UNCHANGED <<todo, verdict, recordVars>>

TouchLease(e) ==
  /\ e \in overdue /\ row[e] = "running" /\ Beating(e) # {}
  /\ overdue' = overdue \ {e}
  /\ CallOnly /\ UNCHANGED <<todo, verdict, recordVars>>

(* A heartbeat that does not come in time: of a living call, which its     *)
(* event loop held up, or of a dead one.                                   *)
Silent(x, alive) ==
  /\ x \notin overdue /\ overdue' = overdue \cup {x}
  /\ IF alive THEN silences + deaths < MaxLapses /\ silences' = silences + 1
              ELSE UNCHANGED silences
  /\ UNCHANGED <<todo, dead, midway, verdict, recordVars, sweep, deaths>>

TaskLapses(c)  == task[c] = "running" /\ Silent(c, c \notin dead)
LeaseLapses(e) == row[e] = "running" /\ Silent(e, Beating(e) # {})

Dies(c) ==
  /\ c \notin dead /\ todo[c] \notin {Opening(c), <<>>}
  /\ silences + deaths < MaxLapses /\ deaths' = deaths + 1
  /\ dead' = dead \cup {c}
  /\ midway' = IF task[c] = "running" /\ sweep.pc = "idle" THEN midway \cup {c} ELSE midway
  /\ UNCHANGED <<todo, verdict, recordVars, overdue, sweep, silences>>

-----------------------------------------------------------------------------
(* The sweep of a worker: a commit or a query a step.                      *)

SweepOnly == UNCHANGED <<todo, dead, midway, verdict, attempts, overdue, boundVars>>

(* reconcile_stale_tasks: the running tasks are listed, ... *)
ListStale ==
  /\ sweep.pc = "idle"
  /\ LET S == {c \in Calls : task[c] = "running" /\ c \in overdue} IN
     sweep' = [NoSweep EXCEPT !.pc = IF S = {} THEN "events" ELSE "cancel", !.found = S]
  /\ SweepOnly /\ UNCHANGED <<task, span, row>>

(* A faulty CancelStale: whatever has become of the task since. *)
CancelAnyway ==
  /\ sweep.pc = "cancel"
  /\ task' = [c \in Calls |-> IF c \in sweep.found THEN "cancelled" ELSE task[c]]
  /\ sweep' = [sweep EXCEPT !.pc = "events"]
  /\ SweepOnly /\ UNCHANGED <<span, row>>

(* A faulty CancelStale: the tasks of events are left to their events. *)
CancelDirect ==
  /\ sweep.pc = "cancel"
  /\ task' = [c \in Calls |-> IF c \in sweep.found /\ task[c] = "running" /\ ~ByEvent(c)
                              THEN "cancelled" ELSE task[c]]
  /\ sweep' = [sweep EXCEPT !.pc = "events"]
  /\ SweepOnly /\ UNCHANGED <<span, row>>

(* ... and those still running are cancelled. *)
CancelStale ==
  /\ sweep.pc = "cancel"
  /\ task' = [c \in Calls |-> IF c \in sweep.found /\ task[c] = "running"
                              THEN "cancelled" ELSE task[c]]
  /\ sweep' = [sweep EXCEPT !.pc = "events"]
  /\ SweepOnly /\ UNCHANGED <<span, row>>

(* reconcile_expired_rustfs_events: the events listed count as found even  *)
(* if they are no longer running when they are put back.                   *)
ListExpired ==
  /\ sweep.pc = "events"
  /\ LET S == {e \in Events : row[e] = "running" /\ e \in overdue} IN
     sweep' = [sweep EXCEPT !.found = @ \cup S,
                            !.pc = IF S # {} THEN "requeue"
                                   ELSE IF sweep.found # {} THEN "match" ELSE "orphans"]
  /\ SweepOnly /\ UNCHANGED <<task, span, row>>

RequeueExpired ==
  /\ sweep.pc = "requeue"
  /\ row' = [e \in Events |->
               IF e \in sweep.found /\ row[e] = "running"
               THEN IF attempts[e] >= MaxAttempts THEN "failed" ELSE "queued"
               ELSE row[e]]
  /\ sweep' = [sweep EXCEPT !.pc = "match"]
  /\ SweepOnly /\ UNCHANGED <<task, span>>

Running == {s \in Spans : span[s] = "running"}

(* The task or event a span carries: none, below ingest_file. *)
IdOf(s) == IF ByEvent(s[1]) THEN IF s[2] = 3 THEN s[1] ELSE EventOf[s[1]]
                            ELSE IF s[2] = 1 THEN s[1] ELSE Direct

(* abandon_operation_spans: every running span of a trace in which one     *)
(* carries the id of something found.                                      *)
Matching(rows) == {s \in rows : \E t \in rows : t[1] = s[1] /\ IdOf(t) \in sweep.found}

ListMatching ==
  /\ sweep.pc = "match"
  /\ sweep' = [sweep EXCEPT !.pc = "abandon", !.rows = Matching(Running)]
  /\ SweepOnly /\ UNCHANGED <<task, span, row>>

(* reconcile_orphaned_operation_spans: every running span below one that   *)
(* has failed, was cancelled or abandoned.                                 *)
Orphans ==
  {s \in Running : \E l \in 1..(s[2] - 1) :
     span[<<s[1], l>>] \in {"abandoned", "cancelled", "failed"}}

ListOrphans ==
  /\ sweep.pc = "orphans"
  /\ sweep' = IF Orphans = {} THEN NoSweep
              ELSE [sweep EXCEPT !.pc = "last", !.rows = Orphans]
  /\ SweepOnly /\ UNCHANGED <<task, span, row>>

(* Latest first, and whatever its status is by now. *)
AbandonNext ==
  /\ sweep.pc \in {"abandon", "last"} /\ sweep.rows # {}
  /\ \E s \in sweep.rows :
       /\ \A t \in sweep.rows : t[1] = s[1] => t[2] <= s[2]
       /\ span' = [span EXCEPT ![s] = "abandoned"]
       /\ sweep' = [sweep EXCEPT !.rows = @ \ {s}]
  /\ SweepOnly /\ UNCHANGED <<task, row>>

AllAbandoned ==
  /\ sweep.pc \in {"abandon", "last"} /\ sweep.rows = {}
  /\ sweep' = IF sweep.pc = "last" THEN NoSweep ELSE [sweep EXCEPT !.pc = "orphans"]
  /\ SweepOnly /\ UNCHANGED <<task, span, row>>

(* The worker dies in its sweep: what was found is forgotten. *)
SweeperDies ==
  /\ sweep.pc # "idle" /\ silences + deaths < MaxLapses /\ deaths' = deaths + 1
  /\ sweep' = NoSweep
  /\ UNCHANGED <<todo, dead, midway, verdict, recordVars, overdue, silences>>

-----------------------------------------------------------------------------
CallStep(c) ==
  \/ ClaimRow(c) \/ OpenSpan(c) \/ CreateTask(c) \/ Work(c)
  \/ CloseSpan(c) \/ ReportTask(c) \/ FinishEvent(c)
  \/ TouchTask(c) \/ TaskLapses(c) \/ Dies(c)

LeaseStep(e) == TouchLease(e) \/ LeaseLapses(e)

SweepStep ==
  \/ ListStale \/ CancelStale \/ ListExpired \/ RequeueExpired
  \/ ListMatching \/ ListOrphans \/ AbandonNext \/ AllAbandoned

TasksNext ==
  \/ \E c \in Calls : CallStep(c)
  \/ \E e \in Events : LeaseStep(e)
  \/ SweepStep \/ SweeperDies

TasksSpec == TasksInit /\ [][TasksNext]_tasksVars

-----------------------------------------------------------------------------
(* The values of the variables. *)
TasksTypeOK ==
  /\ todo \in [Calls -> Seq({<<w>> : w \in {"claim", "create", "work", "report", "finish"}}
                            \cup ({"open", "close"} \X (1..3)))]
  /\ midway \subseteq dead /\ dead \subseteq Calls
  /\ verdict \in [Calls -> {"none", "success", "failed"}]
  /\ task \in [Calls -> {"none", "running", "success", "failed", "cancelled"}]
  /\ span \in [Spans -> {"none", "running", "success", "failed", "abandoned"}]
  /\ row \in [Events -> {"queued", "running", "success", "failed"}]
  /\ attempts \in [Events -> Nat]
  /\ overdue \subseteq Calls \cup Events
  /\ sweep.pc \in {"idle", "cancel", "events", "requeue", "match", "abandon", "orphans", "last"}
  /\ sweep.found \subseteq Calls \cup Events /\ sweep.rows \subseteq Spans

(* As long as heartbeats come in time and nothing dies, no sweep touches a *)
(* call, whichever way it ends: no task is cancelled, no span abandoned,   *)
(* no event claimed twice. The innermost span is closed first, so a failed *)
(* parent never has a running child (metadata_store.py:1288-1336). And a   *)
(* sweep that is not cut short and has settled the task and the event of a *)
(* call that died leaves none of its spans running (1338-1361) - unless a  *)
(* heartbeat of the living was late: a row put back before its call opens  *)
(* spans is not looked at again.                                           *)
SweepTellsLivingFromDead ==
  /\ silences = 0 /\ deaths = 0 =>
       /\ \A c \in Calls : task[c] # "cancelled"
       /\ \A s \in Spans : span[s] # "abandoned"
       /\ \A e \in Events : attempts[e] <= 1
  /\ sweep.pc = "idle" /\ silences = 0 /\ deaths = Cardinality(dead) =>
       \A s \in Spans : s[1] \in midway /\ span[s] = "running" =>
         "running" \in {task[s[1]]} \cup {row[e] : e \in {EventOf[s[1]]} \cap Events}

(* A call that has come to its end leaves its own verdict in its task,     *)
(* whatever a sweep that ran alongside had listed (metadata_store.py:      *)
(* 830-838): a cancelled task is one that never reported.                  *)
TaskKeepsVerdict ==
  \A c \in Calls : ~Pending(c, "create") /\ ~Pending(c, "work") /\ ~Pending(c, "report")
                     => task[c] = verdict[c]

(* The worker loop goes on, calls take their next steps, and a process     *)
(* that is dead sends no more heartbeats.                                  *)
CallAdvances(c) ==
  \/ ClaimRow(c) \/ OpenSpan(c) \/ CreateTask(c) \/ Work(c)
  \/ CloseSpan(c) \/ ReportTask(c) \/ FinishEvent(c)

Advances   == \E c \in Calls : CallAdvances(c)
GoesSilent ==
  \/ \E c \in dead : TaskLapses(c)
  \/ \E e \in Events : Beating(e) = {} /\ LeaseLapses(e)

TasksFairness ==
  WF_tasksVars(Advances) /\ WF_tasksVars(GoesSilent) /\ WF_tasksVars(SweepStep)

TasksFairSpec == TasksSpec /\ TasksFairness

(* No task stays "running", though calls write its end only if they live   *)
(* to see it, and stale tasks are found by a sweep whose steps any call    *)
(* may run into.                                                           *)
EveryTaskEnds == []<>(\A c \in Calls : task[c] # "running")
=============================================================================
