# bizRAG: specifications of the write path, the read path and what surrounds them

TLA+ specifications of bizRAG, the TLC configurations that model-check them and the proofs that
TLAPS checks. Paths are relative to the repository. `PROJECT.json` gives, for every definition, the
lines of code it stands for; every run with its properties; for every property a mutant of the code
it catches; the findings, the hazards and the theorems.

## 1. Inventory of the system

### How a document gets from a directory to an answer

```
watched directory --+                                    +-- admin API (threads of the API process)
                    v                                    v
upload API --> file_service: files, versions, blobs   KBAdmin --> chunk files, combined file,
                    | one statement after another        ^         Milvus, BM25 --> retrieval
                    v                                    |
               outbox_events -- publisher --> RabbitMQ --> mq bridge --> rustfs_events --> workers
                                     \--- HTTP POST --> queue endpoint --^
```

| Component | State | Operations | Talks to |
|---|---|---|---|
| Files and uploads (`file_service/app/api.py`, `db.py`, `storage.py`) | tables `files`, `file_versions`; blobs on disk | create, replace content, PATCH metadata, delete, list, download | stores an outbox row after each change |
| Watcher (`watcher.py`) | `_known_root_kb_ids`, changes not yet handled | handle a change; a full pass (register, list, upsert, delete the missing, clean up KBs) at start-up and every interval | the file tables, the registrar |
| Registrar (`kb_registry.py`) | caches of known and of deleted KB ids | `ensure_registered`, `ensure_deleted` | admin API of bizrag over HTTP |
| Outbox (`db.py`, `publisher.py`) | table `outbox_events` | claim a batch, mark success, mark failed | RabbitMQ, or the HTTP queue endpoint |
| MQ bridge (`rustfs_mq_bridge_cli.py`) | the queue's unacknowledged message | store the events of a message, acknowledge | `rustfs_events` |
| Event endpoints (`rustfs_http.py`, `rustfs_events.py`) | none of their own | queue one, queue a batch, process at once, replay | `rustfs_events`, KBAdmin |
| Event queue and worker (`metadata_store.py`, `rustfs_worker_cli.py`) | table `rustfs_events`: status, worker, lease, attempts | enqueue, sweep stale leases, claim, heartbeat, process, finish, cancel | KBAdmin |
| KBAdmin (`kb_admin.py`) | tables `knowledge_bases`, `documents`, `tasks`; chunk files | register, ingest a file, ingest a path, delete a document, rebuild, delete a KB, retry a task | KBIndexManager |
| KBIndexManager (`kb_indexer.py`, `milvus_backend.py`) | the combined file, the Milvus collection, the BM25 index | incremental sync, batch sync, sync after a deletion, full rebuild, drop | the pipeline runner |
| Tasks and spans (`metadata_store.py`, `observability.py`) | tables `tasks`, `operation_spans` | open, heartbeat, close; the sweep that settles what has gone silent | every call of KBAdmin and of the worker |
| Pipeline runner, read service (`service/ultrarag/`) | persistent sessions with locks | start, warm up, retrieve, answer, close | MCP servers |
| Retriever (`servers/retriever/`) | corpus and BM25 index of one knowledge base in memory | init, search, build an index | the files of KBIndexManager, Milvus |
| Fusion and reranking (`servers/custom`, `servers/reranker`) | the snapshots of one run | merge, rerank, extract | models |
| Corpus servers (`servers/corpus`, `servers/biz_corpus`) | rows and chunk files of a document | read a file with a cascade of tools, normalise, chunk | office, MinerU |
| Server parameters (`server_parameters.py`, `kb_config.py`) | chains of parameter files, the row of a knowledge base | merge, register, resolve, send | KBIndexManager, read service |
| Migrations (`migrations/`) | the schema, parameter files of older versions | run at every start of every process | the store |
| Observability (`observability_service.py`) | none of its own | put the operations page together | `operation_spans`, `rustfs_events` |
| Supervision (`docker/`) | child processes | start, restart on change or exit, stop | all |
| Dataset building (`scripts/build_rag_eval_dataset.py`) | cached documents and chunks with their manifests | read, split, cache, draw, filter | a model |

### What is hard in it

- **Processes share tables without locks of their own.** Workers, the API, the bridge and the
  sweep read a row, decide, and update it later by id; MySQL runs with autocommit, so every UPDATE is
  visible at once. Most of the queue's hazards are of this kind.
- **Leases.** A worker claims a batch and heartbeats one event of it.
- **Several stores, one fact.** The store of file_service is opened with `isolation_level=None`
  (`db.py:79`), so a file's blob, row, version and event are four commits, whatever blocks they stand in. A
  document's row, its chunk file, the combined file, Milvus and BM25 are five stores. Every pair can be parted
  by a crash, a failing statement or pipeline, or another caller.
- **At-least-once delivery.** Publisher, broker, bridge and queue each repeat; only the primary key
  of `rustfs_events` makes a repeated event harmless.
- **The watcher** compares a directory that changes under it with a table that the API changes too.
- **One server for all.** The read requests of all knowledge bases share a retriever that holds one of
  them in memory, while another process rewrites the files it loads.
- **Starts and restarts.** Three processes migrate one database at once; a supervisor stops and starts
  them while sources change.
- **Silence is not death.** Sweeps settle tasks, events and spans by the age of a heartbeat, in several
  steps, beside calls that may only be late.

### What makes each part correct

- Event queue: every accepted event is settled once and for all, attempts are bounded, events are
  taken up oldest first, no row is stranded, an event is processed by one worker at a time (it is not).
- Outbox: what is ticked off has arrived, retries are bounded, nothing arrives twice, order is kept
  but for retries, and everything stored arrives (it does not after a crash).
- File catalogue: it converges to the directory, emits events a consumer can follow, parts blobs and
  versions only where a write was cut short, and no watched file is active without its knowledge base.
- Documents and indexes: both indexes hold exactly the chunks of the active documents, a call that
  reports success has done its work, and a rebuild mends what calls that raced or failed have left.
- The way of a file: once an event has been processed on its own after the last change of its file, the
  document is what the file is now.
- Tasks: a call's verdict stands, no task runs for ever, and sweeps leave the living alone.
- Read path: no request sees another knowledge base, and one that nothing disturbs sees its present
  documents, ranked and no more and no fewer than were wanted.
- Start-up: migrations lose no parameters, every program comes back and none runs twice.
- Ingestion, parameters, page, datasets: nothing is lost silently but what is named as lost, and nothing old
  passes for new (stale Markdown and torn caches do).

## 2. Modules

| Module | Models | Proved | Run |
|---|---|---|---|
| `EventLedger` | what the queue promises, without workers, leases and sweeps | | `bizrag` |
| `EventQueue` | `rustfs_events` and the workers | safety and refinement in `EventQueueProofs` | `bizrag` |
| `Outbox` | the outbox table and the transport-independent part of the publisher | in `OutboxRabbitProofs`, `ApiProofs` | |
| `OutboxRabbit` | `Outbox` with RabbitMQ and the bridge | safety in `OutboxRabbitProofs` | `file_service` |
| `OutboxHttp` | `Outbox` with the batch endpoint | safety in `ApiProofs` | `api` |
| `KafkaBridge` | the Kafka consumer of the bridge | safety in `ServicesProofs` | `services` |
| `FileCatalog` | uploads, watcher, registrar | safety in `FileCatalogProofs` | `file_service` |
| `KBDocuments` | KBAdmin's calls and both indexes of one knowledge base | safety in `KBDocumentsProofs` | `kd_index` |
| `WritePath` | from a change of a file to its document, with the deletion of the knowledge base | safety in `ApiProofs` | `api` |
| `Tasks` | tasks, event rows and spans under the sweeps | safety in `ServicesProofs` | `services` |
| `ReadPath` | API process, session, retriever and the files it reads | safety in `ApiProofs` | `api` |
| `Ranking` | the two searches, fusion, reranking and the answer of one query | safety in `PartsProofs` | `bizrag` |
| `Ingestion` | from a file to rows and chunks | safety in `PartsProofs` | `bizrag` |
| `Configuration` | parameter files, registration, index and read | safety in `PartsProofs` | `bizrag` |
| `Overview` | the operations page | safety in `PartsProofs` | `bizrag` |
| `Selections` | what a filter leaves of a list, for `Ranking`, `Ingestion`, `Overview` and `Dataset` | in `PartsProofs` | |
| `Dataset` | building an evaluation dataset | safety in `DatasetProofs` | `bizrag` |
| `Supervisor` | the container with and without hot reload | safety in `ServicesProofs` | `services` |
| `Migrations` | schema and parameters of older versions | safety in `ServicesProofs` | `services` |

`OutboxRabbit` and `OutboxHttp` EXTEND `Outbox`; `EventQueue` INSTANCEs `EventLedger` under a
refinement mapping. `MC*` modules add symmetry sets and constants that a `.cfg` cannot write.
`MCServices`, `MCApi`, `MCBizRag` and `MCFileService` check several modules in one run: the initial state picks
the `active` one (in `MCFileService` the `scene`), and the others keep their initial state, so that nothing is
composed that the code does not compose and the states add up instead of multiplying. `MCEventQueue`,
`MCOutboxRabbit`, `MCFileCatalog`, `MCRanking` and `MCIngestion` check one module alone, for a finding. The
next-state relations of the joint modules repeat those of the modules action by action, so that every action is seen to fire. A definition called faulty or a
mutant in its comment is a plausible bug, used by no specification.

### EventQueue

One variable per column of `rustfs_events` (`status`, `worker`, `lease`, `attempts`, `createdAt`) and
per worker its place in the loop of `rustfs_worker_cli.py` (`pc`), the decisions of its sweep that
are still to be executed (`toRequeue`, `toFail`) and the rest of its batch. Actions: `Enqueue`,
`LeaseLapses`, `ReadExpired`, `RequeueExpired` and `FailExpired` (the sweep reads first and updates
row by row), `Claim`, `RejectPayload`, `CheckDuplicate`, `StartProcessing`, `Heartbeat`,
`FinishEvent`, and the faults `Crash`, `CancelEvent`, `StoreError`, `Restart`.

Abstractions. A lease is live or has lapsed. The sweep sees every running row, where the code lists the
200 newest. On SQLite the sweep's updates are one transaction; the model has MySQL's row-by-row commits,
which include that case. `created_at` is taken right before the INSERT; the model makes them one step.
The payload is reduced to whether it still validates. `delete_kb` and events processed directly by the
API or replayed are in `WritePath`; `--once` is left out.

### Outbox, OutboxRabbit, OutboxHttp

`outbox`, `retries` and `stamp` are the columns; `clock` counts seconds because `created_at` has no
finer resolution and ties are broken arbitrarily. `pc`, `batch`, `todo` are the publisher task.
file_service has one asyncio loop and a synchronous SQLite store, so an event is stored only where the
publisher awaits (`Store` is guarded accordingly). Three kinds of error are told apart: of the
transport, of the outbox's database (which outside a `try` kills the task, `TaskDies`), and the
process going down.

In `OutboxRabbit` a message is published, then marked; both can fail, and so can closing the
connection, which marks the whole batch failed (`CloseFails`, `GiveUpNext`). The bridge stores a
message's event unless its id is known and acknowledges it; if it fails the message returns to the
queue and the process ends. `Supervised` says whether something restarts the bridge:
`dev_hot_reload.py` does, `start_bizrag.sh` does not. `Poison` are events that bizRAG can never store
(a payload the bridge cannot read): `BridgeRejects` puts the message back at the head of the queue, where it
is received again by the restarted bridge, and what lies behind it is `Blocked`, one of the fates that
`EveryEventEnds` names.

In `OutboxHttp` a request can be served after its sender has timed out, halfway, or twice in overlap
with its repetition.

### FileCatalog

`disk` is the watched directory of one knowledge base and changes at any time; `row`, `latest`, `event`
are the file's row, its latest version and the latest event; `orphans` are files with a blob that no version
refers to, `hollow` those whose latest version has lost its blob; `remote` is the knowledge base in bizrag,
`known` and `gone` the registrar's caches. `Returning` are the watched files that may come back after their
removal: `Converges` is about the others, `ReturnedConverge` about these. A write of the watcher or the API is in `hand` and goes
through `blob`, `row`, `version`, `event`, each a step: `with self._conn` makes no transaction on a connection
with `isolation_level=None`. `CatalogCrash` and `WriteFails` cut it short at any of them, which the history `torn`
keeps; a statement that fails deletes the blob, also when its version has been committed.

The watcher's handlers and passes never await, so API calls fall between them (`Idle`), while the disk changes
even between two steps of a pass. A replacement by the API awaits `await file.read()` (for bodies that were
spooled to disk), where other calls come between. PATCH is in `WritePath`. Left out: tenants, names, content
types, the default KB, more than one KB, and a watch root that is gone for a moment, which the code cannot
tell from an empty one.

### KBDocuments

`status`, `hash` are the documents table, `file` the chunk files, `combined` the combined file,
`milvus` and `bm25` the indexes; `call` holds one record per caller. Callers are the worker and the
admin requests, each with a KBAdmin of its own and no lock on the knowledge base, so a step is what a
call does between two awaits, commits or file operations. Each call is followed through
`_upsert_file`, `_mark_deleted`, `refresh_combined_artifacts`, the incremental update, the fallback to a
full rebuild and the drop. Any pipeline can fail, before or after its effect; a refused drop is only
logged, and the rows are then inserted beside the old ones; `Stop` is a crash or a cancellation.

Abstractions. A document of one content is one row. Reading the document's row and the list of active
documents is one step, and so are reading a chunk file and inserting it. Inserting a row that is there
changes nothing (Milvus would keep two copies). Corpus files are in `Ingestion`, spans and tasks in
`Tasks`, registering and deleting the knowledge base in `WritePath` and `Configuration`. The ghost
variables are `clean`, `result` and, per call, `alone`.

### WritePath

The composition of file_service, the outbox, the queue and KBAdmin, each reduced to what the documents
table can tell: `source` is the file's row and its latest version, `log` the events with the version
each names, `phase` the event's row, `doc` the document, `job` what each worker or HTTP request is doing.
Delivery is in any order (`OutboxRabbit` says when order is lost) and leases lapse at any time
(`EventQueue`). `Served` is the point: a download is of the latest version, whatever the event
says. `PostEvent` and `Replay` process an event at once; `DropBase` removes the rows of events that
workers hold. `settled` is a ghost: the files whose last processing was alone and not out of date;
without it nothing could be said, because two workers on one file may end in either order.

### Tasks

A call is one run of `ingest_file`, direct or for an event, as the list of its commits (`Opening`,
`Closing`): spans, task, event. The sweep of `reconcile_runtime_state` is its steps: list and cancel stale
tasks, list and requeue expired events, list and abandon the spans of both, look for orphans. A heartbeat is
late (`TaskLapses`, `LeaseLapses`) or comes again (`TouchTask`, `TouchLease`); a process dies with its
call, or with its sweep.

### KafkaBridge

`position` and `committed` per partition, the message in hand and how many of its events are stored. A
message that fails is printed (`printed`) and passed over; the commit of the next one takes it in. An
event without an id is given a new one at each arrival (`Anonymous`), hence may have several rows.

### ReadPath, Ranking, Configuration

`ReadPath` has the API process (`health`, `toWarm`), the session with its run lock, the retriever's
fields (`server`) and the files of each knowledge base, which a writer in another process rewrites step
by step. The tools of the server run without awaiting, so only the writer comes between their steps. A
signature is the knowledge base and the state of its files, for which the code takes their
modification times (two writes within the resolution of the file system's clock are out of reach). The
ghosts `since`, `steady` and `sane` of a request say whether its knowledge base was left alone and whether
a crash or a failed init was met: after an init that raised the server keeps its signature and may answer
from half of the fields, which `AnswersCurrent` excepts and `AnswersFromOwnKB` does not.

`Ranking` is one run of `retrieve_classic`: sizes, dense and sparse hits, fusion by rank or by normalised
scores, reranking, and what is taken out of the result. What searches and model say of a chunk is
free. Dense hits are keyed by `vector_id` and sparse ones by `doc_id`, so that a chunk found by both is
there twice and a document's further sparse chunks collapse into its best. The comment at `custom.py:58`
means to prevent that: `ChunksStayApart` says what it says, and `ranking_dedup` shows it violated.
`AnswerIsRanked` claims of the fusion only what holds and matters all the same: every dense hit and a hit of
each document of the sparse search reach the reranker, and the answer is as long as it can be.

`Configuration` represents a tree of parameters as a function from paths to values. A file is flat or has
sections and may name a base file; a row is registered, files change, one process builds the index
and another reads. Only what differs from the servers' own parameters is sent with a read: the model
takes it that UltraRAG lays this over the servers' `parameter.yaml`, which is external. `Says`
is the independent reading of a chain: the nearest file that says anything of a place decides.
An uri in a file overrules the one given at registration, and a profile without Milvus is stored with the
text "None" (`kb_admin.py:148`); both are in the model as they are.

### Ingestion, Dataset, Overview

`Ingestion` follows `_upsert_file` through the cascade of readers for `.xlsx`, `.pdf`, `.docx`, `.doc` and
text, with antiword and catdoc for both Word formats. A text is a sequence of units, each of which names the
content it is of, and which tools are there and can read the file is chosen once per file. `FileBecomesChunks`
compares the units of the chunks with those of the content recorded. `Unseen` names the text that no reader
sees. A document is `stale` when MinerU ended well without writing anything and the Markdown of an earlier
content was read: these are excepted there and are what `ActiveHoldsItsContent` is violated by (`ingest_stale`).

`Dataset` has documents and chunk pools with their manifests. A content is its origin, its version and how
many texts and rows are there, since `save_jsonl` writes in place, line by line: a run can be cut off before
any line, in the middle of one (`Half`, which no later run can read), between a file and its manifest, or in the
manifest. `torn` says that a run was cut off with its file beside the manifest of another origin; a finished
dataset is then excepted from `ComesFromOrigin`. A
source that changes under the same path is an older version, not another origin: the manifest does not
tell these apart, by design. The splitter and the allocation of generations are functions, both compared with what they
promise on all small inputs. Its assumption types the inputs (a text is a sequence of characters, a separator
is never empty, a file has a text, which may be blank) and says that the subsets of a plan have different
names, as those of `build_subset_configs` have.

`Overview` puts the page together in four groups of queries while operations begin and end, any of which may
fail. Time is counted in periods; a span's place in `spans` is the order of `started_at`; `held` says when the
events in workers' hands were last updated, of which the query sees the 400 newest. `page.changed` are the
parts to which something happened since the page was begun, and `page.cut` says that more operations ran than
were listed: the claims about a part are made for each part that did not change, whatever the others did.

### Supervisor, Migrations

`Supervisor` starts in either mode. `stage` is where PID 1 is, `live` the processes started last, `old` those
of an earlier start, `stubborn` and `held` those that outlive SIGTERM and SIGKILL. `seen` is the last
change a watcher has noticed: a change between the load of a program and the watcher's first look is
noticed by nobody, and nothing is claimed of it.

`Migrations` runs the start of several processes statement by statement. On MySQL every statement
commits, on SQLite the first UPDATE opens a transaction that ends with `_init_schema`. `crossed` is a
ghost: a knowledge base registered again while a process had its row in hand may get the inferred path
back, and is excepted.

## 3. Runs

| Run | Shows | Bounds |
|---|---|---|
| `bizrag` | queue: `LeaseIffRunning`, `AttemptsBounded`, `RunsWithinAttempts`, `OldestFirst`, `SettledStaysSettled`, `EveryEventSettles` and the refinement of `EventLedger` (`ImplementsLedger`) | 2 events, one malformed, 2 workers, batches of 2, 2 attempts, 2 faults |
| | ingestion: `FileBecomesChunks` | 2 documents, 5 types, 3 layouts, every set of tools, 2 contents |
| | datasets: `DatasetIsWhatWasAsked` | 2 origins, 2 chunk settings, 2 plans, 3 runs, 1 cut off anywhere; splitter on all texts up to 5 characters, allocation on up to 3 ratios |
| | page: `PageTellsTheTruth` | 3 spans of 2 parts, 2 listed, or 2 spans beside a queue that moves (`InView`), 1 change meanwhile |
| | parameters: `ParametersArrive` | 2 files of 4 bodies, 4 environments, 1 edit |
| | ranking: `AnswerIsRanked` | 3 chunks of 2 documents, top_k 1 and 2, both strategies |
| `eq_double_ingest` | finding: two workers ingest one event at once (`NoDoubleIngest`) | no fault |
| `or_stranded` | finding: a crash strands events in `sending` (`EveryEventReceived`) | 1 crash |
| `api` | intake: `PublishedIsReceived`, `ReceivedOnce` | 3 events, batches of 2, `max_retry` 2, 1 transport error, 1 database error, 1 crash |
| | reads: `AnswersFromOwnKB`, `AnswersCurrent` | 2 knowledge bases, 2 requests, 1 refresh, 1 start, 1 mishap |
| | writes: `FollowsTheFile` | 1 file, 2 workers, 3 events, 2 upsets |
| `services` | tasks: `SweepTellsLivingFromDead`, `TaskKeepsVerdict`, `EveryTaskEnds` | 2 calls of one event, or one of an event and one direct; one late heartbeat or one death |
| | Kafka: `CommittedIsAccountedFor` | 2 partitions, 5 messages, 2 faults |
| | container: `OneGeneration`, `ProgramsComeBack` | 2 programs, 1 edit, 2 ends |
| | migrations: `ParametersKept`, `StartsConverge` | 2 processes, 1 knowledge base, 1 killed, 1 registration |
| `ingest_stale` | finding: an active document has the text of an earlier content (`ActiveHoldsItsContent`) | 1 document, 3 contents |
| `ranking_dedup` | finding: chunks of one document collapse (`ChunksStayApart`) | 3 chunks of 2 documents |
| `file_service` | scene "faults": `CachesTruthful`, `BlobsMatchVersions`, `WatchedHaveKB`, `Converges`, `DirectoryRegistered` | one watched file that does not come back, 2 contents and the empty one, 4 edits, 2 failing requests, failing statements or crashes |
| | scenes "returns" and "uploads": the same, and `DeletedThenCreated` | a file that comes back, 4 edits; or an uploaded file beside a watched one, 2 edits, 3 calls of one caller; 1 crash |
| | scene "order": `PublishedIsDelivered`, `OvertakesOnlyAfterRetry`, `SendingIsInHand`, `ReceivedOnce`, `EveryEventEnds` | 2 events, batches of 2, `max_retry` 2, 2 seconds, 3 failures: transport errors, at most 1 database error and at most 1 crash |
| | scene "poison": the same, with a bridge that keeps failing | 2 events, one of them poison, 2 transport errors, 1 database error |
| `fc_restore` | finding: a file restored with its old content stays deleted (`ReturnedConverge`) | 4 edits |
| `fc_update_race` | finding: a replacement revives a file deleted during its await (`DeletedThenCreated`) | 2 callers, 4 calls |
| `kd_index` | `SerialCallsKeepIndexExact`, `RebuildRepairs`, `IngestedIsSearchable`, `DeletedIsGone` | 2 documents, 2 contents, 2 callers, 3 calls, 1 failure, 1 call cut short |
| `kd_delete_retry` | finding: a delete that is retried leaves the document searchable (`RetriedDeleteIsGone`) | one document |

The modules whose safety is proved state a type invariant (`TypeOK`, `ReadTypeOK`, ...), which is proved with
it (section 4) and is not among the runs' properties.

Why the bounds are enough. Two workers are the least for which a stale sweep, heartbeat or finish
meets another's claim; two events enqueued at different times are enough for one to be passed over, and
the safety properties of the queue are proved for every number. Two attempts let an event be requeued and
exhausted. In the outbox two events make a batch that half succeeds, and two seconds both an order and a
tie; three failures let an event fail, be claimed again, reach the limit of two and be given up once more.
Over HTTP three events with batches of two leave one behind in
every claim, and one error is enough for a request to be served halfway, late or twice; the retry limit is
reached over RabbitMQ. In the catalogue four edits write, change, remove and remove the directory of a file, and
two crashes, failing requests or failing statements at any of the steps, also of the write after
another's failure. In `KBDocuments` two callers
give every pairwise interleaving, and the third call is the one that runs alone afterwards and has to
cope with what the two have left; two contents tell an old row from a new one, and two documents tell
what a call does to its own document from what a rebuild does to the others. In `WritePath` three events are
a creation, a removal and a return, or a replay of one of them, two workers may hold two of them at once, and
two upsets let one event lapse or fail and the knowledge base go. In `ReadPath` one knowledge base that
changes and one that does not are what a shared server can confuse; two requests are what can come
between two steps. In `Tasks` one late heartbeat and one death are the two things a sweep must tell apart. In
`KafkaBridge` the messages hold repeated, several, anonymous and unreadable events in both partitions. In
`Migrations` and `Supervisor` two processes meet at every statement and every stop. In `Overview` three
spans exceed the two that are listed. In `Ranking` one document has two chunks, so that hits collapse.

Symmetry (events, workers, callers, contents) is used only in runs that check no liveness.

Deadlock is checked in `eq_double_ingest`, `fc_restore` and `fc_update_race`: workers and the watcher's passes
never stop. The other configurations switch the check off, because parts of them come to rest: the outbox when
all is sent or given up, bounded calls, requests, runs and messages when they have ended.

### Fairness

- `EventQueue`: a worker that runs goes on, and a lease nobody renews lapses. A worker that is down
  need not return (`start_bizrag.sh` does not restart one), hence no fairness for `Restart`; heartbeats
  need not happen, except that with `HeartbeatsKeepUp` no lease lapses under a worker that is processing.
- `OutboxRabbit`: the publisher and the bridge go on
  while they run; compose restarts `file_service`
  (`restart: unless-stopped`); the bridge restarts only if `Supervised`.
- `FileCatalog`: a write that has begun, the watcher's loop and its passes go on (the reconcile interval is
  positive), and
  compose restarts the service. Nothing is assumed of the API's callers or of the disk.
- `Tasks`: calls take their next steps, the worker loop sweeps again and again, and a process that is
  dead sends no more heartbeats.
- `Supervisor`: PID 1 goes on and docker starts an ended container (`restart: unless-stopped`); programs
  load, and end or are killed. Nothing is assumed of source changes or of programs that end.
- `Migrations`: a process that has been started runs its migrations, and is started again if they fail
  (the container, as above).

Errors, crashes, late heartbeats, edits and kills are never fair: each run bounds them, so the liveness
results say what happens once faults stop.

### Findings

1. `eq_double_ingest`: only the event in hand is heartbeated (`rustfs_worker_cli.py:162`), so leases of
   events that wait in a batch lapse and another worker processes them too.
2. `or_stranded`: no claim takes `sending` rows (`db.py:237`) and nothing resets them at start-up.
3. `fc_restore`: the content check returns before the row is made active again (`watcher.py:396`), and
   the blob saved just before has no version.
4. `fc_update_race`: the row is not read again after the await (`api.py:181`).
5. `kd_delete_retry`: the row is marked deleted before the index is updated (`kb_admin.py:448`), and a
   retry takes the mark for the whole.
6. `ingest_stale`: nothing removes the Markdown of an earlier run, which is then read for the new content
   (`corpus.py:878`).
7. `ranking_dedup`: a sparse hit has no id of its chunk, and its key is the document's (`custom.py:60`).

Further facts of the code met on the way, and where they are visible. Each statement of file_service commits by
itself (`db.py:79`): a write cut short after the version leaves a file active with its content and without an
event, and every later pass finds nothing to do; one cut short between the row and its first version leaves a
row that stays active for ever if the file is removed meanwhile, since passes and deletions go over a row without
a version (`watcher.py:232`); `torn` has both. `ingest_path` compares a dict with a string (`kb_admin.py:335`), so
that what it imports never reaches the index (`NextFile` goes on to `ImportNoop` or to a sync that inserts
nothing). A dataset can be made from rows of another source after a run was cut off between a file and its
manifest (`build_rag_eval_dataset.py:1087`, `torn` of `Dataset`). With several workers
an event can exceed `--max-attempts` by up to one per further worker (`AttemptsCap`); a database error ends
the publisher task for good (`EveryEventEnds` names it as a fate); with `LoseAnswers` the registrar's
`known` cache stays wrong after a delete whose answer is lost; a KB registered for a
directory of empty files never becomes a candidate for deletion (`watcher.py:253-262`); after a
failed re-ingest the old rows stay in Milvus beside the new ones (`kb_admin.py:222`; this is why
`IngestedIsSearchable` claims replacement only for documents that were active); an ingest that loses its
chunk file to a concurrent delete falls back to a rebuild without it and reports success; a message the bridge
cannot store comes back to the head of the RabbitMQ queue for ever and blocks what is behind it (`Blocked`), while
a poison message in Kafka is passed over by the next commit, with no more than a line printed; a cached file of
rows cut off in the middle of a line ends every later run of its source until one of another source has rewritten
it, and a manifest cut off every run (`Unreadable`); a source that changes between the start of the programs and the watcher's first look is
not noticed; a knowledge base registered again during another process's migration can get its old
path back (`crossed`); a retriever whose init raised keeps the signature of the state before; a living call
whose row lapses and is requeued before its spans are open opens two of them, creates its task and can die
before the third: the sweep cancels the task, but no running span carries an id the sweep has found, and the
spans run for ever (a late heartbeat and a death together, where `services` allows one of the two; this is
why `SweepTellsLivingFromDead` claims nothing once a heartbeat of the living was late).

## 4. Proofs

`EventQueueProofs` proves of `Spec`, for any sets of events and workers and any bounds satisfying the
module's assumptions (`Workers` finite and non-empty, `None` not a worker, `BatchSize` and
`MaxAttempts` positive):

| Theorem | Property | Inductive invariant |
|---|---|---|
| `TypeCorrect` | `TypeOK` | `TypeOK` and the finiteness of the known events |
| `LeaseCorrect` | `LeaseIffRunning` | itself: every write to a row guards on `running` or sets all three columns |
| `SettledForGood` | `SettledStaysSettled` | type invariant only; one case per row-changing step |
| `AttemptsCorrect` | `AttemptsBounded` | `AttemptsInv` |
| `OldestFirstCorrect` | `OldestFirst` | `OrderInv` |
| `RunsCorrect` | `RunsWithinAttempts` | `RunsInv` |
| `Refinement` | `ImplementsLedger` | `TypeOK`, `AttemptsInv` |

`AttemptsBounded` is not inductive: a sweep decides on attempts it read earlier. `AttemptsInv` counts,
for every event, the workers that still mean to requeue it (`StaleRequeuers`) as attempts to come. A
worker joins that set only when it has read an attempt count below the maximum, and each requeue
removes one worker and permits one claim, so the sum never passes `MaxAttempts + |Workers| - 1`. The
argument is about cardinalities of subsets of `Workers`, stated once as lemmas (`StaleFinite`,
`FewerStale`). `RunsInv` is of the same kind: a claim that has not been started is a run to come.
`OldestFirst` needs that `created_at` numbers the known events without a gap or tie and that a
claim takes a downward closed set of the queued ones.

All seven rest on `StepIsRowStep`, which reduces the many actions of `Next` to the few things they do to
a row. `Refinement` maps a claim to `Take`, a requeue to `GiveBack`, finishes and failures to `Settle`
or a stutter, and everything else to a stutter.

`OutboxRabbitProofs` proves of `OutboxRabbit`'s `Spec`, for any events, `BatchSize`, `MaxRetry` and any
bounds on the clock, the errors and the crashes:

| Theorem | Property |
|---|---|
| `TypeCorrect` | `TypeOK` |
| `PublishedCorrect` | `PublishedIsDelivered` |
| `RetriesCorrect` | `RetriesBounded` |
| `SendingCorrect` | `SendingIsInHand` |
| `ReceivedOnceCorrect` | `ReceivedOnce` |
| `OrderCorrect` | `OvertakesOnlyAfterRetry` |

The first five are parts of one inductive invariant, `IInv`, with four facts about places the code passes
through. `BatchInHand`: a publisher that awaits a confirmation awaits an event taken from its batch,
and one that is idle, dead or down has no batch. `RowBeforeAck`: a message about to be acknowledged has
its row; without it an acknowledgement could lose a published event. `SentIsDelivered`: the event to be
confirmed is on the broker or received already, since the bridge may be quicker than the confirmation.
`RetriesInBatch` follows an event's failures: fewer than `MaxRetry` when it is claimed, at most
`MaxRetry` after it failed by itself, and one more when its batch is given up. TLC agrees with all of
`IInv` on the instance of the scene "order". `StepIsQueueStep` reduces `Next` to its effects on the queue
and the received rows, and `DeliveredStays` says that no step undoes a delivery.

`RetriesBounded` is proved only; it is not among the properties of the runs.

`OvertakesOnlyAfterRetry` compares two arrivals, and everything that lies between a stored row and its
arrival can spoil it. `OrderInv` follows an event along the way: nothing that is claimed has an older event,
never failed, still to be claimed (`UnsettledFollows`, `ClaimedFollows`, `NothingAhead`), the messages of the
queue are in order (`QueueInOrder`), and what is queued follows what has been received (`QueuedFollows`).
`InOrder`, in which all parts are written, excuses an older event only by a recorded failure of it, and no
step takes such a record back. TLC agrees on 13.8 million states with three events.

`ApiProofs` proves of `ReadSpec`, for any sets of knowledge bases and requests, and any number of
refreshes, starts and mishaps, from `ReadAssumption` (the changing knowledge bases are among all,
`Nothing` is none of the other values):

| Theorem | Property |
|---|---|
| `ReadTypeInvariant` | `ReadTypeOK` |
| `OwnKnowledgeBase` | `AnswersFromOwnKB` |

`AnswersFromOwnKB` speaks of answers, which are made several steps after the server's fields were filled,
by whichever request came before. The inductive invariant `ReadInv` says how the fields can be trusted.
`LockInv`: at most one request is past the run lock. `SignedInv`: an index in memory lies
beside the records of the knowledge base that the signature names. `OwnInv`: a request that loads has
cleared the index and holds records of its own knowledge base, and one that searches finds an index only
with its own. That is why an init that raises does no harm to others: it has dropped the index first.
The steps of the writer, of the process and of a request are three lemmas (`WriterKeeps`,
`ProcessKeeps`, `RequestKeeps`).

It also proves `CurrentAnswers` (`AnswersCurrent`). It adds to `ReadInv` what the files, the
server and each request know of the present: the state of the files of a knowledge base fits the place of
its writer (`FilesFit`); the server holds what the files say if its signature is the present one, and a
signature of a state that is past cannot come again (`ServerFits`, `LoadedFits`, `Past`); and a request whose knowledge base was left
alone since it began carries, at each place, records and an index that belong to that same state (`Fits`,
by the steps `init`, `search` and `answer`). TLC agrees on 3.58 million states.

`ApiProofs` proves of `OutboxHttp` and of `WritePath`:

| Theorem | Property | Assumption | Inductive invariant |
|---|---|---|---|
| `HttpTypeCorrect` | `TypeOK` | `Events` finite | `HttpInv` |
| `HttpPublishedCorrect` | `PublishedIsReceived` | `Events` finite | `HttpInv` |
| `HttpReceivedOnceCorrect` | `ReceivedOnce` | `Events` finite | `HttpInv` |
| `WriteTypeCorrect` | `WriteTypeOK` | | `WriteInv` |
| `FollowsCorrect` | `FollowsTheFile` | | `WriteInv` |

`PublishedIsReceived` needs that an answer belongs to the batch it is read for: `AnswerInv` says that every
request with the number that is waited for carries what is still to be marked, and that an "ok" means all of
it has rows. `FreshNumber` is the pigeonhole behind it: a request can always be given a number that no
request under way has.

`FollowsTheFile` speaks of a job that ran alone and after the last change, but many jobs end without that.
`WriteInv` therefore says of every event what the log holds of it (`EventsThere`), of each job at each place
which event it has in hand (`RightEvent`), and of a job that is alone that what it has read of the file and
of the document is still so (`LoneFits`); what has settled stays so because a change or a second job takes
the file out of `settled` (`SettledFits`). No bound on files, processors or the length of the log is used.

`ServicesProofs` proves of the parts that stand around the index:

| Theorem | Property | Inductive invariant |
|---|---|---|
| `KafkaTypeInvariant` | `KafkaTypeOK` | `KafkaInv` |
| `KafkaAccounted` | `CommittedIsAccountedFor` | `KafkaInv` |
| `SupervisorTypeCorrect` | `SupervisorTypeOK` | `SupervisorInv` |
| `OneGenerationCorrect` | `OneGeneration` | `SupervisorInv` |
| `MigrationsTypeCorrect` | `MigrationsTypeOK` | `MigrationsInv` |
| `ParametersCorrect` | `ParametersKept` | `MigrationsInv` |
| `TasksTypeCorrect` | `TasksTypeOK` | `Founded` |
| `TaskVerdictsCorrect` | `TaskKeepsVerdict` | `Founded` |
| `SweepsCorrect` | `SweepTellsLivingFromDead` | `Founded`, `Calm`, `NoneForgotten` |

A Kafka commit covers whatever was fetched, of every partition: `FetchedAccounted` says that all of it but
the message in hand has its rows or was printed, and `StoredHaveRows` counts the message in hand. The
assumption gives the log its type. `NothingLeft` says at which stages of a restart nothing of an earlier
generation may be alive. For the migrations `OldGone` says that the old column is dropped only when it is
empty or copied and never comes back, `InHand` what a process that was overtaken by others can still write;
the built-in files and those of older versions are assumed to be different files. That there is a first
built-in file with the wanted parameters is `LeastNatural`, from the well-foundedness of the naturals.

The proofs about calls hold for any calls and events and any number of sweeps, late heartbeats and deaths.
`Founded` says that tasks and spans fit the place of each call in its line of commits. `Calm` is the first
half of `SweepTellsLivingFromDead`: while nobody has fallen silent or died, a running row has exactly one
holder, so the sweep finds nothing at any of its steps. `NoneForgotten` is the second half: the spans of a
call that died midway are, at every step of a sweep, covered by a running task or event, by what the sweep has
found and is about to look up, or by its last look for orphans.

`FileCatalogProofs` proves:

| Theorem | Property | Assumed beside `CatalogAssumption` | Inductive invariant |
|---|---|---|---|
| `CatalogTypeCorrect` | `CatalogTypeOK` | | `Typed` |
| `CachesCorrect` | `CachesTruthful` | no answer of the admin API is lost | itself, by `KBStep` |
| `WatchedCorrect` | `WatchedHaveKB` | `Separate`, no answer of the admin API is lost | `OneWrite`, `CachesTruthful`, `AliveHaveKB` |
| `BlobsCorrect` | `BlobsMatchVersions` | `Separate`, no file comes back on disk (`Returning = {}`) | `OneWrite`, `GoneForGood`, itself |
| `CreatedCorrect` | `DeletedThenCreated` | `Separate`, `OneCaller` | `OneWrite`, `SendingActive`, `DeletedInactive`, `HandSays` |

The assumptions are not for convenience: without them the properties are false, as `fc_restore` and
`fc_update_race` show, and with a lost answer the `known` cache stays wrong. `Separate` says that callers do
not touch the watched files. The scenes "faults" and "uploads" are instances of them. `KBStep` is what any step of the
watcher or the registrar does to the knowledge base and the caches.

One write is under way at most (`OneWrite`), since a write does not await, and what is in hand is as good as
active: `AliveHaveKB` says of such files, too, that their knowledge base is there. Only an upsert makes a file
alive, and it has registered the knowledge base or found it registered in a cache that tells the truth
(`AliveStep`); only the clean-up takes the knowledge base away, and it has asked for active files, with none in
hand. `GoneForGood` follows a removed file through notices, listings and passes, so that no upsert meets a
deleted row and saves a blob for nothing. `HandSays` ties the type of a write's event to the row and
the event that are there, over the steps at which a crash may cut it short.

`KBDocumentsProofs` proves, for any documents, contents and callers and any number of calls and faults:

| Theorem | Property |
|---|---|
| `DocumentsTypeCorrect` | `TypeOK` |
| `SerialCallsCorrect` | `SerialCallsKeepIndexExact` |
| `RebuildCorrect` | `RebuildRepairs` |
| `IngestCorrect` | `IngestedIsSearchable` |
| `DeleteCorrect` | `DeletedIsGone` |

All rest on one invariant, `IInv`. `PlaceOf` says what a call's record holds at each place of its line
of steps, whatever the others do. For a call that has been alone since it began (`Lone`; `LoneIsAlone`: then no
other is under way) `CallInv` says more: how the table and the chunk files stand (`TableInv`), that a
rebuild's indexes are complete up to its place (`RebuildInv`), what a purge has taken out (`PurgeInv`), and, if
nothing has gone wrong so far, by exactly what both indexes differ from the table at that place
(`CleanInv`). The incremental updates are exact because these differences are none at the end; the last
three theorems use the parts that hold from any disorder.

`PartsProofs` proves of the parts that compute:

| Theorem | Property | Assumed beside the module's assumption | Inductive invariant |
|---|---|---|---|
| `AnswerCorrect` | `AnswerIsRanked` | | `RankingInv` |
| `IngestionCorrect` | `FileBecomesChunks` | | `IngestionInv` |
| `OverviewCorrect` | `PageTellsTheTruth` | | `OverviewInv` |
| `ConfigurationCorrect` | `ParametersArrive` | `DictsStay` | `ConfigInv` |

The steps are few, and the work is in what each computes. Filters, the order by score, the 95th percentile, the
windows of a chunker and the chain of files are written with cardinalities and recursive functions, never with
`RECURSIVE` operators. A recursive function over the ranks of a row or the files of a chain is unfolded one
place at a time, and what holds at every place follows from `Counting` (a set of naturals with 0 and with the
next of each but the last has all of them), which rests on `LeastNatural`. `Listed` numbers the members of a
finite set in any order, and gives `PickedIs` for filters as well as the order of the fused items.

- *Ranking.* `CandidatesReachReranker` compares the fused row with the two it was made of, so `RankingInv` keeps
  what a later step needs of an earlier row: hits of admitted chunks only, no more of either search than
  candidates were asked for, which is why the limit of the fusion leaves room for all, and no chunk twice
  among the dense ones. `FusedIs` is the fusion itself: after each hit of the second row the entries are the
  dense ones and one for each document seen so far, so every dense hit has its entry, every document of the
  sparse row one for its best hit, and no two entries have the same key.
- *Ingestion.* `HoldJust` says that rows hold certain units and no others. `IngestionInv` carries it from the
  reader that could read the file (`CorpusReady`) over the normalised rows to the chunks, with `WindowsAre`
  (windows that overlap by less than their size leave no unit out) and `FlattenIs`. A unit carries the content it
  is of: `ChunksCurrent` says that an active document's units are of the content recorded, but for the `stale`
  ones, and a file that MinerU has left `Outdated` is stale once it is saved. That ids are different
  across documents is `IdsName`: an id begins with its document and ends with its number.
- *Overview.* The page is read in steps while spans begin and end. `OverviewInv` says, for each part that is not
  in `changed`, what of the page is still so (`Told`), as long as not more operations ran than were listed, of
  health that it is not "ok" over such a part that hangs or a queue that was unhealthy all the while, and of rows
  read before that each is a span's (`FromSpan`). That every
  running row is counted once is a bijection between the rows and the places of the parts' selections
  (`StateNumbered`). The 95th percentile of at most eleven durations is the largest (`PercentileIs`); of more, one
  slow read may go untold, and the property, which holds for any number of spans, claims nothing of it.
- *Configuration.* `IsMerge` says of a list of trees, the nearest first, which of them decides on a place.
  `AllMerged` shows that files laid over one another from the farthest on are such a merge, `ReadMerged` that
  reading the sections, or a flat file, commutes with merging, and `ServerMerged` that the servers' own files are
  one more tree at the far end. There is one merge of a list (`OneMerge`), so what is loaded is what the files
  say. `ServerHasIs` recovers a target from the differences sent; it needs that the tree still says something of
  each place the server has (`Covers`, kept by `StaysCovered`). `DevicesApart` shows that the two
  processes' devices change nothing that writing and reading share.

`DictsStay` is needed, for without it the property is false. It says that no file gives a value for a whole
section, and that a dict of the servers' own files which a file empties by `null` is not filled again, except
where the servers have one key there. Otherwise merging forgets that the dict was emptied: the nearer file's key
takes the place of the `null`, and the servers' other keys come back although the nearer of the files that speak
of them wanted none. `MCBizRag` assumes it, so that TLC has evaluated it for the files of the run.

`DatasetProofs` proves `DatasetCorrect` (`DatasetIsWhatWasAsked`), for any origins, rows, chunk settings,
separators and plans and any number of runs and crashes. It rests on `PartsProofs` for filters and flattened
lists. Most of it says what the operators give:

- *Allocation* (`AllocationIs`). `SumOf` is unfolded one place at a time (`SumGrows`); a quotient is less than one
  below what a ratio asks for, so fewer shares are left over than there are ratios (`MoreThanLeft`), and the
  order by remainder numbers the ratios, so that exactly so many get one more (`AsManyFirst`).
- *Splitter* (`SplitCorrect`). A separator is looked for in the second half only, so each turn ends after it
  began, and no later than `size` (`EndOfIs`), and the next begins later than this one, however large the overlap
  is (`NextStartIs`). `SplitFrom` says of the pieces of a text from a place on that they are in order and cover
  what is not blank; if it failed at a place it would fail at a later one (`PiecesAre`).
- *Chunks* (`PoolIs`). Each chunk of a pool stands in a document of its source, whatever is left out as too short
  or taken once only.
- *Tasks* (`TaskListsAre`). Tasks of different subsets differ by the subset's name, those of one subset by the
  chunks, unless more are drawn than there are; and being different passes from the lists to their flattening
  (`FlattenApart`).

The inductive invariant, `DatasetFits`, has four parts. `DatasetInv` is about the caches: `ManifestsTell` says that
a manifest names the origin of what lies beside it, but for the one that is about to be written and while no file
was `torn`, and `NothingAheadOfOrigin` orders the versions of chunks, documents and origin, which stays true
whichever cache is used again. `ContentsHeld` says that nothing has a manifest that is not there itself, and that
what a run works with can be read, even after one that was cut off in the middle of a file. `AllThere` says that
a file beside its own manifest, or in a run's hands, has all the texts of its version, and a pool all the chunks
of these: a file that ends too early has no manifest yet, or that of another origin. `TasksFit` compares what has been
asked with what is still to be asked (`TasksApart`), because a question becomes a row and is then dropped or kept.

Only model-checked:

- Liveness (`EveryEventSettles`, `EveryEventEnds`, `EveryTaskEnds`, `ProgramsComeBack`, `StartsConverge`,
  `Converges`, `DirectoryRegistered`): needs fairness and ENABLED, which are out of this prover's reach.

## 5. Not modelled, and why

- Generation, evaluation, prompts, benchmark, `scripts/run_bizrag_rag_eval.py`: each call fills a template,
  calls a model or computes a score from its arguments and keeps nothing.
- Field extraction and the inventory report: computations over one request or two listings.
- `reference/`: a vendored copy of UltraRAG that no process of bizRAG starts. What the running one does
  with a pipeline's parameters is external.
- Faiss and web search: not used by the write and read pipelines' defaults; embeddings are numbers.
- Of modelled parts: tenants, the default knowledge base, listing, tokens and signatures of requests,
  `retry_task` (which calls one of the modelled calls again), workspace directories, citations, images,
  medians and the metrics text.

## 6. What comes next

1. `WritePath` as an implementation of a replicated map that converges, and its steps as abstractions of
   `EventQueue`'s and `OutboxRabbit`'s.
2. The alert of slow reads for more than eleven of them, by saying what a percentile can tell.
3. The look-up and the insertion of an event as two steps, in `OutboxHttp` and in the bridge.
