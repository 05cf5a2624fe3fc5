------------------------------ MODULE ReadPath -------------------------------
(***************************************************************************)
(* Retrieval: the requests of the API process (read_http.py), the pipeline *)
(* session they share (pipeline_runner.py) and the sparse retriever server *)
(* behind it (servers/retriever/retriever.py), which keeps the corpus and  *)
(* the BM25 index of one knowledge base in memory, while the index manager *)
(* of another process rewrites the files these come from (kb_indexer.py).  *)
(*                                                                         *)
(* A corpus is known by the number of the refresh that wrote it. The tools *)
(* of the server do not await anything, so only the writer gets between    *)
(* their steps, from one file to the next. The dense search names its      *)
(* collection with every query and keeps nothing that is modelled here.    *)
(***************************************************************************)
EXTENDS Naturals, FiniteSets

CONSTANTS
  KBs,          \* knowledge bases
  Refreshed,    \* those whose documents change
  Requests,     \* calls of retrieve_items or generate_answer
  Nothing,      \* no knowledge base, no request, no index, no signature
  MaxRefreshes, \* bound: refreshes of their files, in all
  MaxStarts,    \* bound: starts of the API process
  MaxMishaps    \* bound: crashes of a writer or of the server, failed starts

ASSUME ReadAssumption ==
  /\ Refreshed \subseteq KBs
  /\ Nothing \notin KBs \cup Requests \cup Nat
  /\ MaxRefreshes \in Nat /\ MaxStarts \in Nat /\ MaxMishaps \in Nat

VARIABLES
  corpus,    \* combined/chunks.jsonl: the refresh, all of it?, any rows?
  bm25,      \* the index directory: the corpus it is of, all of it?
  writer,    \* how far the refresh of each knowledge base has come
  health,    \* ReadService._health_status
  toWarm,    \* the knowledge bases warmup has still to query
  session,   \* "none", "made" (in _sessions, not entered) or "entered"
  alive,     \* the server's process is there
  runLock,   \* the request that holds the session's run_lock
  server,    \* the fields of the retriever
  request,   \* where each request is
  refreshes, starts, mishaps

filesVars   == <<corpus, bm25, writer, refreshes>>
processVars == <<health, toWarm, session, alive>>
readVars    == <<filesVars, processVars, runLock, server, request, starts, mishaps>>

NoIndex   == [of |-> Nothing, whole |-> FALSE]
NoRecords == [ver |-> Nothing, whole |-> FALSE, rows |-> FALSE]
NoSignature == [kb |-> Nothing, corpus |-> NoRecords, bm25 |-> NoIndex]

(* mark is the signature computed for the request; since and steady tell   *)
(* what its knowledge base was like when it came and whether it still is;  *)
(* hits is what the search was made on, sane that no crash or failed init  *)
(* was met.                                                                *)
NoHits    == [kb |-> Nothing, records |-> NoRecords, of |-> Nothing]
NoRequest == [pc |-> "idle", kb |-> Nothing, mark |-> NoSignature, since |-> Nothing,
              steady |-> FALSE, hits |-> NoHits, sane |-> TRUE]

(* sign is _init_signature; kb, records and model are what the fields were *)
(* last replaced for and with. soured remembers that an init has raised    *)
(* since sign was set, of which the program keeps no note.                 *)
FreshServer ==
  [sign |-> NoSignature, kb |-> Nothing, records |-> NoRecords, model |-> Nothing,
   soured |-> FALSE]

(* Every knowledge base has been built once. *)
ReadInit ==
  /\ corpus = [k \in KBs |-> [ver |-> 1, whole |-> TRUE, rows |-> TRUE]]
  /\ bm25 = [k \in KBs |-> [of |-> 1, whole |-> TRUE]]
  /\ writer = [k \in KBs |-> "idle"]
  /\ health = "stopped" /\ toWarm = {}
  /\ session = "none" /\ alive = FALSE /\ runLock = Nothing
  /\ server = FreshServer
  /\ request = [r \in Requests |-> NoRequest]
  /\ refreshes = 0 /\ starts = 0 /\ mishaps = 0

Mishap == mishaps < MaxMishaps /\ mishaps' = mishaps + 1

(* A faulty Signature: the configuration alone. *)
ConfigSignature(k) == [kb |-> k, corpus |-> NoRecords, bm25 |-> NoIndex]

(* The mtime of the corpus and the latest one of the index directory stand *)
(* in the signature for their state.                                       *)
Signature(k) == [kb |-> k, corpus |-> corpus[k], bm25 |-> bm25[k]]

-----------------------------------------------------------------------------
(* The writer: refresh_combined_artifacts writes the corpus in place, then *)
(* bm25_index removes the index directory and saves the new one, file by   *)
(* file; a knowledge base left without documents keeps no index.           *)

(* The files of a knowledge base agree, and nobody is at them. *)
Settled(k) ==
  /\ writer[k] = "idle" /\ corpus[k].whole
  /\ bm25[k] = [of |-> corpus[k].ver, whole |-> TRUE]

Touch(k) ==
  request' = [r \in Requests |->
                IF request[r].kb = k
                THEN [request[r] EXCEPT !.steady = FALSE, !.since = Nothing]
                ELSE request[r]]

WriterOnly == UNCHANGED <<processVars, runLock, server, starts, mishaps>>

WriteCorpus(k) ==
  /\ writer[k] = "idle" /\ refreshes < MaxRefreshes
  /\ refreshes' = refreshes + 1
  /\ \E some \in BOOLEAN :
       corpus' = [corpus EXCEPT ![k] = [ver |-> @.ver + 1, whole |-> FALSE, rows |-> some]]
  /\ writer' = [writer EXCEPT ![k] = "writing"]
  /\ Touch(k) /\ WriterOnly /\ UNCHANGED bm25

CorpusWritten(k) ==
  /\ writer[k] = "writing"
  /\ corpus' = [corpus EXCEPT ![k].whole = TRUE]
  /\ writer' = [writer EXCEPT ![k] = "clearing"]
  /\ Touch(k) /\ WriterOnly /\ UNCHANGED <<bm25, refreshes>>

ClearIndex(k) ==
  /\ writer[k] = "clearing"
  /\ bm25' = [bm25 EXCEPT ![k] = NoIndex]
  /\ writer' = [writer EXCEPT ![k] = IF corpus[k].rows THEN "saving" ELSE "idle"]
  /\ Touch(k) /\ WriterOnly /\ UNCHANGED <<corpus, refreshes>>

SaveIndex(k) ==
  /\ writer[k] = "saving"
  /\ bm25' = [bm25 EXCEPT ![k] = [of |-> corpus[k].ver, whole |-> FALSE]]
  /\ writer' = [writer EXCEPT ![k] = "vocabulary"]
  /\ Touch(k) /\ WriterOnly /\ UNCHANGED <<corpus, refreshes>>

SaveVocabulary(k) ==
  /\ writer[k] = "vocabulary"
  /\ bm25' = [bm25 EXCEPT ![k].whole = TRUE]
  /\ writer' = [writer EXCEPT ![k] = "idle"]
  /\ Touch(k) /\ WriterOnly /\ UNCHANGED <<corpus, refreshes>>

(* A pipeline fails, or the process of the writer ends. *)
WriterStops(k) ==
  /\ writer[k] # "idle" /\ Mishap
  /\ writer' = [writer EXCEPT ![k] = "idle"]
  /\ UNCHANGED <<corpus, bm25, refreshes, processVars, runLock, server, request, starts>>

-----------------------------------------------------------------------------
(* The API process. Unless it is told not to, lifespan warms up before it  *)
(* serves: the session is entered, and each knowledge base with documents, *)
(* or some of them (mode, kb_ids), is queried once; the first query that   *)
(* fails leaves the rest out.                                              *)

Serving == health \in {"ready", "degraded"}

StartOnly == starts < MaxStarts /\ starts' = starts + 1
             /\ UNCHANGED <<filesVars, runLock, server, request>>

StartCold ==
  /\ health = "stopped" /\ StartOnly
  /\ health' = "ready"
  /\ UNCHANGED <<toWarm, session, alive, mishaps>>

StartWarming ==
  /\ health = "stopped" /\ StartOnly
  /\ \E W \in SUBSET {k \in KBs : corpus[k].rows} :
       toWarm' = W /\ health' = IF W = {} THEN "ready" ELSE "warming"
  /\ session' = "entered" /\ alive' = TRUE
  /\ UNCHANGED mishaps

(* The session cannot be entered: warmup raises, and lifespan with it. *)
StartFails ==
  /\ health = "stopped" /\ StartOnly /\ Mishap
  /\ UNCHANGED processVars

Come(r, k) ==
  request' = [request EXCEPT ![r] =
    [NoRequest EXCEPT !.pc = "session", !.kb = k, !.steady = Settled(k),
                      !.since = IF Settled(k) THEN corpus[k].ver ELSE Nothing]]

WarmupQuery(r, k) ==
  /\ health = "warming" /\ \A q \in Requests : request[q].pc = "idle"
  /\ k \in toWarm /\ toWarm' = toWarm \ {k}
  /\ Come(r, k)
  /\ UNCHANGED <<filesVars, health, session, alive, runLock, server, starts, mishaps>>

WarmupAnswered(r) ==
  /\ health = "warming" /\ request[r].pc = "answered"
  /\ health' = IF toWarm = {} THEN "ready" ELSE "warming"
  /\ request' = [request EXCEPT ![r] = NoRequest]
  /\ UNCHANGED <<filesVars, toWarm, session, alive, runLock, server, starts, mishaps>>

WarmupFailed(r) ==
  /\ health = "warming" /\ request[r].pc = "failed"
  /\ health' = "degraded" /\ toWarm' = {}
  /\ request' = [request EXCEPT ![r] = NoRequest]
  /\ UNCHANGED <<filesVars, session, alive, runLock, server, starts, mishaps>>

(* reset, after the last response: the session is closed, and its servers  *)
(* with it.                                                                *)
Stop ==
  /\ Serving /\ \A q \in Requests : request[q].pc = "idle"
  /\ health' = "stopped"
  /\ session' = "none" /\ alive' = FALSE /\ server' = FreshServer
  /\ UNCHANGED <<filesVars, toWarm, runLock, request, starts, mishaps>>

ServerDies ==
  /\ alive /\ Mishap
  /\ alive' = FALSE /\ server' = FreshServer
  /\ UNCHANGED <<filesVars, health, toWarm, session, runLock, request, starts>>

-----------------------------------------------------------------------------
(* A request. *)

Ask(r, k) ==
  /\ Serving /\ request[r].pc = "idle"
  /\ Come(r, k)
  /\ UNCHANGED <<filesVars, processVars, runLock, server, starts, mishaps>>

Respond(r) ==
  /\ Serving /\ request[r].pc \in {"answered", "failed"}
  /\ request' = [request EXCEPT ![r] = NoRequest]
  /\ UNCHANGED <<filesVars, processVars, runLock, server, starts, mishaps>>

At(r, p)   == request[r].pc = p
GoOn(r, p) == request' = [request EXCEPT ![r].pc = p]
RunOnly    == UNCHANGED <<filesVars, processVars, starts, mishaps>>

(* The run ends with an exception, at fault or not. *)
FailRun(r, sane) ==
  /\ runLock' = Nothing
  /\ request' = [request EXCEPT ![r].pc = "failed", ![r].mark = NoSignature,
                                ![r].sane = sane]

(* _get_session: one request enters the session, under its start_lock. A   *)
(* session that was entered once is taken to run for good.                 *)
EnterSession(r) ==
  /\ At(r, "session") /\ session # "entered"
  /\ session' = "entered" /\ alive' = TRUE
  /\ GoOn(r, "lock")
  /\ UNCHANGED <<filesVars, health, toWarm, runLock, server, starts, mishaps>>

SessionThere(r) ==
  /\ At(r, "session") /\ session = "entered"
  /\ GoOn(r, "lock")
  /\ RunOnly /\ UNCHANGED <<runLock, server>>

SessionFails(r) ==
  /\ At(r, "session") /\ session # "entered" /\ Mishap
  /\ session' = "made"
  /\ request' = [request EXCEPT ![r].pc = "failed", ![r].sane = FALSE]
  /\ UNCHANGED <<filesVars, health, toWarm, alive, runLock, server, starts>>

(* A faulty Acquire: nobody asks for the run_lock. *)
RunAtOnce(r) ==
  /\ At(r, "lock")
  /\ runLock' = r
  /\ GoOn(r, "init")
  /\ RunOnly /\ UNCHANGED server

Acquire(r) ==
  /\ At(r, "lock") /\ runLock = Nothing
  /\ runLock' = r
  /\ GoOn(r, "init")
  /\ RunOnly /\ UNCHANGED server

ServerGone(r) ==
  /\ request[r].pc \in {"init", "corpus", "index", "search"} /\ ~alive
  /\ FailRun(r, FALSE)
  /\ RunOnly /\ UNCHANGED server

(* retriever_init: nothing is loaded when the signature is that of the     *)
(* last init that succeeded; else the model is replaced by an empty one,   *)
(* and the records of the corpus are read again.                           *)
SkipInit(r) ==
  /\ At(r, "init") /\ alive
  /\ server.sign = Signature(request[r].kb)
  /\ GoOn(r, "search")
  /\ RunOnly /\ UNCHANGED <<runLock, server>>

BeginInit(r) ==
  /\ At(r, "init") /\ alive
  /\ server.sign # Signature(request[r].kb)
  /\ server' = [server EXCEPT !.kb = request[r].kb, !.records = NoRecords,
                              !.model = Nothing, !.soured = TRUE]
  /\ request' = [request EXCEPT ![r].pc = "corpus",
                                ![r].mark = Signature(request[r].kb)]
  /\ RunOnly /\ UNCHANGED runLock

(* A file that is being written ends anywhere: after no row or some, ... *)
Readable(k) ==
  IF corpus[k].whole THEN {corpus[k]}
  ELSE {[corpus[k] EXCEPT !.rows = some] : some \in {FALSE, corpus[k].rows}}

LoadCorpus(r) ==
  /\ At(r, "corpus") /\ alive
  /\ \E c \in Readable(request[r].kb) : server' = [server EXCEPT !.records = c]
  /\ GoOn(r, "index")
  /\ RunOnly /\ UNCHANGED runLock

(* ... or within a row, which raises. *)
TornRow(r) ==
  /\ At(r, "corpus") /\ alive /\ ~corpus[request[r].kb].whole
  /\ \E c \in Readable(request[r].kb) : server' = [server EXCEPT !.records = c]
  /\ FailRun(r, TRUE)
  /\ RunOnly

(* The index is loaded, if there is one, and the signature kept.           *)
LoadIndex(r) ==
  LET k == request[r].kb
  IN /\ At(r, "index") /\ alive
     /\ bm25[k].of # Nothing => bm25[k].whole
     /\ server' = [server EXCEPT !.model = bm25[k].of, !.sign = request[r].mark,
                                 !.soured = FALSE]
     /\ request' = [request EXCEPT ![r].pc = "search", ![r].mark = NoSignature]
     /\ RunOnly /\ UNCHANGED runLock

(* A file of the index is missing: the init raises and leaves the          *)
(* signature of an earlier one.                                            *)
TornIndex(r) ==
  LET k == request[r].kb
  IN /\ At(r, "index") /\ alive
     /\ bm25[k].of # Nothing /\ ~bm25[k].whole
     /\ FailRun(r, TRUE)
     /\ RunOnly /\ UNCHANGED server

(* bm25_search_structured: the index directory must be there; no records,  *)
(* no hits; an empty model cannot be searched; else the model gives        *)
(* positions in the records, which may fail if they are not of one corpus. *)
Matched == server.records.ver = server.model /\ server.records.whole

Search(r) ==
  /\ At(r, "search") /\ alive
  /\ bm25[server.kb].of # Nothing
  /\ server.records.rows => server.model # Nothing
  /\ request' = [request EXCEPT
       ![r].pc = "answered", ![r].sane = ~server.soured,
       ![r].hits = [kb |-> server.kb, records |-> server.records, of |-> server.model]]
  /\ runLock' = Nothing
  /\ RunOnly /\ UNCHANGED server

SearchFails(r) ==
  /\ At(r, "search") /\ alive
  /\ \/ bm25[server.kb].of = Nothing
     \/ server.records.rows /\ ~Matched
  /\ FailRun(r, ~server.soured)
  /\ RunOnly /\ UNCHANGED server

-----------------------------------------------------------------------------
WriterNext(k) ==
  \/ WriteCorpus(k) \/ CorpusWritten(k) \/ ClearIndex(k)
  \/ SaveIndex(k) \/ SaveVocabulary(k) \/ WriterStops(k)

ProcessNext ==
  \/ StartCold \/ StartWarming \/ StartFails \/ Stop \/ ServerDies
  \/ \E r \in Requests : WarmupAnswered(r) \/ WarmupFailed(r)
  \/ \E r \in Requests, k \in KBs : WarmupQuery(r, k)

RequestNext(r) ==
  \/ \E k \in KBs : Ask(r, k)
  \/ Respond(r) \/ EnterSession(r) \/ SessionThere(r) \/ SessionFails(r)
  \/ Acquire(r) \/ ServerGone(r) \/ SkipInit(r) \/ BeginInit(r)
  \/ LoadCorpus(r) \/ TornRow(r) \/ LoadIndex(r) \/ TornIndex(r)
  \/ Search(r) \/ SearchFails(r)

ReadNext ==
  \/ \E k \in Refreshed : WriterNext(k)
  \/ ProcessNext
  \/ \E r \in Requests : RequestNext(r)

ReadSpec == ReadInit /\ [][ReadNext]_readVars

-----------------------------------------------------------------------------
(* Corpora, indexes, signatures, servers and requests as they can be.      *)
Corpora    == [ver : Nat, whole : BOOLEAN, rows : BOOLEAN]
Indexes    == [of : Nat \cup {Nothing}, whole : BOOLEAN]
KBsOrNone  == KBs \cup {Nothing}
Versions   == Nat \cup {Nothing}
Records    == Corpora \cup {NoRecords}
Signatures == [kb : KBsOrNone, corpus : Records, bm25 : Indexes]
Servers    == [sign : Signatures, kb : KBsOrNone, records : Records, model : Versions,
               soured : BOOLEAN]
Hits       == [kb : KBsOrNone, records : Records, of : Versions]
Steps      == {"idle", "session", "lock", "init", "corpus", "index", "search",
               "answered", "failed"}
RequestStates == [pc : Steps, kb : KBsOrNone, mark : Signatures, since : Versions,
                  steady : BOOLEAN, hits : Hits, sane : BOOLEAN]

(* Every variable has its type, and a request under way a knowledge base. *)
ReadTypeOK ==
  /\ corpus \in [KBs -> Corpora] /\ bm25 \in [KBs -> Indexes]
  /\ writer \in [KBs -> {"idle", "writing", "clearing", "saving", "vocabulary"}]
  /\ health \in {"stopped", "warming", "ready", "degraded"} /\ toWarm \subseteq KBs
  /\ session \in {"none", "made", "entered"} /\ alive \in BOOLEAN
  /\ runLock \in Requests \cup {Nothing}
  /\ server \in Servers
  /\ request \in [Requests -> RequestStates]
  /\ \A r \in Requests : request[r].pc # "idle" => request[r].kb \in KBs
  /\ refreshes \in Nat /\ starts \in Nat /\ mishaps \in Nat

(* No request is given rows of another one's knowledge base, although all  *)
(* share one server that holds one knowledge base at a time, which an init *)
(* that raises leaves half replaced, under the signature it had before.    *)
AnswersFromOwnKB ==
  \A r \in Requests :
    request[r].pc = "answered" /\ request[r].hits.records.rows =>
      request[r].hits.kb = request[r].kb

(* A request whose knowledge base is not touched while it is under way is  *)
(* answered, from records and an index that are of its present corpus,     *)
(* whatever the server had read before and half-way through whose refresh; *)
(* crashes and inits that raised excepted.                                 *)
AnswersCurrent ==
  \A r \in Requests :
    request[r].pc \in {"answered", "failed"} /\ request[r].steady /\ request[r].sane =>
      /\ request[r].pc = "answered"
      /\ request[r].hits.records = [ver |-> request[r].since, whole |-> TRUE, rows |-> TRUE]
      /\ request[r].hits.of = request[r].since

=============================================================================
