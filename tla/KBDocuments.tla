---------------------------- MODULE KBDocuments ----------------------------
(***************************************************************************)
(* The documents of one knowledge base and its two indexes: the calls of   *)
(* KBAdmin (bizrag/service/app/kb_admin.py) and KBIndexManager             *)
(* (kb_indexer.py) over the documents table, the chunk files, the combined *)
(* chunk file, the Milvus collection and the BM25 index.                   *)
(*                                                                         *)
(* Each caller has a KBAdmin of its own - the worker process one, every    *)
(* HTTP request one in a thread (deps.py:131-148) - and nothing serialises *)
(* the calls on a knowledge base, so a step of one call (what it does      *)
(* between two awaits, commits or file operations) may fall between any    *)
(* two of another.                                                         *)
(*                                                                         *)
(* A document's chunks are one row <<d, v>>, v standing for its content    *)
(* and content hash; corpus files, spans and tasks are left out.           *)
(***************************************************************************)
EXTENDS Naturals, FiniteSets

CONSTANTS
  Docs,        \* source_uris
  Scanned,     \* those that are paths under the directory ingest_path is given
  Versions,    \* contents
  None,
  Callers,     \* the worker and the HTTP requests
  MaxCalls,    \* bound: calls started
  MaxFaults,   \* bound: failing pipelines and drops
  MaxStops     \* bound: calls cut short by a crash or a cancellation

ASSUME KBAssumption ==
  /\ Scanned \subseteq Docs
  /\ None \notin Docs \cup Versions
  /\ MaxCalls \in Nat /\ MaxFaults \in Nat /\ MaxStops \in Nat

VARIABLES
  status,      \* documents.status of each source_uri, "none" without a row
  hash,        \* documents.content_hash
  file,        \* chunks/documents/<doc_key>.jsonl, None when there is none
  combined,    \* combined/chunks.jsonl
  milvus,      \* rows of the collection; {} also when it does not exist
  bm25,        \* rows of the BM25 index; {} also when it does not exist
  call,        \* what each caller is doing
  calls, faults, stops,
  result,      \* how the last call to end has ended
  clean        \* history: no call has failed, been cut short, overlapped
               \* with another, met a refused drop or imported a file
               \* since the start or since a rebuild that set things right

tableVars == <<status, hash>>
indexVars == <<milvus, bm25>>
budgets   == <<calls, faults, stops>>
history   == <<result, clean>>
vars == <<tableVars, file, combined, indexVars, call, budgets, history>>

Rows == Docs \X Versions

NoCall ==
  [op |-> "none", pc |-> "idle", doc |-> None, ver |-> None, force |-> FALSE,
   was |-> "none", tree |-> <<>>, sync |-> FALSE, todo |-> {}, purge |-> {},
   rows |-> {}, full |-> FALSE, refused |-> FALSE, unindexed |-> FALSE,
   alone |-> TRUE]

Active(c) == call[c].pc # "idle"

(* list_documents(include_deleted=False): failed documents are listed, too. *)
Listed == {d \in Docs : status[d] \in {"active", "failed"}}

(* iter_jsonl_paths over the listed documents: a failed one has no         *)
(* chunk_path, and a missing file is passed over.                          *)
ChunkRows == {r \in Rows : status[r[1]] = "active" /\ file[r[1]] = r[2]}

------------------------------------------------------------------------------
Init ==
  /\ status = [d \in Docs |-> "none"]
  /\ hash = [d \in Docs |-> None]
  /\ file = [d \in Docs |-> None]
  /\ combined = {} /\ milvus = {} /\ bm25 = {}
  /\ call = [c \in Callers |-> NoCall]
  /\ calls = 0 /\ faults = 0 /\ stops = 0
  /\ result = "none" /\ clean = TRUE

Goto(c, p) == call' = [call EXCEPT ![c].pc = p]

Fault == faults < MaxFaults /\ faults' = faults + 1 /\ UNCHANGED <<calls, stops>>

(* A call begins with the record r; those under way are not alone any more. *)
Begin(c, r) ==
  /\ ~Active(c) /\ calls < MaxCalls
  /\ calls' = calls + 1
  /\ LET others == {x \in Callers \ {c} : Active(x)}
     IN call' = [x \in Callers |->
                   IF x = c THEN [r EXCEPT !.alone = others = {}]
                   ELSE IF x \in others THEN [call[x] EXCEPT !.alone = FALSE]
                   ELSE call[x]]
  /\ UNCHANGED <<faults, stops>>

Succeed(c) ==
  /\ call' = [call EXCEPT ![c] = NoCall]
  /\ result' = "success"
  /\ clean' = /\ call[c].alone /\ ~call[c].refused /\ ~call[c].unindexed
              /\ clean \/ call[c].op = "rebuild"

(* The exception leaves the call; ingest_file has recorded the file as     *)
(* failed, which forgets its chunk_path.                                   *)
Fail(c) ==
  /\ call' = [call EXCEPT ![c] = NoCall]
  /\ result' = "failed" /\ clean' = FALSE
  /\ IF call[c].op = "ingest"
     THEN /\ status' = [status EXCEPT ![call[c].doc] = "failed"]
          /\ hash' = [hash EXCEPT ![call[c].doc] = call[c].ver]
     ELSE UNCHANGED tableVars

(* An incremental step that raises falls back to a full rebuild; a full    *)
(* rebuild that raises fails the call.                                     *)
Raise(c) ==
  IF call[c].full THEN Fail(c)
  ELSE /\ call' = [call EXCEPT ![c].pc = "list", ![c].full = TRUE]
       /\ UNCHANGED <<tableVars, history>>

------------------------------------------------------------------------------
(* The calls.                                                              *)

IngestFile(c, d, v, force) ==
  /\ Begin(c, [NoCall EXCEPT !.op = "ingest", !.pc = "check", !.doc = d,
                             !.ver = v, !.force = force, !.was = status[d]])
  /\ UNCHANGED <<tableVars, file, combined, indexVars, history>>

(* tree gives what each path of the scanned directory holds. *)
IngestPath(c, tree, sync, force) ==
  /\ Begin(c, [NoCall EXCEPT !.op = "import", !.pc = "files", !.tree = tree,
                             !.todo = {d \in Scanned : tree[d] # None},
                             !.sync = sync, !.force = force])
  /\ UNCHANGED <<tableVars, file, combined, indexVars, history>>

DeleteDocument(c, d) ==
  /\ Begin(c, [NoCall EXCEPT !.op = "delete", !.pc = "unlink", !.doc = d,
                             !.was = status[d]])
  /\ UNCHANGED <<tableVars, file, combined, indexVars, history>>

RebuildKB(c) ==
  /\ Begin(c, [NoCall EXCEPT !.op = "rebuild", !.pc = "list", !.full = TRUE])
  /\ UNCHANGED <<tableVars, file, combined, indexVars, history>>

------------------------------------------------------------------------------
(* _upsert_file: an active document of the same content is passed over     *)
(* unless forced; its index is synced all the same.                        *)

AfterUpsert(c) == IF call[c].op = "import" THEN "files" ELSE "sync"

Unchanged(c) ==
  LET d == call[c].doc
  IN status[d] = "active" /\ hash[d] = call[c].ver /\ ~call[c].force

(* A faulty CheckHash: an unchanged document is not synced either. *)
CheckHashAndLeave(c) ==
  /\ call[c].pc = "check"
  /\ IF Unchanged(c) /\ call[c].op = "ingest"
     THEN Succeed(c)
     ELSE /\ Goto(c, IF Unchanged(c) THEN AfterUpsert(c) ELSE "write")
          /\ UNCHANGED history
  /\ UNCHANGED <<tableVars, file, combined, indexVars, budgets>>

CheckHash(c) ==
  /\ call[c].pc = "check"
  /\ Goto(c, IF Unchanged(c) THEN AfterUpsert(c) ELSE "write")
  /\ UNCHANGED <<tableVars, file, combined, indexVars, budgets, history>>

(* The corpus pipeline has run, and the chunk file is written ... *)
WriteChunks(c) ==
  /\ call[c].pc = "write"
  /\ file' = [file EXCEPT ![call[c].doc] = call[c].ver]
  /\ Goto(c, "save")
  /\ UNCHANGED <<tableVars, combined, indexVars, budgets, history>>

(* ... or the pipeline fails. ingest_path records the failed file and goes *)
(* on to the next.                                                         *)
CorpusFails(c) ==
  /\ call[c].pc = "write" /\ Fault
  /\ \/ call[c].op = "ingest" /\ Fail(c)
     \/ /\ call[c].op = "import"
        /\ status' = [status EXCEPT ![call[c].doc] = "failed"]
        /\ hash' = [hash EXCEPT ![call[c].doc] = call[c].ver]
        /\ call' = [call EXCEPT ![c].pc = "files", ![c].unindexed = TRUE]
        /\ UNCHANGED history
  /\ UNCHANGED <<file, combined, indexVars>>

(* The row is saved. ingest_path compares the record _upsert_file returns  *)
(* with "created" and "updated", which it never equals: the file counts as *)
(* skipped, and the index is never told.                                   *)
SaveRow(c) ==
  /\ call[c].pc = "save"
  /\ status' = [status EXCEPT ![call[c].doc] = "active"]
  /\ hash' = [hash EXCEPT ![call[c].doc] = call[c].ver]
  /\ call' = [call EXCEPT ![c].pc = AfterUpsert(c),
                          ![c].unindexed = call[c].op = "import"]
  /\ UNCHANGED <<file, combined, indexVars, budgets, history>>

------------------------------------------------------------------------------
(* ingest_path goes through the files of the directory, then marks the     *)
(* documents deleted whose files are not there, if asked to.               *)

NextFile(c) ==
  /\ call[c].pc = "files"
  /\ IF call[c].todo = {}
     THEN LET found == {d \in Scanned : call[c].tree[d] # None}
          IN call' = [call EXCEPT
               ![c].pc = "gone",
               ![c].todo = IF call[c].sync THEN (Listed \cap Scanned) \ found ELSE {}]
     ELSE \E d \in call[c].todo :
            call' = [call EXCEPT ![c].pc = "check", ![c].doc = d,
                                 ![c].ver = call[c].tree[d],
                                 ![c].todo = @ \ {d}]
  /\ UNCHANGED <<tableVars, file, combined, indexVars, budgets, history>>

NextGone(c) ==
  /\ call[c].pc = "gone" /\ call[c].todo # {}
  /\ \E d \in call[c].todo :
       call' = [call EXCEPT ![c].pc = "unlink", ![c].doc = d, ![c].todo = @ \ {d}]
  /\ UNCHANGED <<tableVars, file, combined, indexVars, budgets, history>>

(* _mark_deleted: without a row to delete there is nothing to do; else the *)
(* files are unlinked, and then the row is marked.                         *)
AlreadyGone(c) == status[call[c].doc] \in {"none", "deleted"}

NothingToDelete(c) ==
  /\ call[c].pc = "unlink" /\ AlreadyGone(c)
  /\ \/ call[c].op = "delete" /\ Succeed(c)
     \/ call[c].op = "import" /\ Goto(c, "gone") /\ UNCHANGED history
  /\ UNCHANGED <<tableVars, file, combined, indexVars, budgets>>

UnlinkFiles(c) ==
  /\ call[c].pc = "unlink" /\ ~AlreadyGone(c)
  /\ file' = IF status[call[c].doc] = "active"
             THEN [file EXCEPT ![call[c].doc] = None] ELSE file
  /\ Goto(c, "mark")
  /\ UNCHANGED <<tableVars, combined, indexVars, budgets, history>>

MarkDeleted(c) ==
  /\ call[c].pc = "mark"
  /\ status' = [status EXCEPT ![call[c].doc] = "deleted"]
  /\ call' = [call EXCEPT ![c].pc = IF call[c].op = "import" THEN "gone" ELSE "sync",
                          ![c].purge = @ \cup {call[c].doc}]
  /\ UNCHANGED <<hash, file, combined, indexVars, budgets, history>>

------------------------------------------------------------------------------
(* The index is brought up to date: the combined file first, then what     *)
(* sync_document_index, sync_deleted_document_index or                     *)
(* sync_documents_index_batch does with it.                                *)

(* ingest_path does nothing to the index unless it deleted something or is *)
(* forced.                                                                 *)
ImportNoop(c) ==
  /\ call[c].pc = "gone" /\ call[c].todo = {}
  /\ call[c].purge = {} /\ ~call[c].force
  /\ Succeed(c)
  /\ UNCHANGED <<tableVars, file, combined, indexVars, budgets>>

SyncDue(c) ==
  \/ call[c].pc = "sync"
  \/ /\ call[c].pc = "gone" /\ call[c].todo = {}
     /\ call[c].purge # {} \/ call[c].force

(* The document is gone from under the call: a full rebuild. *)
MustRebuild(c) ==
  \/ call[c].op = "ingest" /\ status[call[c].doc] # "active"
  \/ call[c].op = "delete" /\ call[c].was = "none"

(* A faulty ToPurge: an updated document is only inserted again. *)
PurgeDeletedOnly(c) == IF call[c].op = "ingest" THEN {} ELSE call[c].purge

(* ingest_file removes the old rows only of a document that was active     *)
(* when the call began.                                                    *)
ToPurge(c) ==
  IF call[c].op = "ingest"
  THEN IF call[c].was = "active" THEN {call[c].doc} ELSE {}
  ELSE call[c].purge

SyncIndex(c) ==
  /\ SyncDue(c)
  /\ combined' = ChunkRows
  /\ \/ /\ Listed = {}
        /\ bm25' = {}
        /\ Goto(c, "drop")
     \/ /\ Listed # {} /\ MustRebuild(c)
        /\ call' = [call EXCEPT ![c].pc = "list", ![c].full = TRUE]
        /\ UNCHANGED bm25
     \/ /\ Listed # {} /\ ~MustRebuild(c)
        /\ call' = [call EXCEPT ![c].pc = "purge", ![c].purge = ToPurge(c)]
        /\ UNCHANGED bm25
  /\ UNCHANGED <<tableVars, file, milvus, budgets, history>>

Without(D) == {r \in milvus : r[1] \notin D}

PurgeDoc(c) ==
  /\ call[c].pc = "purge" /\ call[c].purge # {}
  /\ \E d \in call[c].purge :
       /\ milvus' = Without({d})
       /\ call' = [call EXCEPT ![c].purge = @ \ {d}]
  /\ UNCHANGED <<tableVars, file, combined, bm25, budgets, history>>

(* A faulty PurgeFails: the failure is logged, and the call goes on. *)
PurgeFailsQuietly(c) ==
  /\ call[c].pc = "purge" /\ call[c].purge # {} /\ Fault
  /\ \E d \in call[c].purge : call' = [call EXCEPT ![c].purge = @ \ {d}]
  /\ UNCHANGED <<tableVars, file, combined, indexVars, history>>

PurgeFails(c) ==
  /\ call[c].pc = "purge" /\ call[c].purge # {} /\ Fault
  /\ Raise(c)
  /\ UNCHANGED <<file, combined, indexVars>>

PurgeDone(c) ==
  /\ call[c].pc = "purge" /\ call[c].purge = {}
  /\ Goto(c, IF call[c].op = "ingest" THEN "insert" ELSE "bm25")
  /\ UNCHANGED <<tableVars, file, combined, indexVars, budgets, history>>

(* The rows of the chunk file go into the collection beside what is there. *)
Insert(c) ==
  LET d == call[c].doc
  IN /\ call[c].pc = "insert" /\ file[d] # None
     /\ milvus' = milvus \cup {<<d, file[d]>>}
     /\ Goto(c, "bm25")
     /\ UNCHANGED <<tableVars, file, combined, bm25, budgets, history>>

(* The chunk file is missing, or the pipeline fails, before or after the   *)
(* rows are in.                                                            *)
InsertFails(c) ==
  LET d == call[c].doc
  IN /\ call[c].pc = "insert"
     /\ \/ file[d] = None /\ UNCHANGED <<milvus, budgets>>
        \/ /\ file[d] # None /\ Fault
           /\ milvus' \in {milvus, milvus \cup {<<d, file[d]>>}}
     /\ Raise(c)
     /\ UNCHANGED <<file, combined, bm25>>

BuildBM25(c) ==
  /\ call[c].pc = "bm25"
  /\ bm25' = combined
  /\ Succeed(c)
  /\ UNCHANGED <<tableVars, file, combined, milvus, budgets>>

(* bm25_index removes the old index before it builds the new one; of an    *)
(* empty corpus it may build none.                                         *)
BM25Fails(c) ==
  /\ call[c].pc = "bm25"
  /\ \/ combined = {} /\ UNCHANGED budgets
     \/ combined # {} /\ Fault
  /\ bm25' \in {bm25, {}}
  /\ Raise(c)
  /\ UNCHANGED <<file, combined, milvus>>

------------------------------------------------------------------------------
(* rebuild_kb, and the drop of a collection that has nothing left.         *)

(* A faulty ListAll: the combined file is taken as it stands. *)
ListNothing(c) ==
  /\ call[c].pc = "list"
  /\ IF combined = {} THEN bm25' = {} /\ Goto(c, "drop")
                      ELSE UNCHANGED bm25 /\ Goto(c, "wipe")
  /\ UNCHANGED <<tableVars, file, combined, milvus, budgets, history>>

ListAll(c) ==
  /\ call[c].pc = "list"
  /\ combined' = ChunkRows
  /\ IF ChunkRows = {} THEN bm25' = {} /\ Goto(c, "drop")
                       ELSE UNCHANGED bm25 /\ Goto(c, "wipe")
  /\ UNCHANGED <<tableVars, file, milvus, budgets, history>>

(* The rows to be are read and embedded, and the old collection dropped;   *)
(* an error of the drop is only logged.                                    *)
Wipe(c) ==
  /\ call[c].pc = "wipe" /\ combined # {}
  /\ \/ milvus' = {} /\ UNCHANGED budgets
        /\ call' = [call EXCEPT ![c].pc = "fill", ![c].rows = combined]
     \/ /\ milvus # {} /\ Fault
        /\ UNCHANGED milvus
        /\ call' = [call EXCEPT ![c].pc = "fill", ![c].rows = combined,
                                ![c].refused = TRUE]
  /\ UNCHANGED <<tableVars, file, combined, bm25, history>>

(* Reading or embedding fails, at the latest when there is nothing to read. *)
WipeFails(c) ==
  /\ call[c].pc = "wipe"
  /\ \/ combined = {} /\ UNCHANGED budgets
     \/ combined # {} /\ Fault
  /\ Raise(c)
  /\ UNCHANGED <<file, combined, indexVars>>

Fill(c) ==
  /\ call[c].pc = "fill"
  /\ milvus' = milvus \cup call[c].rows
  /\ call' = [call EXCEPT ![c].pc = "bm25", ![c].rows = {}]
  /\ UNCHANGED <<tableVars, file, combined, bm25, budgets, history>>

FillFails(c) ==
  /\ call[c].pc = "fill" /\ Fault
  /\ \E R \in SUBSET call[c].rows : milvus' = milvus \cup R
  /\ Raise(c)
  /\ UNCHANGED <<file, combined, bm25>>

Drop(c) ==
  /\ call[c].pc = "drop"
  /\ milvus' = {}
  /\ Succeed(c)
  /\ UNCHANGED <<tableVars, file, combined, bm25, budgets>>

(* No handler falls back from a failed drop. *)
DropFails(c) ==
  /\ call[c].pc = "drop" /\ milvus # {} /\ Fault
  /\ Fail(c)
  /\ UNCHANGED <<file, combined, indexVars>>

------------------------------------------------------------------------------
(* A crash of the process or a cancellation ends the call where it stands. *)
Stop(c) ==
  /\ Active(c) /\ stops < MaxStops
  /\ stops' = stops + 1
  /\ call' = [call EXCEPT ![c] = NoCall]
  /\ result' = "stopped" /\ clean' = FALSE
  /\ UNCHANGED <<tableVars, file, combined, indexVars, calls, faults>>

Start(c) ==
  \/ \E d \in Docs, v \in Versions, force \in BOOLEAN : IngestFile(c, d, v, force)
  \/ \E tree \in [Scanned -> Versions \cup {None}], sync, force \in BOOLEAN :
       IngestPath(c, tree, sync, force)
  \/ \E d \in Docs : DeleteDocument(c, d)
  \/ RebuildKB(c)

Step(c) ==
  \/ CheckHash(c) \/ WriteChunks(c) \/ CorpusFails(c) \/ SaveRow(c)
  \/ NextFile(c) \/ NextGone(c)
  \/ NothingToDelete(c) \/ UnlinkFiles(c) \/ MarkDeleted(c)
  \/ ImportNoop(c) \/ SyncIndex(c)
  \/ PurgeDoc(c) \/ PurgeFails(c) \/ PurgeDone(c)
  \/ Insert(c) \/ InsertFails(c) \/ BuildBM25(c) \/ BM25Fails(c)
  \/ ListAll(c) \/ Wipe(c) \/ WipeFails(c) \/ Fill(c) \/ FillFails(c)
  \/ Drop(c) \/ DropFails(c)

Next == \E c \in Callers : Start(c) \/ Step(c) \/ Stop(c)

Spec == Init /\ [][Next]_vars

------------------------------------------------------------------------------
(* Properties.                                                             *)

TypeOK ==
  /\ status \in [Docs -> {"none", "active", "failed", "deleted"}]
  /\ hash \in [Docs -> Versions \cup {None}]
  /\ file \in [Docs -> Versions \cup {None}]
  /\ combined \subseteq Rows /\ milvus \subseteq Rows /\ bm25 \subseteq Rows
  /\ \A c \in Callers : call[c].purge \subseteq Docs /\ call[c].rows \subseteq Rows
  /\ result \in {"none", "success", "failed", "stopped"}
  /\ clean \in BOOLEAN

(* While calls run one after the other and none of them fails, the         *)
(* incremental updates keep both indexes what a rebuild would make them:   *)
(* exactly the chunks of the active documents.                             *)
SerialCallsKeepIndexExact ==
  clean /\ ~(\E c \in Callers : Active(c)) => milvus = ChunkRows /\ bm25 = ChunkRows

(* A call that had the knowledge base to itself reports success. *)
SucceedsAlone(c, op) ==
  /\ Active(c) /\ ~(Active(c))'
  /\ result' = "success"
  /\ call[c].op = op /\ call[c].alone

(* Whatever calls raced, failed or were cut short before, a rebuild that   *)
(* runs alone and succeeds leaves both indexes right; a collection that    *)
(* could not be dropped may keep old rows.                                 *)
RebuildRepairs ==
  [][\A c \in Callers : SucceedsAlone(c, "rebuild") =>
       /\ ChunkRows' \subseteq milvus' /\ bm25' = ChunkRows'
       /\ call[c].refused \/ milvus' = ChunkRows']_vars

(* An ingest_file that runs alone and succeeds makes the document's chunk  *)
(* file searchable in both indexes, and replaces what an active document   *)
(* had there.                                                              *)
IngestedIsSearchable ==
  [][\A c \in Callers : SucceedsAlone(c, "ingest") =>
       LET d == call[c].doc IN
       /\ status'[d] = "active" /\ bm25' = ChunkRows'
       /\ file'[d] # None => <<d, file'[d]>> \in milvus'
       /\ call[c].was = "active" /\ ~call[c].refused =>
            \A v \in Versions : <<d, v>> \in milvus' => v = file'[d]]_vars

(* A delete_document that runs alone, finds the document and succeeds      *)
(* leaves none of its rows, of whatever version, in either index.          *)
DeletedIsGone ==
  [][\A c \in Callers :
       SucceedsAlone(c, "delete") /\ call[c].pc # "unlink" /\ ~call[c].refused =>
         \A v \in Versions : <<call[c].doc, v>> \notin milvus' \cup bm25']_vars

(* A delete_document that runs alone and succeeds, the retry of one that   *)
(* has failed too, leaves none of the document's rows in Milvus.           *)
RetriedDeleteIsGone ==
  [][\A c \in Callers : SucceedsAlone(c, "delete") /\ ~call[c].refused =>
       \A v \in Versions : <<call[c].doc, v>> \notin milvus']_vars
=============================================================================
