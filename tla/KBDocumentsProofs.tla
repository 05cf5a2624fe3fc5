-------------------------- MODULE KBDocumentsProofs --------------------------
(***************************************************************************)
(* What holds of the documents and indexes of a knowledge base for every   *)
(* set of documents, contents and callers, and any number of calls,        *)
(* failures and calls cut short.                                           *)
(*                                                                         *)
(* A call can be reasoned about from its own steps only while it is alone, *)
(* so the invariant says for each place of a lone call what the combined   *)
(* file, the collection and the table then have to do with each other.     *)
(***************************************************************************)
EXTENDS KBDocuments, TLAPS

Ops == {"none", "ingest", "import", "delete", "rebuild"}

Reading  == {"files", "check", "write", "gone", "unlink"}
Indexing == {"purge", "insert", "bm25", "drop", "wipe", "fill"}
Places   == {"idle", "save", "mark", "sync", "list"} \cup Reading \cup Indexing

Statuses == {"none", "active", "failed", "deleted"}

CallRecord ==
  [op : Ops, pc : Places, doc : Docs \cup {None}, ver : Versions \cup {None},
   force : BOOLEAN, was : Statuses, tree : [Scanned -> Versions \cup {None}] \cup {<<>>},
   sync : BOOLEAN, todo : SUBSET Docs, purge : SUBSET Docs, rows : SUBSET Rows,
   full : BOOLEAN, refused : BOOLEAN, unindexed : BOOLEAN, alone : BOOLEAN]

TableType ==
  /\ status \in [Docs -> Statuses]
  /\ hash \in [Docs -> Versions \cup {None}]
  /\ file \in [Docs -> Versions \cup {None}]

IndexType == combined \subseteq Rows /\ milvus \subseteq Rows /\ bm25 \subseteq Rows

HistoryType ==
  result \in {"none", "success", "failed", "stopped"} /\ clean \in BOOLEAN

Typed ==
  TableType /\ IndexType /\ HistoryType /\ call \in [Callers -> CallRecord]

(* Which calls come to which places, and what they bring with them. *)
PlaceOf(r) ==
  /\ r.pc # "idle" => r.op # "none"
  /\ r.pc \in {"files", "gone"} => r.op = "import"
  /\ r.pc \in {"check", "write", "save"} => r.op \in {"ingest", "import"} /\ r.ver \in Versions
  /\ r.pc \in {"unlink", "mark"} => r.op \in {"delete", "import"}
  /\ r.pc = "sync" => r.op \in {"ingest", "delete"}
  /\ r.pc = "insert" => r.op = "ingest" /\ r.purge = {}
  /\ r.pc \in {"list", "wipe", "fill"} => r.full
  /\ r.pc \in Reading \cup {"save", "mark", "sync", "purge", "insert"} =>
       ~ r.full /\ r.op # "rebuild"
  /\ r.op = "rebuild" => r.full
  /\ r.op \in {"ingest", "delete"} \/ r.pc \in {"check", "write", "save", "unlink", "mark"} =>
       r.doc \in Docs
  /\ r.op = "ingest" => r.ver \in Versions
  /\ r.op = "import" => r.tree \in [Scanned -> Versions \cup {None}]
  /\ r.op = "import" /\ r.pc \in {"files", "check", "write", "save"} =>
       r.todo \subseteq {d \in Scanned : r.tree[d] # None}
  /\ r.unindexed => r.op = "import"
  /\ r.pc \in {"files", "check", "write", "save"} => r.purge = {}
  /\ r.op = "delete" /\ r.pc \in {"unlink", "mark"} => r.purge = {}
  /\ r.op = "ingest" /\ r.pc = "purge" => r.purge \subseteq {r.doc}
  /\ r.pc = "bm25" /\ ~ r.full => r.purge = {}

Lone(c) == Active(c) /\ call[c].alone

LoneIsAlone == \A c, x \in Callers : Lone(c) /\ Active(x) => x = c

NoRowOf(d) == \A v \in Versions : <<d, v>> \notin milvus

Agree(r) == r \in milvus <=> r \in ChunkRows

Exact == milvus = ChunkRows /\ bm25 = ChunkRows

(* The row of the document a lone call works on. *)
TableInv(c) ==
  LET r == call[c] IN
  /\ r.op = "delete" /\ r.pc \notin {"unlink", "mark"} => status[r.doc] = "deleted"
  /\ r.op = "ingest" /\ r.pc \in Indexing \cup {"sync", "list"} => status[r.doc] = "active"
  /\ r.op = "ingest" /\ r.pc \in {"check", "write"} => r.was = status[r.doc]
  /\ r.op \in {"delete", "import"} => \A d \in r.purge : status[d] = "deleted"

(* A lone call that has written the combined file finds in it what it      *)
(* wrote; a full rebuild has the collection as it should be at the end.    *)
RebuildInv(c) ==
  LET r == call[c] IN
  /\ r.pc \in Indexing => combined = ChunkRows
  /\ r.pc = "drop" => ChunkRows = {} /\ bm25 = {}
  /\ r.pc = "fill" => r.rows = combined /\ (r.refused \/ milvus = {})
  /\ r.pc = "bm25" /\ r.full =>
       ChunkRows \subseteq milvus /\ (r.refused \/ milvus = ChunkRows)

(* What an incremental update has done to the rows of its document.        *)
PurgeInv(c) ==
  LET r == call[c] IN
  /\ r.op = "delete" /\ r.pc = "sync" => r.doc \in r.purge
  /\ r.op = "delete" /\ (r.pc = "purge" \/ (r.pc = "bm25" /\ ~ r.full)) =>
       r.doc \in r.purge \/ NoRowOf(r.doc)
  /\ r.op = "ingest" /\ r.was = "active" /\ r.pc \in {"purge", "insert"} =>
       r.doc \in r.purge \/ NoRowOf(r.doc)
  /\ r.op = "ingest" /\ r.pc = "bm25" /\ ~ r.full =>
       /\ file[r.doc] # None /\ <<r.doc, file[r.doc]>> \in milvus
       /\ r.was = "active" => \A v \in Versions : <<r.doc, v>> \in milvus => v = file[r.doc]

(* If both indexes were right when it began: where they differ by now.     *)
CleanInv(c) ==
  LET r == call[c] IN
  /\ r.pc \in Reading /\ ~ r.unindexed /\ r.purge = {} => Exact
  /\ r.op \in {"delete", "import"} /\ r.pc \in Reading \cup {"sync", "purge"} /\ ~ r.unindexed =>
       \A x \in Rows : x[1] \notin r.purge => Agree(x)
  /\ r.pc = "mark" /\ ~ r.unindexed =>
       \A x \in Rows : x[1] \notin r.purge \cup {r.doc} => Agree(x)
  /\ r.op = "ingest" /\ r.pc \in {"save", "sync", "purge", "insert"} =>
       /\ \A x \in Rows : x[1] # r.doc => Agree(x)
       /\ r.was # "active" => NoRowOf(r.doc)
  /\ r.pc = "bm25" /\ ~ r.full /\ ~ r.unindexed => milvus = ChunkRows

CallInv(c) ==
  /\ TableInv(c) /\ RebuildInv(c) /\ PurgeInv(c)
  /\ clean => CleanInv(c)

IInv ==
  /\ Typed
  /\ \A c \in Callers : PlaceOf(call[c])
  /\ LoneIsAlone
  /\ \A c \in Callers : Lone(c) => CallInv(c)
  /\ SerialCallsKeepIndexExact

-----------------------------------------------------------------------------
(* Steps of one call.                                                      *)

LEMMA ChunkRowsAre ==
  ASSUME NEW d, NEW v
  PROVE  <<d, v>> \in ChunkRows <=>
           d \in Docs /\ v \in Versions /\ status[d] = "active" /\ file[d] = v
BY DEF ChunkRows, Rows

LEMMA RowParts ==
  ASSUME NEW x \in Rows
  PROVE  x[1] \in Docs /\ x[2] \in Versions /\ x = <<x[1], x[2]>>
BY DEF Rows

LEMMA NoneListed ==
  ASSUME Listed = {}
  PROVE  ChunkRows = {}
BY DEF Listed, ChunkRows, Rows

(* A step of a call that is under way leaves the other calls as they are,  *)
(* and none of them is alone.                                              *)
LEMMA OwnStep ==
  ASSUME IInv, NEW c \in Callers, Active(c),
         NEW r \in CallRecord, call' = [call EXCEPT ![c] = r], PlaceOf(r),
         TableType', IndexType', HistoryType',
         r.pc # "idle" => r.alone = call[c].alone /\ clean' = clean,
         r.pc # "idle" /\ Lone(c) => CallInv(c)',
         r.pc = "idle" /\ clean' => Lone(c) /\ Exact'
  PROVE  IInv'
<1>1. /\ Typed /\ LoneIsAlone /\ \A x \in Callers : PlaceOf(call[x])
      /\ call \in [Callers -> CallRecord]
  BY DEF IInv, Typed
<1>2. call'[c] = r /\ \A x \in Callers \ {c} : call'[x] = call[x]
  BY <1>1
<1>3. Typed'
  BY <1>1 DEF Typed
<1>4. \A x \in Callers : PlaceOf(call'[x])
  BY <1>1, <1>2
<1>5. \A x \in Callers \ {c} : ~ Lone(x) /\ ~ Lone(x)'
  <2>1. \A x \in Callers \ {c} : ~ Lone(x)
    BY <1>1 DEF LoneIsAlone
  <2>. QED
    BY <1>2, <2>1 DEF Lone, Active
<1>6. LoneIsAlone'
  <2>. SUFFICES ASSUME NEW x \in Callers, Lone(c)', Active(x)'
                PROVE  x = c
    BY <1>5 DEF LoneIsAlone
  <2>1. Lone(c)
    BY <1>2 DEF Lone, Active
  <2>. QED
    BY <1>1, <1>2, <2>1 DEF LoneIsAlone, Active
<1>7. \A x \in Callers : Lone(x)' => CallInv(x)'
  <2>1. Lone(c)' => r.pc # "idle" /\ Lone(c)
    BY <1>2 DEF Lone, Active
  <2>. QED
    BY <1>5, <2>1
<1>8. SerialCallsKeepIndexExact'
  BY <1>2 DEF SerialCallsKeepIndexExact, Active, Exact
<1>. QED
  BY <1>3, <1>4, <1>6, <1>7, <1>8 DEF IInv

LEMMA NoCallType == NoCall \in CallRecord /\ PlaceOf(NoCall) /\ NoCall.pc = "idle"
BY DEF NoCall, CallRecord, PlaceOf, Ops, Places, Reading, Indexing, Statuses

(* A call that ends without success leaves the history unclean.            *)
LEMMA BadEnd ==
  ASSUME IInv, NEW c \in Callers, Active(c), call' = [call EXCEPT ![c] = NoCall],
         TableType', IndexType', result' \in {"failed", "stopped"}, clean' = FALSE
  PROVE  IInv'
<1>1. HistoryType'
  BY DEF HistoryType
<1>. QED
  BY <1>1, NoCallType, OwnStep

(* One that succeeds leaves it clean only if it leaves both indexes right. *)
LEMMA GoodEnd ==
  ASSUME IInv, NEW c \in Callers, Active(c), Succeed(c), TableType', IndexType',
         Lone(c) /\ ~ call[c].refused /\ ~ call[c].unindexed /\ (clean \/ call[c].op = "rebuild")
           => Exact'
  PROVE  IInv'
<1>1. /\ call' = [call EXCEPT ![c] = NoCall] /\ result' = "success"
      /\ clean' = /\ call[c].alone /\ ~call[c].refused /\ ~call[c].unindexed
                  /\ clean \/ call[c].op = "rebuild"
  BY DEF Succeed
<1>2. call[c] \in CallRecord /\ clean \in BOOLEAN
  BY DEF IInv, Typed, HistoryType
<1>3. HistoryType'
  BY <1>1, <1>2 DEF HistoryType, CallRecord
<1>4. clean' => Lone(c) /\ Exact'
  BY <1>1, <1>2 DEF Lone
<1>. QED
  BY <1>1, <1>3, <1>4, NoCallType, OwnStep

LEMMA FailEnd ==
  ASSUME IInv, NEW c \in Callers, Active(c), Fail(c), IndexType', UNCHANGED file
  PROVE  IInv'
<1>1. call[c] \in CallRecord /\ PlaceOf(call[c]) /\ TableType
  BY DEF IInv, Typed
<1>2. call[c].op = "ingest" => call[c].doc \in Docs /\ call[c].ver \in Versions
  BY <1>1 DEF PlaceOf
<1>3. TableType'
  BY <1>1, <1>2 DEF Fail, TableType, Statuses, tableVars
<1>. QED
  BY <1>3, BadEnd DEF Fail

(* The step to a full rebuild forgets what the incremental one had done.   *)
LEMMA ToRebuild ==
  ASSUME IInv, NEW c \in Callers, call[c].pc \in Indexing \cup {"sync"},
         call' = [call EXCEPT ![c].pc = "list", ![c].full = TRUE],
         UNCHANGED <<tableVars, file, history>>, IndexType',
         Lone(c) => call[c].op # "ingest" \/ status[call[c].doc] = "active"
  PROVE  IInv'
<1>. DEFINE r == [call[c] EXCEPT !.pc = "list", !.full = TRUE]
<1>1. /\ call[c] \in CallRecord /\ PlaceOf(call[c]) /\ TableType /\ HistoryType
      /\ call \in [Callers -> CallRecord]
      /\ Lone(c) => TableInv(c)
  BY DEF IInv, Typed, CallInv
<1>2. r \in CallRecord /\ call' = [call EXCEPT ![c] = r]
  BY <1>1 DEF CallRecord, Places
<1>3. PlaceOf(r)
  BY <1>1 DEF PlaceOf, CallRecord, Reading, Indexing
<1>4. TableType' /\ HistoryType'
  BY <1>1 DEF TableType, HistoryType, tableVars, history
<1>5. call'[c] = r /\ r.pc = "list" /\ r.alone = call[c].alone /\ clean' = clean
  BY <1>1, <1>2 DEF CallRecord, history
<1>6. ASSUME Lone(c)
      PROVE  CallInv(c)'
  <2>1. /\ r.op = call[c].op /\ r.doc = call[c].doc /\ r.purge = call[c].purge
        /\ status' = status
    BY <1>1 DEF CallRecord, tableVars
  <2>2. TableInv(c)'
    BY <1>1, <1>5, <1>6, <2>1 DEF TableInv, Indexing
  <2>3. RebuildInv(c)' /\ PurgeInv(c)' /\ CleanInv(c)'
    BY <1>5 DEF RebuildInv, PurgeInv, CleanInv, Indexing, Reading
  <2>. QED
    BY <2>2, <2>3 DEF CallInv
<1>7. Active(c)
  BY DEF Active, Indexing
<1>. HIDE DEF r
<1>. QED
  BY <1>2, <1>3, <1>4, <1>5, <1>6, <1>7, OwnStep

LEMMA RaiseStep ==
  ASSUME IInv, NEW c \in Callers, call[c].pc \in Indexing, Raise(c), UNCHANGED file, IndexType'
  PROVE  IInv'
<1>1. CASE call[c].full
  <2>1. Active(c)
    BY DEF Active, Indexing
  <2>. QED
    BY <1>1, <2>1, FailEnd DEF Raise
<1>2. CASE ~ call[c].full
  <2>1. Lone(c) => call[c].op # "ingest" \/ status[call[c].doc] = "active"
    BY DEF IInv, CallInv, TableInv
  <2>. QED
    BY <1>2, <2>1, ToRebuild DEF Raise
<1>. QED
  BY <1>1, <1>2

-----------------------------------------------------------------------------
(* The files of a call.                                                    *)

LEMMA CallFacts ==
  ASSUME IInv, NEW c \in Callers
  PROVE  /\ call \in [Callers -> CallRecord] /\ call[c] \in CallRecord /\ PlaceOf(call[c])
         /\ TableType /\ IndexType /\ HistoryType
         /\ Lone(c) => TableInv(c) /\ RebuildInv(c) /\ PurgeInv(c) /\ (clean => CleanInv(c))
BY DEF IInv, Typed, CallInv

(* OwnStep for a step after which the call is still under way.             *)
LEMMA OnStep ==
  ASSUME IInv, NEW c \in Callers, Active(c),
         NEW r \in CallRecord, call' = [call EXCEPT ![c] = r], PlaceOf(r),
         TableType', IndexType', UNCHANGED history,
         r.pc # "idle", r.alone = call[c].alone,
         Lone(c) => TableInv(c)' /\ RebuildInv(c)' /\ PurgeInv(c)',
         Lone(c) /\ clean => CleanInv(c)'
  PROVE  IInv'
<1>1. HistoryType' /\ clean' = clean
  BY CallFacts DEF HistoryType, history
<1>2. Lone(c) => CallInv(c)'
  BY <1>1 DEF CallInv
<1>. QED
  BY <1>1, <1>2, OwnStep

LEMMA CheckHashKeeps ==
  ASSUME IInv, NEW c \in Callers, CheckHash(c)
  PROVE  IInv'
<1>. DEFINE p == IF Unchanged(c) THEN AfterUpsert(c) ELSE "write"
            r == [call[c] EXCEPT !.pc = p]
<1>1. /\ call[c].pc = "check" /\ call' = [call EXCEPT ![c].pc = p]
      /\ UNCHANGED <<tableVars, file, combined, indexVars, history>>
  BY DEF CheckHash, Goto
<1>2. /\ call \in [Callers -> CallRecord] /\ call[c] \in CallRecord /\ PlaceOf(call[c])
      /\ TableType /\ IndexType
      /\ Lone(c) => TableInv(c) /\ (clean => CleanInv(c))
  BY CallFacts
<1>3. /\ call[c].op \in {"ingest", "import"} /\ call[c].purge = {} /\ ~ call[c].full
      /\ call[c].op = "ingest" => ~ call[c].unindexed
  BY <1>1, <1>2 DEF PlaceOf, Reading
<1>4. p \in {"files", "sync", "write"} /\ (p = "files" => call[c].op = "import")
      /\ (p = "sync" => call[c].op = "ingest" /\ status[call[c].doc] = "active")
  BY <1>3 DEF AfterUpsert, Unchanged
<1>. HIDE DEF p
<1>5. r \in CallRecord /\ call' = [call EXCEPT ![c] = r] /\ call'[c] = r
  BY <1>1, <1>2, <1>4 DEF CallRecord, Places, Reading
<1>6. PlaceOf(r)
  BY <1>1, <1>2, <1>3, <1>4 DEF PlaceOf, CallRecord, Reading, Indexing
<1>7. TableType' /\ IndexType'
  BY <1>1, <1>2 DEF TableType, IndexType, tableVars, indexVars
<1>8. /\ r.op = call[c].op /\ r.doc = call[c].doc /\ r.was = call[c].was /\ r.alone = call[c].alone
      /\ r.purge = call[c].purge /\ r.unindexed = call[c].unindexed /\ r.pc = p
  BY <1>2 DEF CallRecord
<1>. HIDE DEF r
<1>9. ASSUME Lone(c)
      PROVE  TableInv(c)' /\ RebuildInv(c)' /\ PurgeInv(c)'
  <2>1. TableInv(c)'
    BY <1>1, <1>2, <1>3, <1>4, <1>5, <1>8, <1>9 DEF TableInv, Indexing, tableVars
  <2>2. RebuildInv(c)' /\ PurgeInv(c)'
    BY <1>4, <1>3, <1>5, <1>8 DEF RebuildInv, PurgeInv, Indexing
  <2>. QED
    BY <2>1, <2>2
<1>10. ASSUME Lone(c), clean
       PROVE  CleanInv(c)'
  <2>1. milvus' = milvus /\ bm25' = bm25 /\ ChunkRows' = ChunkRows
    BY <1>1 DEF indexVars, tableVars, ChunkRows
  <2>2. ~ call[c].unindexed => Exact
    BY <1>1, <1>2, <1>3, <1>10 DEF CleanInv, Reading
  <2>3. p = "sync" => call[c].was = "active"
    BY <1>1, <1>2, <1>4, <1>10 DEF TableInv
  <2>. QED
    BY <1>3, <1>4, <1>5, <1>8, <2>1, <2>2, <2>3 DEF CleanInv, Exact, Agree, Reading
<1>. QED
  BY <1>1, <1>4, <1>5, <1>6, <1>7, <1>8, <1>9, <1>10, OnStep DEF Active

LEMMA WriteChunksKeeps ==
  ASSUME IInv, NEW c \in Callers, WriteChunks(c)
  PROVE  IInv'
<1>. DEFINE r == [call[c] EXCEPT !.pc = "save"]
<1>1. /\ call[c].pc = "write" /\ call' = [call EXCEPT ![c].pc = "save"]
      /\ file' = [file EXCEPT ![call[c].doc] = call[c].ver]
      /\ UNCHANGED <<tableVars, combined, indexVars, history>>
  BY DEF WriteChunks, Goto
<1>2. /\ call \in [Callers -> CallRecord] /\ call[c] \in CallRecord /\ PlaceOf(call[c])
      /\ TableType /\ IndexType
      /\ Lone(c) => TableInv(c) /\ (clean => CleanInv(c))
  BY CallFacts
<1>3. /\ call[c].op \in {"ingest", "import"} /\ call[c].purge = {} /\ ~ call[c].full
      /\ call[c].op = "ingest" => ~ call[c].unindexed
      /\ call[c].doc \in Docs /\ call[c].ver \in Versions
  BY <1>1, <1>2 DEF PlaceOf, Reading
<1>5. r \in CallRecord /\ call' = [call EXCEPT ![c] = r] /\ call'[c] = r
  BY <1>1, <1>2 DEF CallRecord, Places
<1>6. PlaceOf(r)
  BY <1>1, <1>2, <1>3 DEF PlaceOf, CallRecord, Reading, Indexing
<1>7. TableType' /\ IndexType'
  BY <1>1, <1>2, <1>3 DEF TableType, IndexType, tableVars, indexVars
<1>8. /\ r.op = call[c].op /\ r.doc = call[c].doc /\ r.was = call[c].was /\ r.alone = call[c].alone
      /\ r.purge = {} /\ r.unindexed = call[c].unindexed /\ r.pc = "save"
  BY <1>2, <1>3 DEF CallRecord
<1>. HIDE DEF r
<1>9. TableInv(c)' /\ RebuildInv(c)' /\ PurgeInv(c)'
  BY <1>3, <1>5, <1>8 DEF TableInv, RebuildInv, PurgeInv, Indexing, Reading
<1>10. ASSUME Lone(c), clean
       PROVE  CleanInv(c)'
  <2>1. ASSUME call[c].op = "ingest"
        PROVE  /\ \A x \in Rows : x[1] # call[c].doc => Agree(x)'
               /\ call[c].was # "active" => NoRowOf(call[c].doc)'
    <3>1. Exact /\ call[c].was = status[call[c].doc]
      BY <1>1, <1>2, <1>3, <1>10, <2>1 DEF CleanInv, TableInv, Reading
    <3>2. \A x \in Rows : x[1] # call[c].doc => (x \in ChunkRows' <=> x \in ChunkRows)
      BY <1>1, <1>2, <1>3 DEF ChunkRows, Rows, TableType, tableVars
    <3>3. milvus' = milvus
      BY <1>1 DEF indexVars
    <3>. QED
      BY <1>5, <1>8, <3>1, <3>2, <3>3, ChunkRowsAre DEF Agree, Exact, NoRowOf
  <2>. QED
    BY <1>3, <1>5, <1>8, <2>1 DEF CleanInv, Reading, NoRowOf
<1>. QED
  BY <1>1, <1>5, <1>6, <1>7, <1>8, <1>9, <1>10, OnStep DEF Active

LEMMA CorpusFailsKeeps ==
  ASSUME IInv, NEW c \in Callers, CorpusFails(c)
  PROVE  IInv'
<1>. DEFINE r == [call[c] EXCEPT !.pc = "files", !.unindexed = TRUE]
<1>1. /\ call \in [Callers -> CallRecord] /\ call[c] \in CallRecord /\ PlaceOf(call[c])
      /\ TableType /\ IndexType
  BY CallFacts
<1>2. call[c].pc = "write" /\ IndexType' /\ UNCHANGED <<file, combined, indexVars>>
  BY <1>1 DEF CorpusFails, IndexType, indexVars
<1>3. /\ call[c].purge = {} /\ ~ call[c].full /\ call[c].doc \in Docs /\ call[c].ver \in Versions
  BY <1>1, <1>2 DEF PlaceOf, Reading
<1>4. CASE call[c].op = "ingest"
  BY <1>2, <1>4, FailEnd DEF CorpusFails, Active
<1>5. CASE call[c].op = "import"
  <2>1. /\ status' = [status EXCEPT ![call[c].doc] = "failed"]
        /\ hash' = [hash EXCEPT ![call[c].doc] = call[c].ver]
        /\ call' = [call EXCEPT ![c].pc = "files", ![c].unindexed = TRUE]
        /\ UNCHANGED history
    BY <1>5 DEF CorpusFails
  <2>2. r \in CallRecord /\ call' = [call EXCEPT ![c] = r] /\ call'[c] = r
    BY <1>1, <2>1 DEF CallRecord, Places, Reading
  <2>3. PlaceOf(r)
    BY <1>1, <1>2, <1>3, <1>5 DEF PlaceOf, CallRecord, Reading, Indexing
  <2>4. TableType'
    BY <1>1, <1>2, <1>3, <2>1 DEF TableType, Statuses
  <2>5. /\ r.op = "import" /\ r.alone = call[c].alone
        /\ r.purge = {} /\ r.unindexed /\ r.pc = "files"
    BY <1>1, <1>3, <1>5 DEF CallRecord
  <2>. HIDE DEF r
  <2>6. TableInv(c)' /\ RebuildInv(c)' /\ PurgeInv(c)' /\ CleanInv(c)'
    BY <2>2, <2>5 DEF TableInv, RebuildInv, PurgeInv, CleanInv, Indexing, Reading
  <2>. QED
    BY <1>2, <2>1, <2>2, <2>3, <2>4, <2>5, <2>6, OnStep DEF Active
<1>. QED
  BY <1>4, <1>5 DEF CorpusFails

LEMMA SaveRowKeeps ==
  ASSUME IInv, NEW c \in Callers, SaveRow(c)
  PROVE  IInv'
<1>. DEFINE p == AfterUpsert(c)
            r == [call[c] EXCEPT !.pc = p, !.unindexed = call[c].op = "import"]
<1>1. /\ call[c].pc = "save"
      /\ call' = [call EXCEPT ![c].pc = p, ![c].unindexed = call[c].op = "import"]
      /\ status' = [status EXCEPT ![call[c].doc] = "active"]
      /\ hash' = [hash EXCEPT ![call[c].doc] = call[c].ver]
      /\ UNCHANGED <<file, combined, indexVars, history>>
  BY DEF SaveRow
<1>2. /\ call \in [Callers -> CallRecord] /\ call[c] \in CallRecord /\ PlaceOf(call[c])
      /\ TableType /\ IndexType
      /\ Lone(c) => TableInv(c) /\ (clean => CleanInv(c))
  BY CallFacts
<1>3. /\ call[c].op \in {"ingest", "import"} /\ call[c].purge = {} /\ ~ call[c].full
      /\ call[c].doc \in Docs /\ call[c].ver \in Versions
  BY <1>1, <1>2 DEF PlaceOf, Reading
<1>4. p = IF call[c].op = "import" THEN "files" ELSE "sync"
  BY DEF AfterUpsert
<1>. HIDE DEF p
<1>5. r \in CallRecord /\ call' = [call EXCEPT ![c] = r] /\ call'[c] = r
  BY <1>1, <1>2, <1>4 DEF CallRecord, Places, Reading
<1>6. PlaceOf(r)
  BY <1>1, <1>2, <1>3, <1>4 DEF PlaceOf, CallRecord, Reading, Indexing
<1>7. TableType' /\ IndexType'
  BY <1>1, <1>2, <1>3 DEF TableType, IndexType, Statuses, indexVars
<1>8. /\ r.op = call[c].op /\ r.doc = call[c].doc /\ r.was = call[c].was /\ r.alone = call[c].alone
      /\ r.purge = {} /\ (r.unindexed <=> call[c].op = "import") /\ r.pc = p
  BY <1>2, <1>3 DEF CallRecord
<1>. HIDE DEF r
<1>9. TableInv(c)' /\ RebuildInv(c)' /\ PurgeInv(c)'
  BY <1>1, <1>2, <1>3, <1>4, <1>5, <1>8
     DEF TableInv, RebuildInv, PurgeInv, Indexing, Reading, TableType
<1>10. ASSUME Lone(c), clean
       PROVE  CleanInv(c)'
  <2>1. ASSUME call[c].op = "ingest"
        PROVE  /\ \A x \in Rows : x[1] # call[c].doc => Agree(x)'
               /\ call[c].was # "active" => NoRowOf(call[c].doc)'
    <3>1. /\ \A x \in Rows : x[1] # call[c].doc => Agree(x)
          /\ call[c].was # "active" => NoRowOf(call[c].doc)
      BY <1>1, <1>2, <1>10, <2>1 DEF CleanInv
    <3>2. \A x \in Rows : x[1] # call[c].doc => (x \in ChunkRows' <=> x \in ChunkRows)
      BY <1>1, <1>2, <1>3 DEF ChunkRows, Rows, TableType
    <3>3. milvus' = milvus
      BY <1>1 DEF indexVars
    <3>. QED
      BY <1>5, <1>8, <3>1, <3>2, <3>3 DEF Agree, NoRowOf
  <2>. QED
    BY <1>3, <1>4, <1>5, <1>8, <2>1 DEF CleanInv, Reading, NoRowOf
<1>11. p # "idle"
  BY <1>4
<1>. QED
  BY <1>1, <1>5, <1>6, <1>7, <1>8, <1>9, <1>10, <1>11, OnStep DEF Active

(* ingest_path goes on to its next file or document.                       *)
LEMMA ReadingStep ==
  ASSUME IInv, NEW c \in Callers, call[c].pc \in Reading, call[c].op = "import",
         NEW r \in CallRecord, call' = [call EXCEPT ![c] = r], PlaceOf(r),
         r.pc \in Reading, r.op = call[c].op, r.purge = call[c].purge,
         r.unindexed = call[c].unindexed, r.alone = call[c].alone,
         UNCHANGED <<tableVars, file, combined, indexVars, history>>
  PROVE  IInv'
<1>1. /\ call \in [Callers -> CallRecord] /\ TableType /\ IndexType
      /\ Lone(c) => TableInv(c) /\ (clean => CleanInv(c))
  BY CallFacts
<1>2. call'[c] = r
  BY <1>1
<1>3. TableType' /\ IndexType'
  BY <1>1 DEF TableType, IndexType, tableVars, indexVars
<1>4. Lone(c) => TableInv(c)' /\ RebuildInv(c)' /\ PurgeInv(c)'
  BY <1>1, <1>2 DEF TableInv, RebuildInv, PurgeInv, Indexing, Reading, tableVars
<1>5. ASSUME Lone(c), clean
      PROVE  CleanInv(c)'
  <2>1. milvus' = milvus /\ bm25' = bm25 /\ ChunkRows' = ChunkRows
    BY DEF indexVars, tableVars, ChunkRows
  <2>2. /\ ~ r.unindexed /\ r.purge = {} => Exact
        /\ ~ r.unindexed => \A x \in Rows : x[1] \notin r.purge => Agree(x)
    BY <1>1, <1>5 DEF CleanInv
  <2>3. /\ ~ r.unindexed /\ r.purge = {} => Exact'
        /\ ~ r.unindexed => \A x \in Rows : x[1] \notin r.purge => Agree(x)'
    BY <2>1, <2>2 DEF Exact, Agree
  <2>. QED
    BY <1>2, <2>3 DEF CleanInv, Reading
<1>6. r.pc # "idle" /\ Active(c)
  BY DEF Reading, Active
<1>. QED
  BY <1>3, <1>4, <1>5, <1>6, OnStep

LEMMA NextFileKeeps ==
  ASSUME IInv, NEW c \in Callers, NextFile(c)
  PROVE  IInv'
<1>1. /\ call[c].pc = "files" /\ UNCHANGED <<tableVars, file, combined, indexVars, history>>
  BY DEF NextFile
<1>2. /\ call \in [Callers -> CallRecord] /\ call[c] \in CallRecord /\ PlaceOf(call[c])
  BY CallFacts
<1>3. /\ call[c].op = "import" /\ ~ call[c].full /\ call[c].purge = {}
      /\ call[c].tree \in [Scanned -> Versions \cup {None}]
      /\ call[c].todo \subseteq {d \in Scanned : call[c].tree[d] # None}
  BY <1>1, <1>2 DEF PlaceOf, Reading
<1>4. CASE call[c].todo = {}
  <2>. DEFINE found == {d \in Scanned : call[c].tree[d] # None}
              T == IF call[c].sync THEN (Listed \cap Scanned) \ found ELSE {}
              r == [call[c] EXCEPT !.pc = "gone", !.todo = T]
  <2>1. call' = [call EXCEPT ![c].pc = "gone", ![c].todo = T]
    BY <1>4 DEF NextFile
  <2>2. T \in SUBSET Docs
    BY DEF Listed
  <2>. HIDE DEF T
  <2>3. r \in CallRecord /\ call' = [call EXCEPT ![c] = r]
    BY <1>2, <2>1, <2>2 DEF CallRecord, Places, Reading
  <2>4. PlaceOf(r)
    BY <1>1, <1>2, <1>3 DEF PlaceOf, CallRecord, Reading, Indexing
  <2>5. /\ r.op = call[c].op /\ r.purge = call[c].purge /\ r.unindexed = call[c].unindexed
        /\ r.alone = call[c].alone /\ r.pc \in Reading
    BY <1>2 DEF CallRecord, Reading
  <2>. HIDE DEF r
  <2>. QED
    BY <1>1, <1>3, <2>3, <2>4, <2>5, ReadingStep DEF Reading
<1>5. CASE call[c].todo # {}
  <2>1. PICK d \in call[c].todo :
          call' = [call EXCEPT ![c].pc = "check", ![c].doc = d,
                               ![c].ver = call[c].tree[d], ![c].todo = @ \ {d}]
    BY <1>5 DEF NextFile
  <2>. DEFINE r == [call[c] EXCEPT !.pc = "check", !.doc = d,
                                   !.ver = call[c].tree[d], !.todo = @ \ {d}]
  <2>2. d \in Docs /\ call[c].tree[d] \in Versions
    BY <1>3, <2>1, KBAssumption
  <2>3. r \in CallRecord /\ call' = [call EXCEPT ![c] = r]
    BY <1>2, <2>1, <2>2 DEF CallRecord, Places, Reading
  <2>4. PlaceOf(r)
    BY <1>1, <1>2, <1>3, <2>2 DEF PlaceOf, CallRecord, Reading, Indexing
  <2>5. /\ r.op = call[c].op /\ r.purge = call[c].purge /\ r.unindexed = call[c].unindexed
        /\ r.alone = call[c].alone /\ r.pc \in Reading
    BY <1>2 DEF CallRecord, Reading
  <2>. HIDE DEF r
  <2>. QED
    BY <1>1, <1>3, <2>3, <2>4, <2>5, ReadingStep DEF Reading
<1>. QED
  BY <1>4, <1>5

LEMMA NextGoneKeeps ==
  ASSUME IInv, NEW c \in Callers, NextGone(c)
  PROVE  IInv'
<1>1. /\ call[c].pc = "gone" /\ UNCHANGED <<tableVars, file, combined, indexVars, history>>
  BY DEF NextGone
<1>2. /\ call \in [Callers -> CallRecord] /\ call[c] \in CallRecord /\ PlaceOf(call[c])
  BY CallFacts
<1>3. /\ call[c].op = "import" /\ ~ call[c].full
      /\ call[c].tree \in [Scanned -> Versions \cup {None}]
  BY <1>1, <1>2 DEF PlaceOf, Reading
<1>4. PICK d \in call[c].todo :
        call' = [call EXCEPT ![c].pc = "unlink", ![c].doc = d, ![c].todo = @ \ {d}]
  BY DEF NextGone
<1>. DEFINE r == [call[c] EXCEPT !.pc = "unlink", !.doc = d, !.todo = @ \ {d}]
<1>5. d \in Docs
  BY <1>2, <1>4 DEF CallRecord
<1>6. r \in CallRecord /\ call' = [call EXCEPT ![c] = r]
  BY <1>2, <1>4, <1>5 DEF CallRecord, Places, Reading
<1>7. PlaceOf(r)
  BY <1>1, <1>2, <1>3, <1>5 DEF PlaceOf, CallRecord, Reading, Indexing
<1>8. /\ r.op = call[c].op /\ r.purge = call[c].purge /\ r.unindexed = call[c].unindexed
      /\ r.alone = call[c].alone /\ r.pc \in Reading
  BY <1>2 DEF CallRecord, Reading
<1>. HIDE DEF r
<1>. QED
  BY <1>1, <1>3, <1>6, <1>7, <1>8, ReadingStep DEF Reading

LEMMA NothingToDeleteKeeps ==
  ASSUME IInv, NEW c \in Callers, NothingToDelete(c)
  PROVE  IInv'
<1>1. /\ call[c].pc = "unlink" /\ UNCHANGED <<tableVars, file, combined, indexVars>>
  BY DEF NothingToDelete
<1>2. /\ call \in [Callers -> CallRecord] /\ call[c] \in CallRecord /\ PlaceOf(call[c])
      /\ TableType /\ IndexType
      /\ Lone(c) /\ clean => CleanInv(c)
  BY CallFacts
<1>3. TableType' /\ IndexType' /\ Active(c)
  BY <1>1, <1>2 DEF TableType, IndexType, tableVars, indexVars, Active
<1>4. CASE call[c].op = "delete"
  <2>1. Succeed(c)
    BY <1>4 DEF NothingToDelete
  <2>2. call[c].purge = {} /\ ~ call[c].unindexed
    BY <1>1, <1>2, <1>4 DEF PlaceOf
  <2>3. Lone(c) /\ clean => Exact
    BY <1>1, <1>2, <2>2 DEF CleanInv, Reading
  <2>4. Lone(c) /\ clean => Exact'
    BY <1>1, <2>3 DEF Exact, ChunkRows, tableVars, indexVars
  <2>. QED
    BY <1>3, <1>4, <2>1, <2>4, GoodEnd
<1>5. CASE call[c].op = "import"
  <2>. DEFINE r == [call[c] EXCEPT !.pc = "gone"]
  <2>1. call' = [call EXCEPT ![c].pc = "gone"] /\ UNCHANGED history
    BY <1>5 DEF NothingToDelete, Goto
  <2>2. r \in CallRecord /\ call' = [call EXCEPT ![c] = r]
    BY <1>2, <2>1 DEF CallRecord, Places, Reading
  <2>3. PlaceOf(r)
    BY <1>1, <1>2, <1>5 DEF PlaceOf, CallRecord, Reading, Indexing
  <2>4. /\ r.op = call[c].op /\ r.purge = call[c].purge /\ r.unindexed = call[c].unindexed
        /\ r.alone = call[c].alone /\ r.pc \in Reading
    BY <1>2 DEF CallRecord, Reading
  <2>. HIDE DEF r
  <2>. QED
    BY <1>1, <1>5, <2>1, <2>2, <2>3, <2>4, ReadingStep DEF Reading
<1>. QED
  BY <1>4, <1>5 DEF NothingToDelete

LEMMA UnlinkFilesKeeps ==
  ASSUME IInv, NEW c \in Callers, UnlinkFiles(c)
  PROVE  IInv'
<1>. DEFINE r == [call[c] EXCEPT !.pc = "mark"]
<1>1. /\ call[c].pc = "unlink" /\ call' = [call EXCEPT ![c].pc = "mark"]
      /\ file' = IF status[call[c].doc] = "active"
                 THEN [file EXCEPT ![call[c].doc] = None] ELSE file
      /\ UNCHANGED <<tableVars, combined, indexVars, history>>
  BY DEF UnlinkFiles, Goto
<1>2. /\ call \in [Callers -> CallRecord] /\ call[c] \in CallRecord /\ PlaceOf(call[c])
      /\ TableType /\ IndexType
      /\ Lone(c) => TableInv(c) /\ (clean => CleanInv(c))
  BY CallFacts
<1>3. /\ call[c].op \in {"delete", "import"} /\ ~ call[c].full /\ call[c].doc \in Docs
      /\ call[c].op = "delete" => ~ call[c].unindexed /\ call[c].purge = {}
  BY <1>1, <1>2 DEF PlaceOf, Reading
<1>4. r \in CallRecord /\ call' = [call EXCEPT ![c] = r] /\ call'[c] = r
  BY <1>1, <1>2 DEF CallRecord, Places
<1>5. PlaceOf(r)
  BY <1>1, <1>2, <1>3 DEF PlaceOf, CallRecord, Reading, Indexing
<1>6. TableType' /\ IndexType'
  BY <1>1, <1>2, <1>3 DEF TableType, IndexType, tableVars, indexVars
<1>7. /\ r.op = call[c].op /\ r.doc = call[c].doc /\ r.alone = call[c].alone
      /\ r.purge = call[c].purge /\ r.unindexed = call[c].unindexed /\ r.pc = "mark"
  BY <1>2 DEF CallRecord
<1>. HIDE DEF r
<1>8. Lone(c) => TableInv(c)' /\ RebuildInv(c)' /\ PurgeInv(c)'
  BY <1>1, <1>2, <1>3, <1>4, <1>7 DEF TableInv, RebuildInv, PurgeInv, Indexing, tableVars
<1>9. ASSUME Lone(c), clean
      PROVE  CleanInv(c)'
  <2>1. ASSUME ~ call[c].unindexed
        PROVE  \A x \in Rows : x[1] \notin call[c].purge \cup {call[c].doc} => Agree(x)'
    <3>1. \A x \in Rows : x[1] \notin call[c].purge => Agree(x)
      BY <1>1, <1>2, <1>3, <1>9, <2>1 DEF CleanInv, Reading
    <3>2. \A x \in Rows : x[1] # call[c].doc => (x \in ChunkRows' <=> x \in ChunkRows)
      BY <1>1, <1>2, <1>3 DEF ChunkRows, Rows, TableType, tableVars
    <3>3. milvus' = milvus
      BY <1>1 DEF indexVars
    <3>. QED
      BY <3>1, <3>2, <3>3 DEF Agree
  <2>. QED
    BY <1>3, <1>4, <1>7, <2>1 DEF CleanInv, Reading
<1>. QED
  BY <1>1, <1>4, <1>5, <1>6, <1>7, <1>8, <1>9, OnStep DEF Active

LEMMA MarkDeletedKeeps ==
  ASSUME IInv, NEW c \in Callers, MarkDeleted(c)
  PROVE  IInv'
<1>. DEFINE p == IF call[c].op = "import" THEN "gone" ELSE "sync"
            r == [call[c] EXCEPT !.pc = p, !.purge = @ \cup {call[c].doc}]
<1>1. /\ call[c].pc = "mark"
      /\ call' = [call EXCEPT ![c].pc = p, ![c].purge = @ \cup {call[c].doc}]
      /\ status' = [status EXCEPT ![call[c].doc] = "deleted"]
      /\ UNCHANGED <<hash, file, combined, indexVars, history>>
  BY DEF MarkDeleted
<1>2. /\ call \in [Callers -> CallRecord] /\ call[c] \in CallRecord /\ PlaceOf(call[c])
      /\ TableType /\ IndexType
      /\ Lone(c) => TableInv(c) /\ (clean => CleanInv(c))
  BY CallFacts
<1>3. /\ call[c].op \in {"delete", "import"} /\ ~ call[c].full /\ call[c].doc \in Docs
      /\ call[c].op = "delete" => ~ call[c].unindexed
      /\ p \in {"gone", "sync"} /\ (p = "gone" <=> call[c].op = "import")
  BY <1>1, <1>2 DEF PlaceOf, Reading
<1>. HIDE DEF p
<1>4. r \in CallRecord /\ call' = [call EXCEPT ![c] = r] /\ call'[c] = r
  BY <1>1, <1>2, <1>3 DEF CallRecord, Places, Reading
<1>5. PlaceOf(r)
  BY <1>1, <1>2, <1>3 DEF PlaceOf, CallRecord, Reading, Indexing
<1>6. TableType' /\ IndexType'
  BY <1>1, <1>2, <1>3 DEF TableType, IndexType, Statuses, indexVars
<1>7. /\ r.op = call[c].op /\ r.doc = call[c].doc /\ r.alone = call[c].alone
      /\ r.purge = call[c].purge \cup {call[c].doc} /\ r.unindexed = call[c].unindexed /\ r.pc = p
  BY <1>2 DEF CallRecord
<1>. HIDE DEF r
<1>8. Lone(c) => TableInv(c)'
  <2>. SUFFICES ASSUME Lone(c) PROVE TableInv(c)'
    OBVIOUS
  <2>1. \A d \in call[c].purge : status[d] = "deleted"
    BY <1>2, <1>3 DEF TableInv
  <2>2. call[c].purge \subseteq Docs
    BY <1>2 DEF CallRecord
  <2>3. status'[call[c].doc] = "deleted" /\ \A d \in call'[c].purge : status'[d] = "deleted"
    BY <1>1, <1>2, <1>3, <1>4, <1>7, <2>1, <2>2 DEF TableType
  <2>. QED
    BY <1>3, <1>4, <1>7, <2>3 DEF TableInv
<1>9. RebuildInv(c)' /\ PurgeInv(c)'
  BY <1>3, <1>4, <1>7 DEF RebuildInv, PurgeInv, Indexing
<1>10. ASSUME Lone(c), clean
       PROVE  CleanInv(c)'
  <2>1. ASSUME ~ call[c].unindexed
        PROVE  \A x \in Rows : x[1] \notin call[c].purge \cup {call[c].doc} => Agree(x)'
    <3>1. \A x \in Rows : x[1] \notin call[c].purge \cup {call[c].doc} => Agree(x)
      BY <1>1, <1>2, <1>10, <2>1 DEF CleanInv
    <3>2. \A x \in Rows : x[1] # call[c].doc => (x \in ChunkRows' <=> x \in ChunkRows)
      BY <1>1, <1>2, <1>3 DEF ChunkRows, Rows, TableType
    <3>3. milvus' = milvus
      BY <1>1 DEF indexVars
    <3>. QED
      BY <3>1, <3>2, <3>3 DEF Agree
  <2>. QED
    BY <1>3, <1>4, <1>7, <2>1 DEF CleanInv, Reading
<1>11. p # "idle"
  BY <1>3
<1>. QED
  BY <1>1, <1>4, <1>5, <1>6, <1>7, <1>8, <1>9, <1>10, <1>11, OnStep DEF Active

-----------------------------------------------------------------------------
(* The indexes.                                                            *)

LEMMA ImportNoopKeeps ==
  ASSUME IInv, NEW c \in Callers, ImportNoop(c)
  PROVE  IInv'
<1>1. /\ call[c].pc = "gone" /\ call[c].purge = {} /\ Succeed(c)
      /\ UNCHANGED <<tableVars, file, combined, indexVars>>
  BY DEF ImportNoop
<1>2. /\ PlaceOf(call[c]) /\ TableType /\ IndexType
      /\ Lone(c) /\ clean => CleanInv(c)
  BY CallFacts
<1>3. TableType' /\ IndexType' /\ Active(c)
  BY <1>1, <1>2 DEF TableType, IndexType, tableVars, indexVars, Active
<1>4. call[c].op = "import"
  BY <1>1, <1>2 DEF PlaceOf
<1>5. Lone(c) /\ clean /\ ~ call[c].unindexed => Exact
  BY <1>1, <1>2 DEF CleanInv, Reading
<1>6. Lone(c) /\ clean /\ ~ call[c].unindexed => Exact'
  BY <1>1, <1>5 DEF Exact, ChunkRows, tableVars, indexVars
<1>. QED
  BY <1>1, <1>3, <1>4, <1>6, GoodEnd

LEMMA SyncIndexKeeps ==
  ASSUME IInv, NEW c \in Callers, SyncIndex(c)
  PROVE  IInv'
<1>1. /\ SyncDue(c) /\ combined' = ChunkRows
      /\ UNCHANGED <<tableVars, file, milvus, history>>
  BY DEF SyncIndex
<1>2. /\ call \in [Callers -> CallRecord] /\ call[c] \in CallRecord /\ PlaceOf(call[c])
      /\ TableType /\ IndexType
      /\ Lone(c) => TableInv(c) /\ PurgeInv(c) /\ (clean => CleanInv(c))
  BY CallFacts
<1>3. /\ \/ call[c].pc = "gone" /\ call[c].op = "import"
         \/ call[c].pc = "sync" /\ call[c].op \in {"ingest", "delete"}
      /\ call[c].op \in {"ingest", "delete"} => call[c].doc \in Docs
      /\ ~ call[c].full /\ (call[c].op # "import" => ~ call[c].unindexed)
  BY <1>1, <1>2 DEF SyncDue, PlaceOf, Reading
<1>4. ChunkRows' = ChunkRows /\ ChunkRows \subseteq Rows
  BY <1>1 DEF ChunkRows, tableVars
<1>5. TableType'
  BY <1>1, <1>2 DEF TableType, tableVars
<1>6. CASE Listed = {} /\ bm25' = {} /\ Goto(c, "drop")
  <2>. DEFINE r == [call[c] EXCEPT !.pc = "drop"]
  <2>1. r \in CallRecord /\ call' = [call EXCEPT ![c] = r] /\ call'[c] = r
    BY <1>2, <1>6 DEF Goto, CallRecord, Places, Indexing
  <2>2. PlaceOf(r)
    BY <1>2, <1>3 DEF PlaceOf, CallRecord, Reading, Indexing
  <2>3. /\ r.op = call[c].op /\ r.doc = call[c].doc /\ r.alone = call[c].alone
        /\ r.purge = call[c].purge /\ r.pc = "drop" /\ r.full = call[c].full
    BY <1>2 DEF CallRecord
  <2>. HIDE DEF r
  <2>4. IndexType'
    BY <1>1, <1>2, <1>4, <1>6 DEF IndexType
  <2>5. Lone(c) => TableInv(c)'
    BY <1>1, <1>2, <1>3, <2>1, <2>3 DEF TableInv, tableVars, Indexing
  <2>6. RebuildInv(c)'
    BY <1>1, <1>4, <1>6, <2>1, <2>3, NoneListed DEF RebuildInv
  <2>7. PurgeInv(c)' /\ CleanInv(c)'
    BY <2>1, <2>3 DEF PurgeInv, CleanInv, Reading
  <2>8. Active(c)
    BY <1>3 DEF Active
  <2>. QED
    BY <1>1, <1>5, <2>1, <2>2, <2>3, <2>4, <2>5, <2>6, <2>7, <2>8, OnStep
<1>7. CASE Listed # {} /\ MustRebuild(c) /\ UNCHANGED bm25
           /\ call' = [call EXCEPT ![c].pc = "list", ![c].full = TRUE]
  <2>1. IndexType'
    BY <1>1, <1>2, <1>4, <1>7 DEF IndexType
  <2>2. call[c].pc = "sync"
    BY <1>3, <1>7 DEF MustRebuild
  <2>3. Lone(c) => call[c].op # "ingest" \/ status[call[c].doc] = "active"
    BY <1>2, <2>2 DEF TableInv
  <2>. QED
    BY <1>1, <1>7, <2>1, <2>2, <2>3, ToRebuild
<1>8. CASE ~ MustRebuild(c) /\ UNCHANGED bm25
           /\ call' = [call EXCEPT ![c].pc = "purge", ![c].purge = ToPurge(c)]
  <2>. DEFINE r == [call[c] EXCEPT !.pc = "purge", !.purge = ToPurge(c)]
  <2>1. ToPurge(c) \in SUBSET Docs
    BY <1>2, <1>3 DEF ToPurge, CallRecord
  <2>2. r \in CallRecord /\ call' = [call EXCEPT ![c] = r] /\ call'[c] = r
    BY <1>2, <1>8, <2>1 DEF CallRecord, Places, Indexing
  <2>3. /\ r.op = call[c].op /\ r.doc = call[c].doc /\ r.alone = call[c].alone /\ r.was = call[c].was
        /\ r.purge = ToPurge(c) /\ r.pc = "purge" /\ r.full = call[c].full
        /\ r.unindexed = call[c].unindexed
    BY <1>2 DEF CallRecord
  <2>4. PlaceOf(r)
    BY <1>2, <1>3 DEF PlaceOf, CallRecord, Reading, Indexing, ToPurge
  <2>. HIDE DEF r
  <2>5. IndexType'
    BY <1>1, <1>2, <1>4, <1>8 DEF IndexType
  <2>6. Lone(c) => TableInv(c)'
    BY <1>1, <1>2, <1>3, <2>2, <2>3 DEF TableInv, tableVars, Indexing, ToPurge
  <2>7. RebuildInv(c)'
    BY <1>1, <1>4, <2>2, <2>3 DEF RebuildInv
  <2>8. Lone(c) => PurgeInv(c)'
    BY <1>2, <1>3, <2>2, <2>3 DEF PurgeInv, ToPurge
  <2>9. ASSUME Lone(c), clean
        PROVE  CleanInv(c)'
    <3>1. milvus' = milvus /\ ChunkRows' = ChunkRows
      BY <1>1, <1>4
    <3>2. ASSUME call[c].op \in {"delete", "import"}, ~ call[c].unindexed
          PROVE  \A x \in Rows : x[1] \notin call'[c].purge => Agree(x)'
      <4>1. \A x \in Rows : x[1] \notin call[c].purge => Agree(x)
        BY <1>2, <1>3, <2>9, <3>2 DEF CleanInv, Reading
      <4>2. call'[c].purge = call[c].purge
        BY <2>2, <2>3, <3>2 DEF ToPurge
      <4>. QED
        BY <3>1, <4>1, <4>2 DEF Agree
    <3>3. ASSUME call[c].op = "ingest"
          PROVE  /\ \A x \in Rows : x[1] # call'[c].doc => Agree(x)'
                 /\ call'[c].was # "active" => NoRowOf(call[c].doc)'
      <4>1. /\ \A x \in Rows : x[1] # call[c].doc => Agree(x)
            /\ call[c].was # "active" => NoRowOf(call[c].doc)
        BY <1>2, <1>3, <2>9, <3>3 DEF CleanInv
      <4>. QED
        BY <2>2, <2>3, <3>1, <4>1 DEF Agree, NoRowOf
    <3>. QED
      BY <2>2, <2>3, <3>2, <3>3 DEF CleanInv, Reading
  <2>10. Active(c)
    BY <1>3 DEF Active
  <2>. QED
    BY <1>1, <1>5, <2>2, <2>3, <2>4, <2>5, <2>6, <2>7, <2>8, <2>9, <2>10, OnStep
<1>. QED
  BY <1>6, <1>7, <1>8 DEF SyncIndex

LEMMA PurgeDocKeeps ==
  ASSUME IInv, NEW c \in Callers, PurgeDoc(c)
  PROVE  IInv'
<1>1. /\ call[c].pc = "purge" /\ UNCHANGED <<tableVars, file, combined, bm25, history>>
  BY DEF PurgeDoc
<1>2. /\ call \in [Callers -> CallRecord] /\ call[c] \in CallRecord /\ PlaceOf(call[c])
      /\ TableType /\ IndexType
      /\ Lone(c) => TableInv(c) /\ RebuildInv(c) /\ PurgeInv(c) /\ (clean => CleanInv(c))
  BY CallFacts
<1>3. PICK d \in call[c].purge : /\ milvus' = Without({d})
                                 /\ call' = [call EXCEPT ![c].purge = @ \ {d}]
  BY DEF PurgeDoc
<1>. DEFINE r == [call[c] EXCEPT !.purge = @ \ {d}]
<1>4. r \in CallRecord /\ call' = [call EXCEPT ![c] = r] /\ call'[c] = r
  BY <1>2, <1>3 DEF CallRecord
<1>5. PlaceOf(r)
  BY <1>1, <1>2 DEF PlaceOf, CallRecord, Reading, Indexing
<1>6. /\ r.op = call[c].op /\ r.doc = call[c].doc /\ r.alone = call[c].alone /\ r.was = call[c].was
      /\ r.purge = call[c].purge \ {d} /\ r.pc = "purge" /\ r.unindexed = call[c].unindexed
  BY <1>1, <1>2 DEF CallRecord
<1>. HIDE DEF r
<1>7. milvus' = {x \in milvus : x[1] # d} /\ ChunkRows' = ChunkRows
  BY <1>1, <1>3 DEF Without, ChunkRows, tableVars
<1>8. TableType' /\ IndexType'
  BY <1>1, <1>2, <1>7 DEF TableType, IndexType, tableVars
<1>9. Lone(c) => TableInv(c)' /\ RebuildInv(c)'
  BY <1>1, <1>2, <1>4, <1>6, <1>7 DEF TableInv, RebuildInv, tableVars, Indexing
<1>10. ASSUME NEW e \in Docs, e \in call[c].purge \/ NoRowOf(e)
       PROVE  e \in call'[c].purge \/ (\A v \in Versions : <<e, v>> \notin milvus')
  BY <1>4, <1>6, <1>7, <1>10 DEF NoRowOf
<1>11. call[c].op \in {"delete", "ingest"} => call[c].doc \in Docs
  BY <1>2 DEF PlaceOf
<1>12. Lone(c) => PurgeInv(c)'
  <2>. SUFFICES ASSUME Lone(c) PROVE PurgeInv(c)'
    OBVIOUS
  <2>1. /\ call[c].op = "delete" => call[c].doc \in call[c].purge \/ NoRowOf(call[c].doc)
        /\ call[c].op = "ingest" /\ call[c].was = "active" =>
             call[c].doc \in call[c].purge \/ NoRowOf(call[c].doc)
    BY <1>1, <1>2 DEF PurgeInv
  <2>. QED
    BY <1>4, <1>6, <1>10, <1>11, <2>1 DEF PurgeInv, NoRowOf
<1>13. ASSUME Lone(c), clean
       PROVE  CleanInv(c)'
  <2>1. ASSUME call[c].op \in {"delete", "import"}, ~ call[c].unindexed
        PROVE  \A x \in Rows : x[1] \notin call'[c].purge => Agree(x)'
    <3>1. \A x \in Rows : x[1] \notin call[c].purge => Agree(x)
      BY <1>1, <1>2, <1>13, <2>1 DEF CleanInv
    <3>2. \A x \in Rows : x[1] = d => x \notin ChunkRows
      BY <1>2, <1>3, <1>13, <2>1 DEF TableInv, ChunkRows
    <3>. QED
      BY <1>4, <1>6, <1>7, <3>1, <3>2 DEF Agree
  <2>2. ASSUME call[c].op = "ingest"
        PROVE  /\ \A x \in Rows : x[1] # call'[c].doc => Agree(x)'
               /\ call'[c].was # "active" => NoRowOf(call[c].doc)'
    <3>1. /\ \A x \in Rows : x[1] # call[c].doc => Agree(x)
          /\ call[c].was # "active" => NoRowOf(call[c].doc)
      BY <1>1, <1>2, <1>13, <2>2 DEF CleanInv
    <3>2. d = call[c].doc
      BY <1>1, <1>2, <1>3, <2>2 DEF PlaceOf
    <3>. QED
      BY <1>4, <1>6, <1>7, <3>1, <3>2 DEF Agree, NoRowOf
  <2>. QED
    BY <1>4, <1>6, <2>1, <2>2 DEF CleanInv, Reading
<1>14. Active(c)
  BY <1>1 DEF Active
<1>. QED
  BY <1>1, <1>4, <1>5, <1>6, <1>8, <1>9, <1>12, <1>13, <1>14, OnStep

LEMMA PurgeDoneKeeps ==
  ASSUME IInv, NEW c \in Callers, PurgeDone(c)
  PROVE  IInv'
<1>. DEFINE p == IF call[c].op = "ingest" THEN "insert" ELSE "bm25"
            r == [call[c] EXCEPT !.pc = p]
<1>1. /\ call[c].pc = "purge" /\ call[c].purge = {} /\ call' = [call EXCEPT ![c].pc = p]
      /\ UNCHANGED <<tableVars, file, combined, indexVars, history>>
  BY DEF PurgeDone, Goto
<1>2. /\ call \in [Callers -> CallRecord] /\ call[c] \in CallRecord /\ PlaceOf(call[c])
      /\ TableType /\ IndexType
      /\ Lone(c) => TableInv(c) /\ RebuildInv(c) /\ PurgeInv(c) /\ (clean => CleanInv(c))
  BY CallFacts
<1>3. /\ call[c].op \in {"delete", "import", "ingest"} /\ ~ call[c].full
      /\ call[c].op = "ingest" => p = "insert"
      /\ call[c].op # "ingest" => p = "bm25"
  BY <1>1, <1>2 DEF PlaceOf, Ops, CallRecord
<1>. HIDE DEF p
<1>4. r \in CallRecord /\ call' = [call EXCEPT ![c] = r] /\ call'[c] = r
  BY <1>1, <1>2, <1>3 DEF CallRecord, Places, Indexing
<1>5. PlaceOf(r)
  BY <1>1, <1>2, <1>3 DEF PlaceOf, CallRecord, Reading, Indexing
<1>6. /\ r.op = call[c].op /\ r.doc = call[c].doc /\ r.alone = call[c].alone /\ r.was = call[c].was
      /\ r.purge = {} /\ r.pc = p /\ r.unindexed = call[c].unindexed /\ ~ r.full
  BY <1>1, <1>2, <1>3 DEF CallRecord
<1>. HIDE DEF r
<1>7. milvus' = milvus /\ ChunkRows' = ChunkRows
  BY <1>1 DEF ChunkRows, tableVars, indexVars
<1>8. TableType' /\ IndexType'
  BY <1>1, <1>2 DEF TableType, IndexType, tableVars, indexVars
<1>9. Lone(c) => TableInv(c)'
  BY <1>1, <1>2, <1>3, <1>4, <1>6 DEF TableInv, tableVars, Indexing
<1>10. Lone(c) => RebuildInv(c)'
  BY <1>1, <1>2, <1>3, <1>4, <1>6, <1>7 DEF RebuildInv, Indexing
<1>11. Lone(c) => PurgeInv(c)'
  BY <1>1, <1>2, <1>3, <1>4, <1>6, <1>7 DEF PurgeInv, NoRowOf
<1>12. ASSUME Lone(c), clean
       PROVE  CleanInv(c)'
  <2>1. ASSUME call[c].op # "ingest", ~ call[c].unindexed
        PROVE  milvus = ChunkRows
    <3>1. \A x \in Rows : Agree(x)
      BY <1>1, <1>2, <1>3, <1>12, <2>1 DEF CleanInv
    <3>2. milvus \subseteq Rows /\ ChunkRows \subseteq Rows
      BY <1>2 DEF IndexType, ChunkRows
    <3>. QED
      BY <3>1, <3>2 DEF Agree
  <2>2. ASSUME call[c].op = "ingest"
        PROVE  /\ \A x \in Rows : x[1] # call'[c].doc => Agree(x)'
               /\ call'[c].was # "active" => NoRowOf(call[c].doc)'
    <3>1. /\ \A x \in Rows : x[1] # call[c].doc => Agree(x)
          /\ call[c].was # "active" => NoRowOf(call[c].doc)
      BY <1>1, <1>2, <1>12, <2>2 DEF CleanInv
    <3>. QED
      BY <1>4, <1>6, <1>7, <3>1 DEF Agree, NoRowOf
  <2>. QED
    BY <1>3, <1>4, <1>6, <1>7, <2>1, <2>2 DEF CleanInv, Reading
<1>13. Active(c) /\ p # "idle"
  BY <1>1, <1>3 DEF Active
<1>. QED
  BY <1>1, <1>4, <1>5, <1>6, <1>8, <1>9, <1>10, <1>11, <1>12, <1>13, OnStep

LEMMA InsertKeeps ==
  ASSUME IInv, NEW c \in Callers, Insert(c)
  PROVE  IInv'
<1>. DEFINE d == call[c].doc
            r == [call[c] EXCEPT !.pc = "bm25"]
<1>1. /\ call[c].pc = "insert" /\ file[d] # None /\ call' = [call EXCEPT ![c].pc = "bm25"]
      /\ milvus' = milvus \cup {<<d, file[d]>>}
      /\ UNCHANGED <<tableVars, file, combined, bm25, history>>
  BY DEF Insert, Goto
<1>2. /\ call \in [Callers -> CallRecord] /\ call[c] \in CallRecord /\ PlaceOf(call[c])
      /\ TableType /\ IndexType
      /\ Lone(c) => TableInv(c) /\ RebuildInv(c) /\ PurgeInv(c) /\ (clean => CleanInv(c))
  BY CallFacts
<1>3. call[c].op = "ingest" /\ ~ call[c].full /\ d \in Docs /\ call[c].purge = {}
  BY <1>1, <1>2 DEF PlaceOf
<1>4. r \in CallRecord /\ call' = [call EXCEPT ![c] = r] /\ call'[c] = r
  BY <1>1, <1>2 DEF CallRecord, Places, Indexing
<1>5. PlaceOf(r)
  BY <1>1, <1>2, <1>3 DEF PlaceOf, CallRecord, Reading, Indexing
<1>6. /\ r.op = "ingest" /\ r.doc = d /\ r.alone = call[c].alone /\ r.was = call[c].was
      /\ r.purge = {} /\ r.pc = "bm25" /\ ~ r.full
  BY <1>2, <1>3 DEF CallRecord
<1>. HIDE DEF r
<1>7. file' = file /\ ChunkRows' = ChunkRows /\ file[d] \in Versions
  BY <1>1, <1>2, <1>3 DEF ChunkRows, tableVars, TableType
<1>8. TableType' /\ IndexType'
  BY <1>1, <1>2, <1>3, <1>7 DEF TableType, IndexType, tableVars, Rows
<1>9. Lone(c) => TableInv(c)'
  BY <1>1, <1>2, <1>3, <1>4, <1>6 DEF TableInv, tableVars, Indexing
<1>10. Lone(c) => RebuildInv(c)'
  BY <1>1, <1>2, <1>4, <1>6, <1>7 DEF RebuildInv, Indexing
<1>11. Lone(c) => PurgeInv(c)'
  <2>. SUFFICES ASSUME Lone(c) PROVE PurgeInv(c)'
    OBVIOUS
  <2>1. call[c].was = "active" => NoRowOf(d)
    BY <1>1, <1>2, <1>3 DEF PurgeInv
  <2>2. call[c].was = "active" => \A v \in Versions : <<d, v>> \in milvus' => v = file[d]
    BY <1>1, <2>1 DEF NoRowOf
  <2>. QED
    BY <1>1, <1>4, <1>6, <1>7, <2>2 DEF PurgeInv
<1>12. ASSUME Lone(c), clean
       PROVE  CleanInv(c)'
  <2>1. /\ \A x \in Rows : x[1] # d => Agree(x)
        /\ NoRowOf(d) /\ status[d] = "active"
    BY <1>1, <1>2, <1>3, <1>12 DEF CleanInv, PurgeInv, TableInv, Indexing
  <2>2. \A x \in Rows : x[1] # d => (x \in milvus' <=> x \in ChunkRows)
    BY <1>1, <2>1 DEF Agree
  <2>3. \A v \in Versions : <<d, v>> \in milvus' <=> <<d, v>> \in ChunkRows
    BY <1>1, <1>3, <1>7, <2>1, ChunkRowsAre DEF NoRowOf
  <2>4. \A x \in Rows : x \in milvus' <=> x \in ChunkRows
    BY <2>2, <2>3, RowParts
  <2>5. milvus' = ChunkRows'
    BY <1>7, <1>8, <2>4 DEF IndexType, ChunkRows
  <2>. QED
    BY <1>4, <1>6, <2>5 DEF CleanInv, Reading
<1>13. Active(c)
  BY <1>1 DEF Active
<1>. QED
  BY <1>1, <1>4, <1>5, <1>6, <1>8, <1>9, <1>10, <1>11, <1>12, <1>13, OnStep

(* A step that raises.                                                     *)
LEMMA RaisingKeeps ==
  ASSUME IInv, NEW c \in Callers,
         PurgeFails(c) \/ InsertFails(c) \/ BM25Fails(c) \/ WipeFails(c) \/ FillFails(c)
  PROVE  IInv'
<1>1. /\ call[c] \in CallRecord /\ PlaceOf(call[c]) /\ TableType /\ IndexType
  BY CallFacts
<1>2. CASE PurgeFails(c)
  <2>1. call[c].pc \in Indexing /\ Raise(c) /\ UNCHANGED file /\ IndexType'
    BY <1>1, <1>2 DEF PurgeFails, Indexing, IndexType, indexVars
  <2>. QED
    BY <2>1, RaiseStep
<1>3. CASE InsertFails(c)
  <2>1. call[c].pc \in Indexing /\ Raise(c) /\ UNCHANGED file
    BY <1>3 DEF InsertFails, Indexing
  <2>2. file[call[c].doc] # None => <<call[c].doc, file[call[c].doc]>> \in Rows
    BY <1>1, <1>3 DEF InsertFails, PlaceOf, TableType, Rows
  <2>3. IndexType'
    BY <1>1, <1>3, <2>2 DEF InsertFails, IndexType
  <2>. QED
    BY <2>1, <2>3, RaiseStep
<1>4. CASE BM25Fails(c)
  <2>1. call[c].pc \in Indexing /\ Raise(c) /\ UNCHANGED file /\ IndexType'
    BY <1>1, <1>4 DEF BM25Fails, Indexing, IndexType
  <2>. QED
    BY <2>1, RaiseStep
<1>5. CASE WipeFails(c)
  <2>1. call[c].pc \in Indexing /\ Raise(c) /\ UNCHANGED file /\ IndexType'
    BY <1>1, <1>5 DEF WipeFails, Indexing, IndexType, indexVars
  <2>. QED
    BY <2>1, RaiseStep
<1>6. CASE FillFails(c)
  <2>1. call[c].pc \in Indexing /\ Raise(c) /\ UNCHANGED file
    BY <1>6 DEF FillFails, Indexing
  <2>2. IndexType'
    BY <1>1, <1>6 DEF FillFails, IndexType, CallRecord
  <2>. QED
    BY <2>1, <2>2, RaiseStep
<1>. QED
  BY <1>2, <1>3, <1>4, <1>5, <1>6

LEMMA BuildBM25Keeps ==
  ASSUME IInv, NEW c \in Callers, BuildBM25(c)
  PROVE  IInv'
<1>1. /\ call[c].pc = "bm25" /\ bm25' = combined /\ Succeed(c)
      /\ UNCHANGED <<tableVars, file, combined, milvus>>
  BY DEF BuildBM25
<1>2. /\ call[c] \in CallRecord /\ PlaceOf(call[c]) /\ TableType /\ IndexType
      /\ Lone(c) => RebuildInv(c) /\ (clean => CleanInv(c))
  BY CallFacts
<1>3. TableType' /\ IndexType' /\ Active(c)
  BY <1>1, <1>2 DEF TableType, IndexType, tableVars, Active
<1>4. ASSUME Lone(c), ~ call[c].refused, ~ call[c].unindexed, clean \/ call[c].op = "rebuild"
      PROVE  Exact'
  <2>1. combined = ChunkRows
    BY <1>1, <1>2, <1>4 DEF RebuildInv, Indexing
  <2>2. CASE call[c].full
    BY <1>1, <1>2, <1>4, <2>1, <2>2 DEF RebuildInv, Exact, ChunkRows, tableVars
  <2>3. CASE ~ call[c].full
    <3>1. clean
      BY <1>2, <1>4, <2>3 DEF PlaceOf
    <3>2. milvus = ChunkRows
      BY <1>1, <1>2, <1>4, <2>3, <3>1 DEF CleanInv
    <3>. QED
      BY <1>1, <2>1, <3>2 DEF Exact, ChunkRows, tableVars
  <2>. QED
    BY <2>2, <2>3
<1>. QED
  BY <1>1, <1>3, <1>4, GoodEnd

LEMMA ListAllKeeps ==
  ASSUME IInv, NEW c \in Callers, ListAll(c)
  PROVE  IInv'
<1>. DEFINE p == IF ChunkRows = {} THEN "drop" ELSE "wipe"
            r == [call[c] EXCEPT !.pc = p]
<1>1. /\ call[c].pc = "list" /\ combined' = ChunkRows /\ call' = [call EXCEPT ![c].pc = p]
      /\ bm25' = IF ChunkRows = {} THEN {} ELSE bm25
      /\ UNCHANGED <<tableVars, file, milvus, history>>
  BY DEF ListAll, Goto
<1>2. /\ call \in [Callers -> CallRecord] /\ call[c] \in CallRecord /\ PlaceOf(call[c])
      /\ TableType /\ IndexType
      /\ Lone(c) => TableInv(c)
  BY CallFacts
<1>3. p \in {"drop", "wipe"} /\ (p = "drop" => ChunkRows = {} /\ bm25' = {}) /\ call[c].full
  BY <1>1, <1>2 DEF PlaceOf
<1>. HIDE DEF p
<1>4. r \in CallRecord /\ call' = [call EXCEPT ![c] = r] /\ call'[c] = r
  BY <1>1, <1>2, <1>3 DEF CallRecord, Places, Indexing
<1>5. PlaceOf(r)
  BY <1>1, <1>2, <1>3 DEF PlaceOf, CallRecord, Reading, Indexing
<1>6. /\ r.op = call[c].op /\ r.doc = call[c].doc /\ r.alone = call[c].alone
      /\ r.purge = call[c].purge /\ r.pc = p
  BY <1>2 DEF CallRecord
<1>. HIDE DEF r
<1>7. ChunkRows' = ChunkRows /\ ChunkRows \subseteq Rows
  BY <1>1 DEF ChunkRows, tableVars
<1>8. TableType' /\ IndexType'
  BY <1>1, <1>2, <1>7 DEF TableType, IndexType, tableVars
<1>9. Lone(c) => TableInv(c)'
  BY <1>1, <1>2, <1>3, <1>4, <1>6 DEF TableInv, tableVars, Indexing
<1>10. RebuildInv(c)' /\ PurgeInv(c)' /\ CleanInv(c)'
  BY <1>1, <1>3, <1>4, <1>6, <1>7 DEF RebuildInv, PurgeInv, CleanInv, Reading
<1>11. Active(c) /\ p # "idle"
  BY <1>1, <1>3 DEF Active
<1>. QED
  BY <1>1, <1>4, <1>5, <1>6, <1>8, <1>9, <1>10, <1>11, OnStep

LEMMA WipeKeeps ==
  ASSUME IInv, NEW c \in Callers, Wipe(c)
  PROVE  IInv'
<1>1. /\ call[c].pc = "wipe" /\ UNCHANGED <<tableVars, file, combined, bm25, history>>
  BY DEF Wipe
<1>2. /\ call \in [Callers -> CallRecord] /\ call[c] \in CallRecord /\ PlaceOf(call[c])
      /\ TableType /\ IndexType
      /\ Lone(c) => TableInv(c) /\ RebuildInv(c)
  BY CallFacts
<1>3. PICK b \in BOOLEAN :
        /\ call' = [call EXCEPT ![c].pc = "fill", ![c].rows = combined, ![c].refused = b]
        /\ b \/ milvus' = {}
        /\ milvus' \in {milvus, {}}
  <2>1. CASE milvus' = {} /\ call' = [call EXCEPT ![c].pc = "fill", ![c].rows = combined]
    <3>1. call' = [call EXCEPT ![c].pc = "fill", ![c].rows = combined,
                               ![c].refused = call[c].refused]
      BY <1>2, <2>1 DEF CallRecord
    <3>2. call[c].refused \in BOOLEAN
      BY <1>2 DEF CallRecord
    <3>. QED
      BY <2>1, <3>1, <3>2
  <2>2. CASE UNCHANGED milvus /\ call' = [call EXCEPT ![c].pc = "fill", ![c].rows = combined,
                                                      ![c].refused = TRUE]
    BY <2>2
  <2>. QED
    BY <2>1, <2>2 DEF Wipe
<1>. DEFINE r == [call[c] EXCEPT !.pc = "fill", !.rows = combined, !.refused = b]
<1>4. r \in CallRecord /\ call' = [call EXCEPT ![c] = r] /\ call'[c] = r
  BY <1>2, <1>3 DEF CallRecord, Places, Indexing, IndexType
<1>5. PlaceOf(r)
  BY <1>1, <1>2 DEF PlaceOf, CallRecord, Reading, Indexing
<1>6. /\ r.op = call[c].op /\ r.doc = call[c].doc /\ r.alone = call[c].alone
      /\ r.purge = call[c].purge /\ r.pc = "fill" /\ r.rows = combined /\ (r.refused <=> b)
  BY <1>2 DEF CallRecord
<1>. HIDE DEF r
<1>7. ChunkRows' = ChunkRows
  BY <1>1 DEF ChunkRows, tableVars
<1>8. TableType' /\ IndexType'
  BY <1>1, <1>2, <1>3 DEF TableType, IndexType, tableVars
<1>9. Lone(c) => TableInv(c)'
  BY <1>1, <1>2, <1>4, <1>6 DEF TableInv, tableVars, Indexing
<1>10. Lone(c) => RebuildInv(c)'
  BY <1>1, <1>2, <1>3, <1>4, <1>6, <1>7 DEF RebuildInv, Indexing
<1>11. PurgeInv(c)' /\ CleanInv(c)'
  BY <1>4, <1>6 DEF PurgeInv, CleanInv, Reading
<1>12. Active(c)
  BY <1>1 DEF Active
<1>. QED
  BY <1>1, <1>4, <1>5, <1>6, <1>8, <1>9, <1>10, <1>11, <1>12, OnStep

LEMMA FillKeeps ==
  ASSUME IInv, NEW c \in Callers, Fill(c)
  PROVE  IInv'
<1>. DEFINE r == [call[c] EXCEPT !.pc = "bm25", !.rows = {}]
<1>1. /\ call[c].pc = "fill" /\ milvus' = milvus \cup call[c].rows
      /\ call' = [call EXCEPT ![c].pc = "bm25", ![c].rows = {}]
      /\ UNCHANGED <<tableVars, file, combined, bm25, history>>
  BY DEF Fill
<1>2. /\ call \in [Callers -> CallRecord] /\ call[c] \in CallRecord /\ PlaceOf(call[c])
      /\ TableType /\ IndexType
      /\ Lone(c) => TableInv(c) /\ RebuildInv(c)
  BY CallFacts
<1>3. call[c].full
  BY <1>1, <1>2 DEF PlaceOf
<1>4. r \in CallRecord /\ call' = [call EXCEPT ![c] = r] /\ call'[c] = r
  BY <1>1, <1>2 DEF CallRecord, Places, Indexing
<1>5. PlaceOf(r)
  BY <1>1, <1>2, <1>3 DEF PlaceOf, CallRecord, Reading, Indexing
<1>6. /\ r.op = call[c].op /\ r.doc = call[c].doc /\ r.alone = call[c].alone
      /\ r.purge = call[c].purge /\ r.pc = "bm25" /\ r.full /\ r.refused = call[c].refused
  BY <1>2, <1>3 DEF CallRecord
<1>. HIDE DEF r
<1>7. ChunkRows' = ChunkRows
  BY <1>1 DEF ChunkRows, tableVars
<1>8. TableType' /\ IndexType'
  BY <1>1, <1>2 DEF TableType, IndexType, tableVars, CallRecord
<1>9. Lone(c) => TableInv(c)'
  BY <1>1, <1>2, <1>4, <1>6 DEF TableInv, tableVars, Indexing
<1>10. Lone(c) => RebuildInv(c)'
  BY <1>1, <1>2, <1>4, <1>6, <1>7 DEF RebuildInv, Indexing
<1>11. PurgeInv(c)' /\ CleanInv(c)'
  BY <1>4, <1>6 DEF PurgeInv, CleanInv, Reading
<1>12. Active(c)
  BY <1>1 DEF Active
<1>. QED
  BY <1>1, <1>4, <1>5, <1>6, <1>8, <1>9, <1>10, <1>11, <1>12, OnStep

LEMMA DropKeeps ==
  ASSUME IInv, NEW c \in Callers, Drop(c)
  PROVE  IInv'
<1>1. /\ call[c].pc = "drop" /\ milvus' = {} /\ Succeed(c)
      /\ UNCHANGED <<tableVars, file, combined, bm25>>
  BY DEF Drop
<1>2. /\ TableType /\ IndexType /\ (Lone(c) => RebuildInv(c))
  BY CallFacts
<1>3. TableType' /\ IndexType' /\ Active(c)
  BY <1>1, <1>2 DEF TableType, IndexType, tableVars, Active
<1>4. Lone(c) => ChunkRows = {} /\ bm25 = {}
  BY <1>1, <1>2 DEF RebuildInv
<1>5. Lone(c) => Exact'
  BY <1>1, <1>4 DEF Exact, ChunkRows, tableVars
<1>. QED
  BY <1>1, <1>3, <1>5, GoodEnd

LEMMA DropFailsKeeps ==
  ASSUME IInv, NEW c \in Callers, DropFails(c)
  PROVE  IInv'
<1>1. IndexType' /\ UNCHANGED file /\ Active(c) /\ Fail(c)
  BY CallFacts DEF DropFails, IndexType, indexVars, Active
<1>. QED
  BY <1>1, FailEnd

LEMMA StopKeeps ==
  ASSUME IInv, NEW c \in Callers, Stop(c)
  PROVE  IInv'
<1>1. /\ Active(c) /\ call' = [call EXCEPT ![c] = NoCall]
      /\ result' \in {"failed", "stopped"} /\ clean' = FALSE
      /\ UNCHANGED <<tableVars, file, combined, indexVars>>
  BY DEF Stop
<1>2. TableType' /\ IndexType'
  BY <1>1, CallFacts DEF TableType, IndexType, tableVars, indexVars
<1>. QED
  BY <1>1, <1>2, BadEnd

-----------------------------------------------------------------------------
(* The start of a call: it is alone if no other is under way, and those    *)
(* that are under way are so no longer.                                    *)

LEMMA AloneOnly ==
  ASSUME NEW r \in CallRecord, NEW b \in BOOLEAN, PlaceOf(r)
  PROVE  /\ [r EXCEPT !.alone = b] \in CallRecord /\ PlaceOf([r EXCEPT !.alone = b])
         /\ [r EXCEPT !.alone = b].pc = r.pc /\ ([r EXCEPT !.alone = b].alone <=> b)
<1>. DEFINE q == [r EXCEPT !.alone = b]
<1>1. q \in CallRecord
  BY DEF CallRecord
<1>2. /\ q.op = r.op /\ q.pc = r.pc /\ q.doc = r.doc /\ q.ver = r.ver /\ q.tree = r.tree
      /\ q.todo = r.todo /\ q.purge = r.purge /\ q.full = r.full /\ q.unindexed = r.unindexed
      /\ q.alone = b
  BY DEF CallRecord
<1>. HIDE DEF q
<1>3. PlaceOf(q)
  BY <1>2 DEF PlaceOf
<1>. QED
  BY <1>1, <1>2, <1>3 DEF q

LEMMA BeginStep ==
  ASSUME IInv, NEW c \in Callers, NEW r \in CallRecord, Begin(c, r), PlaceOf(r),
         UNCHANGED <<tableVars, file, combined, indexVars, history>>,
         r.pc \in {"check", "files", "unlink", "list"}, r.purge = {}, ~ r.unindexed,
         r.op = "ingest" => r.pc = "check" /\ r.was = status[r.doc],
         r.op = "delete" => r.pc = "unlink"
  PROVE  IInv'
<1>. DEFINE others == {x \in Callers \ {c} : Active(x)}
            Now(x) == IF x = c THEN [r EXCEPT !.alone = others = {}]
                      ELSE IF x \in others THEN [call[x] EXCEPT !.alone = FALSE] ELSE call[x]
<1>1. /\ ~ Active(c) /\ call' = [x \in Callers |-> Now(x)]
  BY DEF Begin
<1>2. /\ call \in [Callers -> CallRecord] /\ \A x \in Callers : PlaceOf(call[x])
      /\ TableType /\ IndexType /\ HistoryType
  BY DEF IInv, Typed
<1>3. /\ Now(c) \in CallRecord /\ PlaceOf(Now(c)) /\ Now(c).pc = r.pc
      /\ (Now(c).alone <=> others = {})
  BY AloneOnly
<1>4. ASSUME NEW x \in Callers, x # c
      PROVE  /\ Now(x) \in CallRecord /\ PlaceOf(Now(x))
             /\ (Now(x).pc = "idle" <=> x \notin others) /\ (x \in others => ~ Now(x).alone)
  <2>1. CASE x \in others
    BY <1>2, <1>4, <2>1, AloneOnly DEF Active
  <2>2. CASE x \notin others
    BY <1>2, <1>4, <2>2 DEF Active
  <2>. QED
    BY <2>1, <2>2
<1>5. /\ Now(c).op = r.op /\ Now(c).doc = r.doc /\ Now(c).was = r.was
      /\ Now(c).purge = {} /\ ~ Now(c).unindexed
  BY DEF CallRecord
<1>. HIDE DEF Now
<1>6. \A x \in Callers : call'[x] = Now(x)
  BY <1>1
<1>7. Typed'
  <2>1. call' \in [Callers -> CallRecord]
    BY <1>1, <1>3, <1>4
  <2>2. TableType' /\ IndexType' /\ HistoryType'
    BY <1>2 DEF TableType, IndexType, HistoryType, tableVars, indexVars, history
  <2>. QED
    BY <2>1, <2>2 DEF Typed
<1>8. \A x \in Callers : PlaceOf(call'[x])
  BY <1>3, <1>4, <1>6
<1>9. \A x \in Callers : Lone(x)' => x = c /\ others = {}
  BY <1>3, <1>4, <1>6 DEF Lone, Active
<1>10. LoneIsAlone'
  BY <1>4, <1>6, <1>9 DEF LoneIsAlone, Active
<1>11. ASSUME others = {}
       PROVE  CallInv(c)'
  <2>1. clean => Exact
    BY <1>1, <1>11 DEF IInv, SerialCallsKeepIndexExact, Exact
  <2>2. /\ ChunkRows' = ChunkRows /\ milvus' = milvus /\ bm25' = bm25 /\ status' = status
        /\ clean' = clean
    BY DEF ChunkRows, tableVars, indexVars, history
  <2>3. TableInv(c)' /\ RebuildInv(c)' /\ PurgeInv(c)'
    BY <1>3, <1>5, <1>6, <2>2 DEF TableInv, RebuildInv, PurgeInv, Indexing
  <2>4. clean' => CleanInv(c)'
    BY <1>3, <1>5, <1>6, <2>1, <2>2 DEF CleanInv, Exact, Agree, Reading
  <2>. QED
    BY <2>3, <2>4 DEF CallInv
<1>12. SerialCallsKeepIndexExact'
  BY <1>3, <1>6 DEF SerialCallsKeepIndexExact, Active
<1>. QED
  BY <1>7, <1>8, <1>9, <1>10, <1>11, <1>12 DEF IInv

LEMMA StartKeeps ==
  ASSUME IInv, NEW c \in Callers, Start(c)
  PROVE  IInv'
<1>0. TableType
  BY CallFacts
<1>1. ASSUME NEW d \in Docs, NEW v \in Versions, NEW force \in BOOLEAN, IngestFile(c, d, v, force)
      PROVE  IInv'
  <2>. DEFINE r == [NoCall EXCEPT !.op = "ingest", !.pc = "check", !.doc = d,
                                  !.ver = v, !.force = force, !.was = status[d]]
  <2>1. Begin(c, r) /\ UNCHANGED <<tableVars, file, combined, indexVars, history>>
    BY <1>1 DEF IngestFile
  <2>2. r \in CallRecord
    BY <1>0 DEF NoCall, CallRecord, Ops, Places, Reading, TableType, Statuses
  <2>3. /\ r.op = "ingest" /\ r.pc = "check" /\ r.doc = d /\ r.ver = v /\ r.was = status[d]
        /\ ~ r.full /\ ~ r.unindexed /\ r.purge = {}
    BY DEF NoCall
  <2>. HIDE DEF r
  <2>4. PlaceOf(r)
    BY <2>3 DEF PlaceOf, Reading
  <2>. QED
    BY <2>1, <2>2, <2>3, <2>4, BeginStep
<1>2. ASSUME NEW tree \in [Scanned -> Versions \cup {None}], NEW sync \in BOOLEAN,
             NEW force \in BOOLEAN, IngestPath(c, tree, sync, force)
      PROVE  IInv'
  <2>. DEFINE T == {d \in Scanned : tree[d] # None}
              r == [NoCall EXCEPT !.op = "import", !.pc = "files", !.tree = tree,
                                  !.todo = T, !.sync = sync, !.force = force]
  <2>1. Begin(c, r) /\ UNCHANGED <<tableVars, file, combined, indexVars, history>>
    BY <1>2 DEF IngestPath
  <2>2. T \subseteq Docs
    BY KBAssumption
  <2>3. r \in CallRecord
    BY <2>2 DEF NoCall, CallRecord, Ops, Places, Reading, Statuses
  <2>4. /\ r.op = "import" /\ r.pc = "files" /\ r.tree = tree /\ r.todo = T
        /\ ~ r.full /\ ~ r.unindexed /\ r.purge = {}
    BY DEF NoCall
  <2>. HIDE DEF r
  <2>5. PlaceOf(r)
    BY <2>4 DEF PlaceOf, Reading
  <2>. QED
    BY <2>1, <2>3, <2>4, <2>5, BeginStep
<1>3. ASSUME NEW d \in Docs, DeleteDocument(c, d)
      PROVE  IInv'
  <2>. DEFINE r == [NoCall EXCEPT !.op = "delete", !.pc = "unlink", !.doc = d, !.was = status[d]]
  <2>1. Begin(c, r) /\ UNCHANGED <<tableVars, file, combined, indexVars, history>>
    BY <1>3 DEF DeleteDocument
  <2>2. r \in CallRecord
    BY <1>0 DEF NoCall, CallRecord, Ops, Places, Reading, TableType, Statuses
  <2>3. /\ r.op = "delete" /\ r.pc = "unlink" /\ r.doc = d
        /\ ~ r.full /\ ~ r.unindexed /\ r.purge = {}
    BY DEF NoCall
  <2>. HIDE DEF r
  <2>4. PlaceOf(r)
    BY <2>3 DEF PlaceOf, Reading
  <2>. QED
    BY <2>1, <2>2, <2>3, <2>4, BeginStep
<1>4. ASSUME RebuildKB(c)
      PROVE  IInv'
  <2>. DEFINE r == [NoCall EXCEPT !.op = "rebuild", !.pc = "list", !.full = TRUE]
  <2>1. Begin(c, r) /\ UNCHANGED <<tableVars, file, combined, indexVars, history>>
    BY <1>4 DEF RebuildKB
  <2>2. r \in CallRecord
    BY DEF NoCall, CallRecord, Ops, Places, Reading, Statuses
  <2>3. r.op = "rebuild" /\ r.pc = "list" /\ r.full /\ ~ r.unindexed /\ r.purge = {}
    BY DEF NoCall
  <2>. HIDE DEF r
  <2>4. PlaceOf(r)
    BY <2>3 DEF PlaceOf, Reading
  <2>. QED
    BY <2>1, <2>2, <2>3, <2>4, BeginStep
<1>. QED
  BY <1>1, <1>2, <1>3, <1>4 DEF Start

LEMMA StepKeeps ==
  ASSUME IInv, NEW c \in Callers, Step(c)
  PROVE  IInv'
BY CheckHashKeeps, WriteChunksKeeps, CorpusFailsKeeps, SaveRowKeeps, NextFileKeeps,
   NextGoneKeeps, NothingToDeleteKeeps, UnlinkFilesKeeps, MarkDeletedKeeps,
   ImportNoopKeeps, SyncIndexKeeps, PurgeDocKeeps, PurgeDoneKeeps, InsertKeeps,
   RaisingKeeps, BuildBM25Keeps, ListAllKeeps, WipeKeeps, FillKeeps, DropKeeps,
   DropFailsKeeps DEF Step

LEMMA NextKeeps == IInv /\ [Next]_vars => IInv'
<1>1. ASSUME IInv, Next
      PROVE  IInv'
  BY <1>1, StartKeeps, StepKeeps, StopKeeps DEF Next
<1>2. ASSUME IInv, UNCHANGED vars
      PROVE  IInv'
  BY <1>2 DEF IInv, vars, tableVars, indexVars, history, Typed, TableType, IndexType, HistoryType,
     LoneIsAlone, Lone, Active, CallInv, TableInv, RebuildInv, PurgeInv, CleanInv,
     SerialCallsKeepIndexExact, ChunkRows, Exact, Agree, NoRowOf
<1>. QED
  BY <1>1, <1>2

LEMMA InitInv == Init => IInv
<1>. SUFFICES ASSUME Init PROVE IInv
  OBVIOUS
<1>1. call = [c \in Callers |-> NoCall] /\ \A c \in Callers : call[c] = NoCall /\ ~ Active(c)
  BY NoCallType DEF Init, Active
<1>2. Typed
  BY <1>1, NoCallType DEF Init, Typed, TableType, Statuses, IndexType, HistoryType
<1>3. LoneIsAlone /\ \A c \in Callers : ~ Lone(c)
  BY <1>1 DEF LoneIsAlone, Lone
<1>4. SerialCallsKeepIndexExact
  <2>1. ChunkRows = {}
    BY RowParts DEF Init, ChunkRows
  <2>. QED
    BY <2>1 DEF Init, SerialCallsKeepIndexExact
<1>. QED
  BY <1>1, <1>2, <1>3, <1>4, NoCallType DEF IInv

LEMMA AlwaysInv == Spec => []IInv
BY InitInv, NextKeeps, PTL DEF Spec

(* Table, files, indexes and calls keep their types.                       *)
THEOREM DocumentsTypeCorrect == Spec => []TypeOK
<1>1. IInv => TypeOK
  BY DEF IInv, Typed, TypeOK, TableType, IndexType, HistoryType, Statuses, CallRecord
<1>. QED
  BY <1>1, AlwaysInv, PTL

(* Calls that run one after the other and do not fail leave both indexes   *)
(* exactly what a rebuild would make them (kb_indexer.py, the incremental  *)
(* sync of an ingestion, a deletion and an import).                        *)
THEOREM SerialCallsCorrect == Spec => []SerialCallsKeepIndexExact
<1>1. IInv => SerialCallsKeepIndexExact
  BY DEF IInv
<1>. QED
  BY <1>1, AlwaysInv, PTL

-----------------------------------------------------------------------------
(* What a call that succeeds leaves behind.                                *)

(* No call is ended by another's step.                                     *)
LEMMA OthersStay ==
  ASSUME IInv, NEW c \in Callers, NEW x \in Callers, x # c, Start(x) \/ Step(x)
  PROVE  call'[c].pc = call[c].pc
<1>1. call \in [Callers -> CallRecord] /\ call[c] \in CallRecord
  BY CallFacts
<1>2. ASSUME NEW r, Begin(x, r)
      PROVE  call'[c].pc = call[c].pc
  BY <1>1, <1>2 DEF Begin, CallRecord
<1>3. CASE Start(x)
  BY <1>2, <1>3 DEF Start, IngestFile, IngestPath, DeleteDocument, RebuildKB
<1>4. ASSUME NEW r, call' = [call EXCEPT ![x] = r]
      PROVE  call'[c] = call[c]
  BY <1>1, <1>4
<1>5. Succeed(x) \/ Fail(x) \/ Raise(x) => call'[c] = call[c]
  BY <1>1 DEF Succeed, Fail, Raise
<1>6. ASSUME NEW p, Goto(x, p)
      PROVE  call'[c] = call[c]
  BY <1>1, <1>6 DEF Goto
<1>7. CheckHash(x) \/ WriteChunks(x) \/ CorpusFails(x) \/ SaveRow(x) => call'[c] = call[c]
  BY <1>1, <1>5, <1>6 DEF CheckHash, WriteChunks, CorpusFails, SaveRow
<1>8. NextFile(x) \/ NextGone(x) => call'[c] = call[c]
  <2>1. ASSUME NEW T, call' = [call EXCEPT ![x].pc = "gone", ![x].todo = T]
        PROVE  call'[c] = call[c]
    BY <1>1, <2>1
  <2>2. NextFile(x) /\ call[x].todo = {} => call'[c] = call[c]
    <3>. DEFINE T == IF call[x].sync
                     THEN (Listed \cap Scanned) \ {d \in Scanned : call[x].tree[d] # None}
                     ELSE {}
    <3>1. NextFile(x) /\ call[x].todo = {} =>
            call' = [call EXCEPT ![x].pc = "gone", ![x].todo = T]
      BY DEF NextFile
    <3>. HIDE DEF T
    <3>. QED
      BY <2>1, <3>1
  <2>3. ASSUME NextFile(x), call[x].todo # {}
        PROVE  call'[c] = call[c]
    <3>1. PICK d \in call[x].todo :
            call' = [call EXCEPT ![x].pc = "check", ![x].doc = d,
                                 ![x].ver = call[x].tree[d], ![x].todo = @ \ {d}]
      BY <2>3 DEF NextFile
    <3>. QED
      BY <1>1, <3>1
  <2>4. NextGone(x) => call'[c] = call[c]
    BY <1>1 DEF NextGone
  <2>. QED
    BY <2>2, <2>3, <2>4
<1>9. NothingToDelete(x) \/ UnlinkFiles(x) \/ MarkDeleted(x) \/ ImportNoop(x) => call'[c] = call[c]
  BY <1>1, <1>5, <1>6 DEF NothingToDelete, UnlinkFiles, MarkDeleted, ImportNoop
<1>10. SyncIndex(x) \/ PurgeDoc(x) \/ PurgeFails(x) \/ PurgeDone(x) => call'[c] = call[c]
  BY <1>1, <1>5, <1>6 DEF SyncIndex, PurgeDoc, PurgeFails, PurgeDone
<1>11. Insert(x) \/ InsertFails(x) \/ BuildBM25(x) \/ BM25Fails(x) => call'[c] = call[c]
  BY <1>5, <1>6 DEF Insert, InsertFails, BuildBM25, BM25Fails
<1>12. ListAll(x) \/ Wipe(x) \/ WipeFails(x) \/ Fill(x) \/ FillFails(x) => call'[c] = call[c]
  BY <1>1, <1>5, <1>6 DEF ListAll, Wipe, WipeFails, Fill, FillFails
<1>13. Drop(x) \/ DropFails(x) => call'[c] = call[c]
  BY <1>5 DEF Drop, DropFails
<1>. QED
  BY <1>3, <1>7, <1>8, <1>9, <1>10, <1>11, <1>12, <1>13 DEF Step

Ends(c) == Active(c) /\ ~ Active(c)' /\ result' = "success"

(* The steps with which a call succeeds.                                   *)
LEMMA Enders ==
  ASSUME IInv, Next, NEW c \in Callers, Ends(c)
  PROVE  \/ BuildBM25(c) \/ Drop(c)
         \/ call[c].op = "delete" /\ NothingToDelete(c)
         \/ call[c].op = "import" /\ ImportNoop(c)
<1>1. /\ call \in [Callers -> CallRecord] /\ call[c] \in CallRecord /\ PlaceOf(call[c])
  BY CallFacts
<1>2. call[c].pc # "idle" /\ call'[c].pc = "idle" /\ result' = "success"
  BY DEF Ends, Active
<1>3. PICK x \in Callers : Start(x) \/ Step(x) \/ Stop(x)
  BY DEF Next
<1>4. ~ Stop(x)
  BY <1>2 DEF Stop
<1>5. x = c
  BY <1>2, <1>3, <1>4, OthersStay
<1>6. ~ Start(c)
  BY <1>2 DEF Start, IngestFile, IngestPath, DeleteDocument, RebuildKB, Begin, Active
<1>7. Step(c)
  BY <1>3, <1>4, <1>5, <1>6
<1>8. ~ Fail(c) /\ ~ Raise(c)
  BY <1>1, <1>2 DEF Fail, Raise, CallRecord
<1>9. ASSUME NEW p, Goto(c, p)
      PROVE  p = "idle"
  BY <1>1, <1>2, <1>9 DEF Goto, CallRecord
<1>10. ~ CheckHash(c) /\ ~ WriteChunks(c)
  BY <1>9 DEF CheckHash, WriteChunks, AfterUpsert
<1>11. ~ CorpusFails(c) /\ ~ SaveRow(c)
  BY <1>1, <1>2, <1>8 DEF CorpusFails, SaveRow, AfterUpsert, CallRecord
<1>12. ~ NextFile(c) /\ ~ NextGone(c)
  <2>1. ASSUME NEW T, call' = [call EXCEPT ![c].pc = "gone", ![c].todo = T]
        PROVE  FALSE
    BY <1>1, <1>2, <2>1 DEF CallRecord
  <2>2. ~ (NextFile(c) /\ call[c].todo = {})
    <3>. DEFINE T == IF call[c].sync
                     THEN (Listed \cap Scanned) \ {d \in Scanned : call[c].tree[d] # None}
                     ELSE {}
    <3>1. NextFile(c) /\ call[c].todo = {} =>
            call' = [call EXCEPT ![c].pc = "gone", ![c].todo = T]
      BY DEF NextFile
    <3>. HIDE DEF T
    <3>. QED
      BY <2>1, <3>1
  <2>3. ASSUME NextFile(c), call[c].todo # {}
        PROVE  FALSE
    <3>1. PICK d \in call[c].todo :
            call' = [call EXCEPT ![c].pc = "check", ![c].doc = d,
                                 ![c].ver = call[c].tree[d], ![c].todo = @ \ {d}]
      BY <2>3 DEF NextFile
    <3>. QED
      BY <1>1, <1>2, <3>1 DEF CallRecord
  <2>4. ASSUME NextGone(c)
        PROVE  FALSE
    <3>1. PICK d \in call[c].todo :
            call' = [call EXCEPT ![c].pc = "unlink", ![c].doc = d, ![c].todo = @ \ {d}]
      BY <2>4 DEF NextGone
    <3>. QED
      BY <1>1, <1>2, <3>1 DEF CallRecord
  <2>. QED
    BY <2>2, <2>3, <2>4
<1>13. NothingToDelete(c) => call[c].op = "delete"
  BY <1>9 DEF NothingToDelete
<1>14. ~ UnlinkFiles(c) /\ ~ MarkDeleted(c)
  BY <1>1, <1>2, <1>9 DEF UnlinkFiles, MarkDeleted, CallRecord
<1>15. ImportNoop(c) => call[c].op = "import"
  BY <1>1 DEF ImportNoop, PlaceOf
<1>16. ~ SyncIndex(c) /\ ~ PurgeDone(c)
  BY <1>1, <1>2, <1>9 DEF SyncIndex, PurgeDone, CallRecord
<1>17. ~ PurgeDoc(c)
  BY <1>1, <1>2 DEF PurgeDoc, CallRecord
<1>18. ~ PurgeFails(c) /\ ~ InsertFails(c) /\ ~ BM25Fails(c) /\ ~ WipeFails(c) /\ ~ FillFails(c)
       /\ ~ DropFails(c)
  BY <1>8 DEF PurgeFails, InsertFails, BM25Fails, WipeFails, FillFails, DropFails
<1>19. ~ Insert(c) /\ ~ ListAll(c)
  BY <1>9 DEF Insert, ListAll
<1>20. ~ Wipe(c) /\ ~ Fill(c)
  BY <1>1, <1>2 DEF Wipe, Fill, CallRecord
<1>. QED
  BY <1>7, <1>10, <1>11, <1>12, <1>13, <1>14, <1>15, <1>16, <1>17, <1>18, <1>19, <1>20 DEF Step

(* A call that was alone and has gone through the indexes leaves the BM25  *)
(* index as the table says.                                                *)
LEMMA IndexedEnd ==
  ASSUME IInv, NEW c \in Callers, call[c].alone, BuildBM25(c) \/ Drop(c)
  PROVE  /\ call[c].pc \in Indexing /\ TableInv(c) /\ PlaceOf(call[c])
         /\ ChunkRows' = ChunkRows /\ status' = status /\ file' = file
         /\ bm25' = ChunkRows
         /\ \/ milvus' = ChunkRows
            \/ call[c].refused /\ call[c].full /\ ChunkRows \subseteq milvus'
            \/ ~ call[c].full /\ call[c].pc = "bm25" /\ milvus' = milvus /\ PurgeInv(c)
<1>1. /\ PlaceOf(call[c]) /\ call[c] \in CallRecord
      /\ Lone(c) => TableInv(c) /\ RebuildInv(c) /\ PurgeInv(c)
  BY CallFacts
<1>2. call[c].pc \in {"bm25", "drop"} /\ UNCHANGED <<tableVars, file, combined>>
  BY DEF BuildBM25, Drop
<1>3. Lone(c) /\ call[c].pc \in Indexing
  BY <1>2 DEF Lone, Active, Indexing
<1>4. ChunkRows' = ChunkRows /\ status' = status /\ file' = file
  BY <1>2 DEF ChunkRows, tableVars
<1>5. CASE BuildBM25(c)
  <2>1. call[c].pc = "bm25" /\ bm25' = combined /\ milvus' = milvus /\ combined = ChunkRows
    BY <1>1, <1>3, <1>5 DEF BuildBM25, RebuildInv
  <2>2. call[c].full => milvus = ChunkRows \/ (call[c].refused /\ ChunkRows \subseteq milvus)
    BY <1>1, <1>3, <2>1 DEF RebuildInv
  <2>. QED
    BY <1>1, <1>3, <1>4, <2>1, <2>2
<1>6. CASE Drop(c)
  <2>1. ChunkRows = {} /\ bm25' = {} /\ milvus' = {}
    BY <1>1, <1>3, <1>6 DEF Drop, RebuildInv
  <2>. QED
    BY <1>1, <1>3, <1>4, <2>1
<1>. QED
  BY <1>5, <1>6

(* A rebuild that runs alone and succeeds leaves both indexes right,       *)
(* whatever raced or failed before (kb_indexer.py, rebuild_kb).            *)
THEOREM RebuildCorrect == Spec => RebuildRepairs
<1>1. ASSUME IInv, Next, NEW c \in Callers, SucceedsAlone(c, "rebuild")
      PROVE  /\ ChunkRows' \subseteq milvus' /\ bm25' = ChunkRows'
             /\ call[c].refused \/ milvus' = ChunkRows'
  <2>1. BuildBM25(c) \/ Drop(c)
    BY <1>1, Enders DEF SucceedsAlone, Ends
  <2>2. call[c].alone /\ call[c].op = "rebuild"
    BY <1>1 DEF SucceedsAlone
  <2>. QED
    BY <1>1, <2>1, <2>2, IndexedEnd DEF PlaceOf
<1>2. IInv /\ [Next]_vars =>
        [\A c \in Callers : SucceedsAlone(c, "rebuild") =>
           /\ ChunkRows' \subseteq milvus' /\ bm25' = ChunkRows'
           /\ call[c].refused \/ milvus' = ChunkRows']_vars
  BY <1>1
<1>. QED
  BY <1>2, AlwaysInv, PTL DEF Spec, RebuildRepairs

(* An ingestion that runs alone and succeeds makes its chunk file          *)
(* searchable in both indexes in place of what an active document had      *)
(* there (kb_admin.py, ingest_file; kb_indexer.py, sync_document_index).   *)
THEOREM IngestCorrect == Spec => IngestedIsSearchable
<1>. DEFINE Found(c) ==
       LET d == call[c].doc IN
       /\ status'[d] = "active" /\ bm25' = ChunkRows'
       /\ file'[d] # None => <<d, file'[d]>> \in milvus'
       /\ call[c].was = "active" /\ ~call[c].refused =>
            \A v \in Versions : <<d, v>> \in milvus' => v = file'[d]
<1>1. ASSUME IInv, Next, NEW c \in Callers, SucceedsAlone(c, "ingest")
      PROVE  Found(c)
  <2>. DEFINE d == call[c].doc
  <2>1. BuildBM25(c) \/ Drop(c)
    BY <1>1, Enders DEF SucceedsAlone, Ends
  <2>2. call[c].alone /\ call[c].op = "ingest"
    BY <1>1 DEF SucceedsAlone
  <2>3. /\ call[c].pc \in Indexing /\ TableInv(c) /\ PlaceOf(call[c])
        /\ ChunkRows' = ChunkRows /\ status' = status /\ file' = file
        /\ bm25' = ChunkRows
        /\ \/ milvus' = ChunkRows
           \/ call[c].refused /\ ChunkRows \subseteq milvus'
           \/ ~ call[c].full /\ call[c].pc = "bm25" /\ milvus' = milvus /\ PurgeInv(c)
    BY <1>1, <2>1, <2>2, IndexedEnd
  <2>4. status[d] = "active" /\ d \in Docs
    BY <2>2, <2>3 DEF TableInv, PlaceOf
  <2>5. file[d] # None => <<d, file[d]>> \in ChunkRows
    BY <1>1, <2>4, CallFacts, ChunkRowsAre DEF TableType
  <2>6. \A v \in Versions : <<d, v>> \in ChunkRows => v = file[d]
    BY ChunkRowsAre
  <2>7. file[d] # None => <<d, file[d]>> \in milvus'
    BY <2>2, <2>3, <2>5 DEF PurgeInv
  <2>8. call[c].was = "active" /\ ~ call[c].refused =>
          \A v \in Versions : <<d, v>> \in milvus' => v = file[d]
    BY <2>2, <2>3, <2>6 DEF PurgeInv
  <2>. QED
    BY <2>3, <2>4, <2>7, <2>8
<1>2. IInv /\ [Next]_vars => [\A c \in Callers : SucceedsAlone(c, "ingest") => Found(c)]_vars
  BY <1>1
<1>. QED
  BY <1>2, AlwaysInv, PTL DEF Spec, IngestedIsSearchable

(* A deletion that runs alone, finds its document and succeeds leaves none *)
(* of its rows in either index (kb_indexer.py,                             *)
(* sync_deleted_document_index).                                           *)
THEOREM DeleteCorrect == Spec => DeletedIsGone
<1>. DEFINE Gone(c) == \A v \in Versions : <<call[c].doc, v>> \notin milvus' \cup bm25'
<1>1. ASSUME IInv, Next, NEW c \in Callers, SucceedsAlone(c, "delete"), call[c].pc # "unlink",
             ~ call[c].refused
      PROVE  Gone(c)
  <2>. DEFINE d == call[c].doc
  <2>1. BuildBM25(c) \/ Drop(c)
    BY <1>1, Enders DEF SucceedsAlone, Ends, NothingToDelete
  <2>2. call[c].alone /\ call[c].op = "delete"
    BY <1>1 DEF SucceedsAlone
  <2>3. /\ call[c].pc \in Indexing /\ TableInv(c) /\ PlaceOf(call[c])
        /\ bm25' = ChunkRows
        /\ \/ milvus' = ChunkRows
           \/ ~ call[c].full /\ call[c].pc = "bm25" /\ milvus' = milvus /\ PurgeInv(c)
    BY <1>1, <2>1, <2>2, IndexedEnd
  <2>4. status[d] = "deleted"
    BY <2>2, <2>3 DEF TableInv, Indexing
  <2>5. \A v \in Versions : <<d, v>> \notin ChunkRows
    BY <2>4, ChunkRowsAre
  <2>6. ~ call[c].full /\ call[c].pc = "bm25" /\ PurgeInv(c) => NoRowOf(d)
    BY <2>2, <2>3 DEF PurgeInv, PlaceOf
  <2>. QED
    BY <2>3, <2>5, <2>6 DEF NoRowOf
<1>2. IInv /\ [Next]_vars =>
        [\A c \in Callers :
           SucceedsAlone(c, "delete") /\ call[c].pc # "unlink" /\ ~call[c].refused => Gone(c)]_vars
  BY <1>1
<1>. QED
  BY <1>2, AlwaysInv, PTL DEF Spec, DeletedIsGone

=============================================================================
