----------------------------- MODULE Ingestion ------------------------------
(***************************************************************************)
(* From a file to the chunks of its document: KBAdmin._upsert_file with    *)
(* the corpus servers it calls (corpus.py, biz_corpus.py) and the helpers  *)
(* of kb_artifacts.py, kb_files.py, write_profile.py, chunk_defaults.py.   *)
(*                                                                         *)
(* A text is a sequence of units: paragraphs, or the cells of a row.       *)
(* <<n, i>> is unit i of the n-th content ingested, and n its hash.  Which *)
(* tools are installed and can read the file is a choice made once per     *)
(* file.  Content that is there already is KBDocuments'; here it is new.   *)
(* Left out: titles, images, the offsets of chunks, the order of units.    *)
(***************************************************************************)
EXTENDS Integers, Sequences, FiniteSets, SequencesExt, Selections

CONSTANTS
  Documents,    \* source URIs of the documents
  FileTypes,     \* of the files that are ingested
  Layouts,      \* what the units of a file may be, in order: Kind of unit
  ChunkSize,    \* of each write profile, in units
  ChunkOverlap,
  MaxContents   \* bound: contents ingested

UnitKinds     == {"text", "box", "blank"} \* box: in a text box of a Word file
WriteProfiles == DOMAIN ChunkSize         \* select_write_profile, by the file's name

ASSUME IngestionAssumption ==
  /\ \A layout \in Layouts : layout \in Seq(UnitKinds)
  /\ DOMAIN ChunkOverlap = WriteProfiles /\ MaxContents \in Nat
  /\ \A p \in WriteProfiles : ChunkSize[p] \in Nat \ {0} /\ ChunkOverlap[p] \in Nat

VARIABLES
  suffix,     \* of each document's file
  contents,   \* how many contents have been ingested, or tried
  inHand,     \* the file _upsert_file has in hand
  corpusRows, \* workspace/corpus/documents/<doc_key>.jsonl
  chunkRows,  \* workspace/chunks/documents/<doc_key>.jsonl
  markdown,   \* workspace/mineru/<doc_key>/<stem>/auto/<stem>.md: its text
  record,     \* the row of documents
  stale       \* history: documents whose chunks are of the Markdown of an earlier file

ingestionVars == <<suffix, contents, inHand, corpusRows, chunkRows, markdown, record, stale>>

NoRows == <<>>
Unread == << <<0, 0>> >> \* None of Python; a file that is not there: the hash of none is 0
NoFile == [stage |-> "none", doc |-> "none", hash |-> 0, layout |-> NoRows, able |-> {},
           broken |-> 0, profile |-> "none", temp |-> FALSE]

IngestionInit ==
  /\ suffix \in [Documents -> UNION {FileTypes[d] : d \in Documents}]
  /\ \A d \in Documents : suffix[d] \in FileTypes[d]
  /\ contents = 0 /\ inHand = NoFile
  /\ corpusRows = [d \in Documents |-> NoRows] /\ chunkRows = [d \in Documents |-> NoRows]
  /\ markdown = [d \in Documents |-> Unread]
  /\ record = [d \in Documents |-> [status |-> "none", hash |-> 0]]
  /\ stale = {}

-----------------------------------------------------------------------------
(* What tools there are for a suffix.                                      *)

Excel  == {".xls", ".xlsx"}
Plain  == {".txt", ".md"}
Pages  == {".xps", ".oxps", ".epub", ".mobi", ".fb2"}
Legacy == {".doc", ".wps"}
Texts  == Plain \cup Pages \cup Legacy \cup {".docx", ".pdf"}

(* office: LibreOffice converts the file; extractor: antiword or catdoc    *)
(* prints it; docx, zip: python-docx or the zip reader opens it, converted *)
(* or not; reader: charset_normalizer or pymupdf; mineru: it exits with 0; *)
(* output: and has written the markdown; chunker: corpus_chunk succeeds.   *)
Tools(s) ==
  {"chunker"} \cup CASE s \in Excel          -> {}
                     [] s = ".pdf"           -> {"mineru", "output"}
                     [] s \in Legacy \cup {".docx"}
                        -> {"office", "extractor", "textutil", "docx", "zip"}
                     [] OTHER                -> {"reader"}

Ext   == suffix[inHand.doc]
Can(t) == t \in inHand.able

Places == DOMAIN inHand.layout
Unit(i) == <<inHand.hash, i>>

(* The places of these kinds.  clean_text and reflow_paragraphs join lines *)
(* and drop those that are blank.                                          *)
Reflowed(kinds) == {i \in Places : inHand.layout[i] \in kinds \ {"blank"}}

TextOf(kinds) == Picked([i \in Places |-> Unit(i)], Reflowed(kinds))

-----------------------------------------------------------------------------
(* The readers.                                                            *)

(* The zip reader sees the text boxes as well. *)
ZipText == IF Can("zip") THEN TextOf({"text", "box"}) ELSE Unread

(* _read_docx_text: what stands outside of paragraphs and tables is not    *)
(* seen by python-docx, and the zip reader is only asked if that raises.   *)
DocxText == IF Can("docx") THEN TextOf({"text"}) ELSE ZipText

(* An extractor that prints nothing counts as none. *)
ExtractedText ==
  IF Can("extractor") /\ TextOf({"text", "box"}) # NoRows THEN TextOf({"text", "box"}) ELSE Unread

(* What a converter makes of the file is opened as a .docx. *)
OfficeConverts   == Can("office")
TextutilConverts == Can("textutil")

(* _read_via_office_convert *)
Converted ==
  IF OfficeConverts THEN DocxText
  ELSE IF ExtractedText # Unread THEN ExtractedText
  ELSE IF TextutilConverts THEN DocxText ELSE Unread

(* process_one_file of build_text_corpus, for a single file.  *)
ReadText ==
  CASE Ext = ".docx"   -> IF Converted = Unread THEN DocxText ELSE Converted
    [] Ext \in Legacy  -> Converted
    [] OTHER           -> IF Can("reader") THEN TextOf({"text", "box"}) ELSE NoRows

-----------------------------------------------------------------------------
(* Rows.                                                                   *)

RawRow(id, text) == [id |-> id, text |-> text, doc |-> "none", hash |-> 0]

(* build_excel_corpus: the rows before one that raises stay, and the error *)
(* is only logged.                                                         *)
ExcelRows ==
  Picked([i \in Places |-> RawRow(i, <<Unit(i)>>)],
         {i \in Reflowed({"text", "box"}) : i < inHand.broken})

(* build_text_corpus: a text that is empty is no row. *)
TextRows == IF ReadText = NoRows THEN NoRows ELSE <<RawRow("stem", ReadText)>>

(* mineru_parse.  The markdown is that of the last run that wrote one for  *)
(* a file of this name; an event's file has a name of its own.             *)
Parsed == IF Can("output") THEN TextOf({"text", "box"})
          ELSE IF inHand.temp THEN Unread ELSE markdown[inHand.doc]

(* build_mineru_corpus *)
MineruRows == IF Parsed = Unread THEN NoRows ELSE <<RawRow("stem", Parsed)>>

(* normalize_corpus_rows: a row without contents is dropped. *)
NormalizedCorpus(rows) ==
  LET full == Picked(rows, {i \in DOMAIN rows : rows[i].text # NoRows})
  IN [i \in DOMAIN full |-> [full[i] EXCEPT !.id = <<inHand.doc, @>>,
                                           !.doc = inHand.doc, !.hash = inHand.hash]]

(* build_chunk_pipeline_overrides *)
Settings == [size |-> ChunkSize[inHand.profile], overlap |-> ChunkOverlap[inHand.profile]]

(* chunk_documents: overlapping windows of a row, numbered over all rows. *)
Overlap == IF Settings.overlap >= Settings.size THEN Settings.size \div 4 ELSE Settings.overlap

Windows(text) ==
  LET size == Settings.size
      step == size - Overlap
      rest == IF Len(text) <= size THEN 0 ELSE Len(text) - size
      last == (rest + step - 1) \div step
  IN [w \in 1..(last + 1) |->
        SubSeq(text, (w - 1) * step + 1,
               IF (w - 1) * step + size < Len(text) THEN (w - 1) * step + size ELSE Len(text))]

RawChunks(rows) ==
  LET pieces == FlattenSeq([i \in DOMAIN rows |->
                  LET windows == Windows(rows[i].text)
                  IN [w \in DOMAIN windows |-> [rows[i] EXCEPT !.text = windows[w]]]])
  IN [c \in DOMAIN pieces |-> [pieces[c] EXCEPT !.id = <<c - 1>>]]

(* build_passthrough_chunks: a row is a chunk. *)
PassthroughChunks(rows) ==
  [c \in DOMAIN rows |-> [rows[c] EXCEPT !.id = <<inHand.doc, "chunk", c - 1>>]]

(* normalize_chunk_rows; what the corpus row says of its source stays. *)
NormalizedChunks(rows) ==
  [c \in DOMAIN rows |-> [rows[c] EXCEPT !.id = <<inHand.doc, "chunk">> \o @]]

-----------------------------------------------------------------------------
(* The steps of _upsert_file.                                              *)

TakeFile(d, layout, able, broken, profile, temp) ==
  /\ inHand.stage \in {"none", "saved", "failed"} /\ contents < MaxContents
  /\ contents' = contents + 1
  /\ inHand' = [stage |-> "build", doc |-> d, hash |-> contents + 1, layout |-> layout,
              able |-> able, broken |-> broken, profile |-> profile, temp |-> temp]
  /\ UNCHANGED <<suffix, corpusRows, chunkRows, markdown, record, stale>>

(* _record_failed_file. *)
FileFails ==
  /\ inHand' = [inHand EXCEPT !.stage = "failed"]
  /\ record' = [record EXCEPT ![inHand.doc] = [status |-> "failed", hash |-> inHand.hash]]
  /\ UNCHANGED <<suffix, contents, chunkRows, stale>>

(* Mutant: a build without rows leaves the file of the last one, which is  *)
(* read back. *)
NormalizeLeftovers(rows) ==
  LET normal == NormalizedCorpus(IF rows = NoRows THEN corpusRows[inHand.doc] ELSE rows)
  IN IF normal = NoRows
     THEN FileFails /\ corpusRows' = [corpusRows EXCEPT ![inHand.doc] = rows]
     ELSE /\ inHand' = [inHand EXCEPT !.stage = "chunk"]
          /\ corpusRows' = [corpusRows EXCEPT ![inHand.doc] = normal]
          /\ UNCHANGED <<suffix, contents, chunkRows, record, stale>>

(* The rows are written, read back, normalized and written again; without  *)
(* any the document fails, and the raw rows stay.                          *)
Normalize(rows) ==
  LET normal == NormalizedCorpus(rows)
  IN IF normal = NoRows
     THEN FileFails /\ corpusRows' = [corpusRows EXCEPT ![inHand.doc] = rows]
     ELSE /\ inHand' = [inHand EXCEPT !.stage = "chunk"]
          /\ corpusRows' = [corpusRows EXCEPT ![inHand.doc] = normal]
          /\ UNCHANGED <<suffix, contents, chunkRows, record, stale>>

(* _build_raw_corpus: by the suffix, one of three pipelines. *)
BuildExcel ==
  /\ inHand.stage = "build" /\ Ext \in Excel
  /\ Normalize(ExcelRows)
  /\ UNCHANGED markdown

(* select_write_profile prefers MinerU for every .pdf: there is no other way. *)
BuildMineru ==
  /\ inHand.stage = "build" /\ Ext = ".pdf"
  /\ IF Can("mineru")
     THEN /\ Normalize(MineruRows)
          /\ markdown' = [markdown EXCEPT ![inHand.doc] = IF inHand.temp THEN @ ELSE Parsed]
     ELSE FileFails /\ UNCHANGED <<corpusRows, markdown>>

BuildText ==
  /\ inHand.stage = "build" /\ Ext \in Texts \ {".pdf"}
  /\ IF ReadText = Unread THEN FileFails /\ UNCHANGED corpusRows ELSE Normalize(TextRows)
  /\ UNCHANGED markdown

(* The chunker reads the rows just written; if it fails, they become the chunks. *)
Chunked(rows) == IF Can("chunker") THEN RawChunks(rows) ELSE PassthroughChunks(rows)

(* MinerU has ended well and written nothing: if an earlier run for a file *)
(* of this name has, its text is taken for the file's (corpus.py:873-889). *)
Outdated == Ext = ".pdf" /\ Can("mineru") /\ ~Can("output")

ChunkDocument ==
  /\ inHand.stage = "chunk"
  /\ chunkRows' = [chunkRows EXCEPT ![inHand.doc] = NormalizedChunks(Chunked(corpusRows[inHand.doc]))]
  /\ record' = [record EXCEPT ![inHand.doc] = [status |-> "active", hash |-> inHand.hash]]
  /\ inHand' = [inHand EXCEPT !.stage = "saved"]
  /\ stale' = IF Outdated THEN stale \cup {inHand.doc} ELSE stale \ {inHand.doc}
  /\ UNCHANGED <<suffix, contents, corpusRows, markdown>>

IngestionNext ==
  \/ \E d \in Documents, layout \in Layouts, profile \in WriteProfiles :
       \E able \in SUBSET Tools(suffix[d]) :
       \E broken \in IF suffix[d] \in Excel THEN 1..(Len(layout) + 1) ELSE {0} :
       \E temp \in IF suffix[d] = ".pdf" THEN BOOLEAN ELSE {FALSE} :
         TakeFile(d, layout, able, broken, profile, temp)
  \/ BuildExcel \/ BuildMineru \/ BuildText \/ ChunkDocument

IngestionSpec == IngestionInit /\ [][IngestionNext]_ingestionVars

-----------------------------------------------------------------------------
(* The text of the file that does not get into the chunks: the rows of a   *)
(* sheet from one that raises on (biz_corpus.py:64 logs it), and what      *)
(* stands in text boxes where python-docx opens the file and no extractor  *)
(* has been asked (corpus.py:126-139).                                     *)
Unseen ==
  IF Ext \in Excel THEN {i \in Places : i >= inHand.broken}
  ELSE IF Ext \in Legacy \cup {".docx"} /\ Can("docx")
          /\ ~(Can("extractor") /\ ~Can("office"))
  THEN {i \in Places : inHand.layout[i] = "box"} ELSE {}

(* One of the readers that are asked can read the file.  A Word file that  *)
(* LibreOffice has converted is not given to an extractor.                 *)
Readable ==
  LET opens == inHand.able \cap {"docx", "zip"} # {}
  IN CASE Ext \in Excel    -> TRUE
       [] Ext = ".pdf"     -> Can("mineru") /\ Can("output")
       [] Ext = ".docx"    -> opens \/ (Can("extractor") /\ ~Can("office"))
       [] Ext \in Legacy   -> \/ opens /\ (Can("office") \/ Can("textutil"))
                              \/ Can("extractor") /\ ~Can("office")
       [] OTHER            -> Can("reader")

UnitsOf(d) == UNION {ToSet(chunkRows[d][c].text) : c \in DOMAIN chunkRows[d]}

(* The text of all chunks of an active document is of the content recorded *)
(* for it, and the chunks say so.                                          *)
HoldsItsContent(d) ==
  record[d].status = "active" =>
    /\ chunkRows[d] # NoRows /\ \A unit \in UnitsOf(d) : unit[1] = record[d].hash
    /\ \A c \in DOMAIN chunkRows[d] :
         chunkRows[d][c].doc = d /\ chunkRows[d][c].hash = record[d].hash

(* Whatever tools there are, and whatever has failed before: a file that a *)
(* reader can read becomes chunks that hold all of its text, but for what  *)
(* Unseen names, and nothing else; it fails only if no reader can read it  *)
(* or there is no text; and a document stays active with the text of the   *)
(* content recorded.  Both with one exception, the stale documents: their  *)
(* chunks are the old Markdown that MinerU left (ActiveHoldsItsContent).   *)
(* No two chunks, of whatever documents, share an id (the primary key in   *)
(* Milvus).                                                                *)
FileBecomesChunks ==
  LET texts == {i \in Places : inHand.layout[i] # "blank"} \ Unseen
  IN /\ inHand.stage = "saved" /\ inHand.doc \notin stale =>
          UnitsOf(inHand.doc) = {Unit(i) : i \in texts}
     /\ inHand.stage = "failed" => ~Readable \/ texts = {}
     /\ \A d \in Documents \ stale : HoldsItsContent(d)
     /\ \A d, e \in Documents : \A b \in DOMAIN chunkRows[d], c \in DOMAIN chunkRows[e] :
          chunkRows[d][b].id = chunkRows[e][c].id => d = e /\ b = c

(* "Dragging a file into the watched directory triggers its ingestion, its *)
(* update or its deletion" (README.md:40, in Chinese): after an update the *)
(* document is active with the text of the content recorded, without the   *)
(* exception.                                                              *)
ActiveHoldsItsContent == \A d \in Documents : HoldsItsContent(d)
=============================================================================
