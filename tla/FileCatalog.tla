---------------------------- MODULE FileCatalog ----------------------------
(***************************************************************************)
(* file_service's catalogue of files, fed by two writers: the HTTP API and *)
(* a watcher that mirrors one knowledge base's directory below watch_root. *)
(* The watcher hears of changes from awatch, compares the whole directory  *)
(* with the catalogue at every start and every reconcile interval, and     *)
(* registers the KB in BizRAG or deletes it as its directory comes and     *)
(* goes.                                                                   *)
(*                                                                         *)
(* Everything runs on one asyncio loop and the watcher's passes never      *)
(* await, so API calls fall between passes.  The disk, though, changes at  *)
(* any time.                                                               *)
(*                                                                         *)
(* A write is four steps: the blob is saved, then the row, the version and *)
(* the event are stored.  The connection is opened with                    *)
(* isolation_level=Null, so each statement commits by itself and           *)
(* "with self._conn" joins nothing: a crash or a failing statement leaves  *)
(* the steps before it.  Outbox has the event's further way.  Left out:    *)
(* tenants, names, types, PATCH (which changes only those), the default KB.*)
(***************************************************************************)
EXTENDS Naturals, FiniteSets

CONSTANTS
  Watched,     (* files of the watched directory                             *)
  Uploaded,    (* files of the same KB that the API creates                  *)
  ApiFiles,    (* the files API callers update and delete                    *)
  Contents,    (* the contents a file can have, told apart by their hash     *)
  Empty,       (* the content of a file of no bytes                          *)
  Null,        (* no file, no content                                        *)
  Callers,     (* concurrent callers of the API                              *)
  Returning,   (* the watched files that may come back after their removal   *)
  LoseAnswers, (* TRUE: a request to BizRAG may fail after it was carried out*)
  MaxEdits,    (* bound on changes of the disk                               *)
  MaxCalls,    (* bound on API calls                                         *)
  MaxFailures, (* bound on failed requests to BizRAG and failed statements   *)
  MaxKills   (* bound on kills                                           *)

Files == Watched \cup Uploaded

ASSUME CatalogAssumption ==
  /\ Watched \cap Uploaded = {} /\ ApiFiles \subseteq Files
  /\ Empty \notin Contents /\ Null \notin Files \cup Contents \cup {Empty}
  /\ Returning \subseteq Watched /\ LoseAnswers \in BOOLEAN
  /\ {MaxEdits, MaxCalls, MaxFailures, MaxKills} \subseteq Nat

VARIABLES
  dir, disk, written,        (* the directory, its files' contents, and the  *)
                             (* files that have ever been there (history)    *)
  row, latest, event,        (* per file: status, latest version's hash, and *)
                             (* the type of its latest event                 *)
  orphans,                   (* files with a stored blob no version refers to*)
  hollow,                    (* files whose latest version has lost its blob *)
  hand,                      (* the write that is being made, or none        *)
  torn,                      (* writes cut short: file, step, how (history)  *)
  remote,                    (* the KB exists in BizRAG                      *)
  known, gone,               (* the registrar's caches: registered, deleted  *)
  up,                        (* file_service is running                      *)
  pending, handling,         (* changes awatch has seen; those in hand       *)
  pass, listed, expected,    (* the full comparison: its stage, the files it *)
                             (* has listed, those it has found               *)
  rootSeen, rootKnown,       (* the directory as this pass, and the last saw *)
  call,                      (* per caller: the file it is sending content of*)
  edits, calls, failures, kills

diskVars     == <<dir, disk, written>>
storeVars    == <<row, latest, event, orphans, hollow, torn>>
fileVars     == <<storeVars, hand>>
kbVars       == <<remote, known, gone>>
passVars     == <<pass, listed, expected, rootSeen, rootKnown>>
boundVars    == <<edits, calls, failures, kills>>
catalogVars  == <<diskVars, fileVars, kbVars, up, pending, handling, passVars, call, boundVars>>

Steps == {"blob", "row", "version", "event"}

(* A write, and the step that comes next; of a deletion only the event is  *)
(* ever left.                                                              *)
Writes == [file : Files, content : Contents \cup {Null},
           type : {"created", "updated", "deleted"}, step : Steps]

Changes == (Watched \X {"added", "deleted"}) \cup {<<Null, "added">>}

CatalogTypeOK ==
  /\ dir \in BOOLEAN
  /\ disk \in [Watched -> Contents \cup {Empty, Null}] /\ written \subseteq Watched
  /\ row \in [Files -> {"none", "active", "deleted"}]
  /\ latest \in [Files -> Contents \cup {Null}]
  /\ event \in [Files -> {"none", "created", "updated", "deleted"}]
  /\ orphans \subseteq Files /\ hollow \subseteq Files
  /\ hand \subseteq Writes /\ torn \subseteq Files \X Steps \X {"crash", "error"}
  /\ {remote, known, gone, up, rootSeen, rootKnown} \subseteq BOOLEAN
  /\ pending \subseteq Changes /\ handling \subseteq Changes
  /\ pass \in {"off", "list", "scan", "missing", "cleanup"}
  /\ listed \subseteq Watched /\ expected \subseteq Watched
  /\ call \in [Callers -> ApiFiles \cup {Null}]
  /\ edits \in 0..MaxEdits /\ calls \in 0..MaxCalls /\ failures \in 0..MaxFailures
  /\ kills \in 0..MaxKills

OnDisk == {f \in Watched : disk[f] # Null}

CatalogInit ==
  /\ dir = FALSE /\ disk = [f \in Watched |-> Null] /\ written = {}
  /\ row = [f \in Files |-> "none"]
  /\ latest = [f \in Files |-> Null]
  /\ event = [f \in Files |-> "none"]
  /\ orphans = {} /\ hollow = {} /\ hand = {} /\ torn = {}
  /\ remote = FALSE /\ known = FALSE /\ gone = FALSE
  /\ up = TRUE /\ pending = {} /\ handling = {}
  /\ pass = "off" /\ listed = {} /\ expected = {}
  /\ rootSeen = FALSE /\ rootKnown = FALSE
  /\ call = [c \in Callers |-> Null]
  /\ edits = 0 /\ calls = 0 /\ failures = 0 /\ kills = 0

(* No write is being made: nothing else of the process runs during one. *)
Free == up /\ hand = {}

Idle == Free /\ pass = "off" /\ handling = {}

(* A request to BizRAG fails; it may have been carried out all the same. *)
RequestFails(outcome) ==
  /\ failures < MaxFailures /\ failures' = failures + 1
  /\ remote' \in IF LoseAnswers THEN {remote, outcome} ELSE {remote}
  /\ UNCHANGED <<known, gone, edits, calls, kills>>

-----------------------------------------------------------------------------
(* The disk.  awatch hears of a change, or not: it is down, or the mount   *)
(* does not tell.                                                          *)
Edit(changes) ==
  /\ edits < MaxEdits /\ edits' = edits + 1
  /\ \E heard \in {{}, changes} : pending' = IF up THEN pending \cup heard ELSE pending
  /\ UNCHANGED <<fileVars, kbVars, up, handling, passVars, call, calls, failures, kills>>

MakeDir == ~ dir /\ dir' = TRUE /\ UNCHANGED <<disk, written>> /\ Edit({<<Null, "added">>})

WriteFile(f, c) ==
  /\ dir /\ disk[f] # c
  /\ disk[f] = Null /\ f \notin Returning => f \notin written
  /\ disk' = [disk EXCEPT ![f] = c]
  /\ written' = written \cup {f}
  /\ UNCHANGED dir
  /\ Edit({<<f, "added">>})

RemoveFile(f) ==
  /\ disk[f] # Null
  /\ disk' = [disk EXCEPT ![f] = Null]
  /\ UNCHANGED <<dir, written>>
  /\ Edit({<<f, "deleted">>})

RemoveDir ==
  /\ dir /\ dir' = FALSE
  /\ disk' = [f \in Watched |-> Null] /\ UNCHANGED written
  /\ Edit(OnDisk \X {"deleted"})

-----------------------------------------------------------------------------
(* The catalogue's writes: save_bytes, then create_file, append_version or *)
(* mark_deleted, one statement at a time.                                  *)

(* A new version of f: its blob comes first. *)
BeginWrite(f, c, type) ==
  /\ hand' = {[file |-> f, content |-> c, type |-> type, step |-> "blob"]}
  /\ UNCHANGED storeVars

(* mark_deleted begins with the row. *)
MarkDeleted(f) ==
  /\ row' = [row EXCEPT ![f] = "deleted"]
  /\ hand' = {[file |-> f, content |-> Null, type |-> "deleted", step |-> "event"]}
  /\ UNCHANGED <<latest, event, orphans, hollow, torn>>

Unwritten == <<diskVars, kbVars, up, pending, handling, call>>

WriteBlob(w) ==
  /\ w.step = "blob" /\ hand' = {[w EXCEPT !.step = "row"]}
  /\ UNCHANGED <<storeVars, Unwritten, passVars, boundVars>>

WriteRow(w) ==
  /\ w.step = "row" /\ hand' = {[w EXCEPT !.step = "version"]}
  /\ row' = [row EXCEPT ![w.file] = "active"]
  /\ UNCHANGED <<latest, event, orphans, hollow, torn, Unwritten, passVars, boundVars>>

WriteVersion(w) ==
  /\ w.step = "version" /\ hand' = {[w EXCEPT !.step = "event"]}
  /\ latest' = [latest EXCEPT ![w.file] = w.content]
  /\ hollow' = hollow \ {w.file}
  /\ UNCHANGED <<row, event, orphans, torn, Unwritten, passVars, boundVars>>

WriteEvent(w) ==
  /\ w.step = "event" /\ hand' = {}
  /\ event' = [event EXCEPT ![w.file] = w.type]
  /\ UNCHANGED <<row, latest, orphans, hollow, torn, Unwritten, passVars, boundVars>>

StatementFails ==
  /\ failures < MaxFailures /\ failures' = failures + 1
  /\ UNCHANGED <<edits, calls, kills>>

(* A write ends early.  Without its version, a blob is an orphan. *)
CutShort(w, how, orphaned) ==
  /\ hand' = {} /\ torn' = torn \cup {<<w.file, w.step, how>>}
  /\ orphans' = IF orphaned THEN orphans \cup {w.file} ELSE orphans
  /\ UNCHANGED <<row, latest, event>>

(* Mutant: the blob of a failed write stays. *)
WriteFailsKeepBlob(w) ==
  /\ StatementFails
  /\ CutShort(w, "error", w.step # "event")
  /\ UNCHANGED <<hollow, Unwritten, passVars>>

(* A step fails.  A blob half saved stays; a later failure deletes the     *)
(* blob, even if its version has been stored.  A failing deletion ends the *)
(* comparison it is part of; a failing upsert only that of its file.       *)
WriteFails(w) ==
  /\ StatementFails
  /\ CutShort(w, "error", w.step = "blob")
  /\ hollow' = IF w.step = "event" /\ w.type # "deleted" THEN hollow \cup {w.file} ELSE hollow
  /\ pass' = IF pass = "missing" THEN "off" ELSE pass
  /\ UNCHANGED <<Unwritten, listed, expected, rootSeen, rootKnown>>

-----------------------------------------------------------------------------
(* The registrar.                                                          *)

(* ensure_registered, when it returns: cached, or asked for and granted. *)
EnsureRegistered ==
  IF known THEN UNCHANGED <<kbVars, boundVars>>
  ELSE /\ remote' = TRUE /\ known' = TRUE /\ gone' = FALSE
       /\ UNCHANGED boundVars

(* ... and when it raises. *)
RegisterFails == ~ known /\ RequestFails(TRUE)

(* Mutant: the cache of registrations is left as it is. *)
EnsureDeletedKeepKnown ==
  IF gone THEN UNCHANGED <<kbVars, boundVars>>
  ELSE \/ remote' = FALSE /\ gone' = TRUE /\ UNCHANGED <<known, boundVars>>
       \/ RequestFails(FALSE)

(* ensure_deleted; its caller logs an exception and goes on. *)
EnsureDeleted ==
  IF gone THEN UNCHANGED <<kbVars, boundVars>>
  ELSE \/ remote' = FALSE /\ known' = FALSE /\ gone' = TRUE /\ UNCHANGED boundVars
       \/ RequestFails(FALSE)

-----------------------------------------------------------------------------
(* The watcher's handlers.                                                 *)

(* _handle_upsert.  The blob is saved before the second look at the latest *)
(* version: a deleted file whose content has not changed stays deleted,    *)
(* and its new blob belongs to no version.                                 *)
Upsert(f) ==
  IF disk[f] = Null THEN UNCHANGED <<fileVars, kbVars, boundVars>>
  ELSE \/ RegisterFails /\ UNCHANGED fileVars
       \/ /\ EnsureRegistered
          /\ IF disk[f] = Empty \/ (row[f] = "active" /\ latest[f] = disk[f])
             THEN UNCHANGED fileVars
             ELSE IF row[f] = "deleted" /\ latest[f] = disk[f]
             THEN orphans' = orphans \cup {f} /\ UNCHANGED <<row, latest, event, hollow, torn, hand>>
             ELSE BeginWrite(f, disk[f], IF row[f] = "active" THEN "updated" ELSE "created")

(* awatch hands over what has gathered, as a set. *)
TakeChanges ==
  /\ Idle /\ pending # {}
  /\ handling' = pending
  /\ pending' = {}
  /\ UNCHANGED <<diskVars, fileVars, kbVars, up, passVars, call, boundVars>>

HandleAdded(f) ==
  /\ Free /\ <<f, "added">> \in handling
  /\ Upsert(f)
  /\ handling' = handling \ {<<f, "added">>}
  /\ UNCHANGED <<diskVars, up, pending, passVars, call>>

(* A row that has no version is passed over by every deletion. *)
Deletable(f) == row[f] = "active" /\ latest[f] # Null

(* _handle_deleted asks the catalogue, not the disk. *)
HandleDeleted(f) ==
  /\ Free /\ <<f, "deleted">> \in handling
  /\ IF Deletable(f) THEN MarkDeleted(f) ELSE UNCHANGED fileVars
  /\ handling' = handling \ {<<f, "deleted">>}
  /\ UNCHANGED <<diskVars, kbVars, up, pending, passVars, call, boundVars>>

(* _handle_directory_upsert: the KB, then every file below. *)
HandleDirectory ==
  /\ Free /\ <<Null, "added">> \in handling
  /\ \/ /\ dir
        /\ EnsureRegistered
        /\ rootKnown' = TRUE
        /\ handling' = (handling \ {<<Null, "added">>}) \cup (OnDisk \X {"added"})
     \/ /\ dir
        /\ RegisterFails
        /\ rootKnown' = TRUE
        /\ handling' = handling \ {<<Null, "added">>}
     \/ /\ ~ dir
        /\ handling' = handling \ {<<Null, "added">>}
        /\ UNCHANGED <<kbVars, rootKnown, boundVars>>
  /\ UNCHANGED <<diskVars, fileVars, up, pending, pass, listed, expected, rootSeen, call>>

-----------------------------------------------------------------------------
(* _sync_watch_root: at the start and at every reconcile interval.         *)

(* The root is listed, and the KB registered. *)
StartPass ==
  /\ Idle
  /\ pass' = "list" /\ expected' = {} /\ rootSeen' = dir
  /\ IF dir THEN EnsureRegistered \/ RegisterFails ELSE UNCHANGED <<kbVars, boundVars>>
  /\ UNCHANGED <<diskVars, fileVars, up, pending, handling, listed, rootKnown, call>>

(* Then the files are listed. *)
ListFiles ==
  /\ Free /\ pass = "list"
  /\ pass' = "scan" /\ listed' = OnDisk
  /\ UNCHANGED <<diskVars, fileVars, kbVars, up, pending, handling, expected, rootSeen,
                 rootKnown, call, boundVars>>

(* A listed file that is still there is expected, and upserted. *)
ScanFile(f) ==
  /\ Free /\ pass = "scan" /\ f \in listed
  /\ listed' = listed \ {f}
  /\ expected' = IF disk[f] = Null THEN expected ELSE expected \cup {f}
  /\ Upsert(f)
  /\ UNCHANGED <<diskVars, up, pending, handling, pass, rootSeen, rootKnown, call>>

EndScan ==
  /\ Free /\ pass = "scan" /\ listed = {}
  /\ pass' = "missing"
  /\ UNCHANGED <<diskVars, fileVars, kbVars, up, pending, handling, listed, expected,
                 rootSeen, rootKnown, call, boundVars>>

(* Mutant: the files still to be looked at, of which there are none. *)
MissingListed == {f \in listed : Deletable(f) /\ f \notin expected}

(* _reconcile_missing_files: active rows of files that were not found. *)
Missing == {f \in Watched : Deletable(f) /\ f \notin expected}

DeleteMissing(f) ==
  /\ Free /\ pass = "missing" /\ f \in Missing
  /\ \/ MarkDeleted(f) /\ UNCHANGED <<pass, boundVars>>
     \/ StatementFails /\ pass' = "off" /\ UNCHANGED fileVars
  /\ UNCHANGED <<diskVars, kbVars, up, pending, handling, listed, expected, rootSeen,
                 rootKnown, call>>

EndMissing ==
  /\ Free /\ pass = "missing" /\ Missing = {}
  /\ pass' = "cleanup"
  /\ UNCHANGED <<diskVars, fileVars, kbVars, up, pending, handling, listed, expected,
                 rootSeen, rootKnown, call, boundVars>>

(* Mutant: the files of a directory that was missing have been deleted. *)
UnusedUnasked ==
  /\ ~ rootSeen
  /\ rootKnown \/ \E f \in Watched : row[f] # "none"

(* _cleanup_removed_kb_dirs: the directory was missing, the KB is known    *)
(* from it or from a file, and no file of the KB is active.                *)
Unused ==
  /\ ~ rootSeen
  /\ rootKnown \/ \E f \in Watched : row[f] # "none"
  /\ \A f \in Files : row[f] # "active"

Cleanup ==
  /\ Free /\ pass = "cleanup"
  /\ IF Unused THEN EnsureDeleted ELSE UNCHANGED <<kbVars, boundVars>>
  /\ pass' = "off"
  /\ rootKnown' = rootSeen
  /\ UNCHANGED <<diskVars, fileVars, up, pending, handling, listed, expected, rootSeen, call>>

-----------------------------------------------------------------------------
(* The API.                                                                *)

Call(c) == /\ Idle /\ calls < MaxCalls /\ calls' = calls + 1
           /\ call[c] = Null
           /\ UNCHANGED <<diskVars, kbVars, up, pending, handling, passVars, edits, failures, kills>>

CreateFile(c, f) ==
  /\ Call(c)
  /\ f \in Uploaded /\ row[f] = "none"
  /\ \E content \in Contents : BeginWrite(f, content, "created")
  /\ UNCHANGED call

DeleteFile(c, f) ==
  /\ Call(c)
  /\ f \in ApiFiles /\ Deletable(f)
  /\ MarkDeleted(f)
  /\ UNCHANGED call

(* Mutant: a deleted file may be updated. *)
BeginUpdateAny(c, f) ==
  /\ Call(c)
  /\ f \in ApiFiles /\ row[f] # "none"
  /\ call' = [call EXCEPT ![c] = f]
  /\ UNCHANGED fileVars

(* update_content: a deleted file is refused ... *)
BeginUpdate(c, f) ==
  /\ Call(c)
  /\ f \in ApiFiles /\ row[f] = "active"
  /\ call' = [call EXCEPT ![c] = f]
  /\ UNCHANGED fileVars

(* ... then the content is awaited, which yields once it has been spooled  *)
(* to disk, and stored; an empty one is refused.                           *)
FinishUpdate(c) ==
  /\ Idle /\ call[c] # Null
  /\ \/ \E content \in Contents : BeginWrite(call[c], content, "updated")
     \/ UNCHANGED fileVars
  /\ call' = [call EXCEPT ![c] = Null]
  /\ UNCHANGED <<diskVars, kbVars, up, pending, handling, passVars, boundVars>>

-----------------------------------------------------------------------------
(* The process goes down with its caches, its calls and what awatch has    *)
(* heard, in the middle of a write, too; when it comes back it compares    *)
(* everything once (initial scan).                                         *)
CatalogCrash ==
  /\ up /\ up' = FALSE
  /\ kills < MaxKills /\ kills' = kills + 1
  /\ pending' = {} /\ handling' = {}
  /\ pass' = "off" /\ listed' = {} /\ expected' = {}
  /\ known' = FALSE /\ gone' = FALSE /\ rootSeen' = FALSE /\ rootKnown' = FALSE
  /\ call' = [c \in Callers |-> Null]
  /\ IF hand = {} THEN UNCHANGED fileVars
     ELSE \E w \in hand : CutShort(w, "crash", w.step # "event") /\ UNCHANGED hollow
  /\ UNCHANGED <<diskVars, remote, edits, calls, failures>>

CatalogRestart ==
  /\ ~ up /\ up' = TRUE
  /\ UNCHANGED <<diskVars, fileVars, kbVars, pending, handling, passVars, call, boundVars>>

-----------------------------------------------------------------------------
DiskStep ==
  \/ MakeDir \/ RemoveDir
  \/ \E f \in Watched : RemoveFile(f) \/ \E c \in Contents \cup {Empty} : WriteFile(f, c)

WriteStep ==
  up /\ \E w \in hand : WriteBlob(w) \/ WriteRow(w) \/ WriteVersion(w) \/ WriteEvent(w)

WriteFault == up /\ \E w \in hand : WriteFails(w)

HandlerStep ==
  \/ TakeChanges \/ HandleDirectory
  \/ \E f \in Watched : HandleAdded(f) \/ HandleDeleted(f)

PassStep ==
  \/ StartPass \/ ListFiles \/ EndScan \/ EndMissing \/ Cleanup
  \/ \E f \in Watched : ScanFile(f) \/ DeleteMissing(f)

ApiStep ==
  \E c \in Callers :
    \/ \E f \in Files : CreateFile(c, f) \/ DeleteFile(c, f) \/ BeginUpdate(c, f)
    \/ FinishUpdate(c)

CatalogNext ==
  \/ DiskStep \/ WriteStep \/ WriteFault \/ HandlerStep \/ PassStep \/ ApiStep
  \/ CatalogCrash \/ CatalogRestart

CatalogSpec == CatalogInit /\ [][CatalogNext]_catalogVars

(* The watcher's tasks go on, and so does a write; compose restarts the    *)
(* service; the reconcile interval is positive.                            *)
CatalogFairSpec ==
  /\ CatalogSpec
  /\ WF_catalogVars(WriteStep) /\ WF_catalogVars(HandlerStep)
  /\ WF_catalogVars(PassStep) /\ WF_catalogVars(CatalogRestart)

-----------------------------------------------------------------------------
(* Properties.                                                             *)

(* The catalogue agrees with the disk on f.  An empty file is passed over, *)
(* and so is, once the file has gone, the row of a first write that was cut*)
(* short before its version: it stays active (Deletable).                  *)
Synced(f) ==
  IF disk[f] = Null THEN ~ Deletable(f)
  ELSE disk[f] # Empty => row[f] = "active" /\ latest[f] = disk[f]

(* Whatever awatch missed, whenever the service was down and wherever a    *)
(* write was cut short, in the end the catalogue holds what the directory  *)
(* holds, of the files that do not come back.                              *)
Converges == <>[](\A f \in Watched \ Returning : Synced(f))

(* A full comparison makes up for every change that was missed: so files   *)
(* that come back are there in the end as well.  One that has the content  *)
(* it had is not: run fc_restore.                                          *)
ReturnedConverge == <>[](\A f \in Returning : Synced(f))

(* A directory that stays has its KB in the end. *)
DirectoryRegistered == <>[](dir => remote)

(* The registrar's caches tell the truth while nobody else registers or    *)
(* deletes the KB and no answer is lost.                                   *)
CachesTruthful == (known => remote) /\ (gone => ~ remote)

(* A watched file that is active has its KB in BizRAG, whenever directory  *)
(* and files went and came back during a pass that ends with the KB's      *)
(* deletion, and whatever of the registrations failed before; no answer is *)
(* lost and the API leaves the watched files alone.                        *)
WatchedHaveKB == \A f \in Watched : row[f] = "active" => remote

Halfway(f) == \E how \in {"crash", "error"} :
                <<f, "version", how>> \in torn \/ <<f, "event", how>> \in torn

(* The first event of a file after its deletion says that it was created,  *)
(* unless a write of the file stopped between its row and its event.       *)
DeletedThenCreated ==
  [][\A f \in Files :
       event[f] = "deleted" /\ event'[f] # "deleted" =>
         event'[f] = "created" \/ Halfway(f)]_catalogVars

(* A blob without a version is left by a failing save, or by a crash before*)
(* the version; a latest version without its blob only by an event that    *)
(* could not be stored.  No other way of an upsert, an upload or an update *)
(* parts the two; of files that come back nothing is said (fc_restore).    *)
BlobsMatchVersions ==
  /\ \A f \in orphans \ Returning :
       \/ <<f, "blob", "error">> \in torn
       \/ \E s \in {"blob", "row", "version"} : <<f, s, "crash">> \in torn
  /\ \A f \in hollow : <<f, "event", "error">> \in torn

=============================================================================
