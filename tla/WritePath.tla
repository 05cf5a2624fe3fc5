----------------------------- MODULE WritePath -----------------------------
(***************************************************************************)
(* From a change of a file to its document: file_service stores each       *)
(* change with an event, the publisher delivers the events in any order    *)
(* and perhaps again, workers and HTTP requests process them               *)
(* (rustfs_events.py), fetching the file from file_service, and the        *)
(* knowledge base can be deleted and registered in between.                *)
(*                                                                         *)
(* An event is the n-th of log.  Leases, spans, tasks, chunks and indexes  *)
(* are left out; EventQueue, Tasks and KBDocuments have them.  A document  *)
(* is what the documents table says of it.                                 *)
(***************************************************************************)
EXTENDS Naturals, Sequences

CONSTANTS
  Sources,     \* the files, and the source_uris of their documents
  Processors,  \* workers and HTTP requests
  MaxLog,      \* bound: events
  MaxUpsets    \* bound: lapsed leases, failures, posts, replays, deletions

ASSUME WriteAssumption == MaxLog \in Nat /\ MaxUpsets \in Nat

VARIABLES
  source,  \* file_service's row of each file, and its latest version
  log,     \* the events, in the order of their creation
  phase,   \* the row of each event: "sent" while there is none
  base,    \* the knowledge base is registered
  doc,     \* the documents table: status, and the version ingested
  job,     \* what each processor is doing
  upsets,
  settled  \* history: files the last effective job on which ran on its own,
           \* after the file's last change, and was not out of date

writeVars == <<source, log, phase, base, doc, job, upsets, settled>>

Numbers == 1..MaxLog
NoJob   == [n |-> 0, pc |-> "idle", ver |-> 0, alone |-> TRUE]

Statuses == {"none", "active", "deleted", "failed"}

WriteTypeOK ==
  /\ source \in [Sources -> [status : {"none", "active", "deleted"}, ver : 0..MaxLog]]
  /\ log \in Seq([of : Sources, type : {"created", "updated", "deleted"}, ver : Numbers])
  /\ Len(log) <= MaxLog
  /\ phase \in [Numbers -> {"none", "sent", "queued", "running", "success", "failed"}]
  /\ doc \in [Sources -> [status : Statuses, ver : 0..MaxLog]]
  /\ job \in [Processors -> [n : 0..MaxLog, ver : 0..MaxLog, alone : BOOLEAN,
                             pc : {"idle", "fetch", "check", "build", "index", "look", "erase", "done"}]]
  /\ base \in BOOLEAN /\ upsets \in 0..MaxUpsets /\ settled \subseteq Sources

Blank == [status |-> "none", ver |-> 0]

WriteInit ==
  /\ source = [f \in Sources |-> Blank]
  /\ log = <<>> /\ phase = [n \in Numbers |-> "none"]
  /\ base = FALSE
  /\ doc = [f \in Sources |-> Blank]
  /\ job = [p \in Processors |-> NoJob]
  /\ upsets = 0 /\ settled = {}

Upset == upsets < MaxUpsets /\ upsets' = upsets + 1

Busy(f) == {p \in Processors : job[p].pc # "idle" /\ log[job[p].n].of = f}

-----------------------------------------------------------------------------
(* file_service.  A change and its event are one step: what a crash between*)
(* the two leaves, a change nobody is told of, is FileCatalog's.           *)

(* What is under way for f is out of date, and not to be relied on. *)
Record(f, type, ver) ==
  /\ Len(log) < MaxLog
  /\ log' = Append(log, [of |-> f, type |-> type, ver |-> ver])
  /\ phase' = [phase EXCEPT ![Len(log) + 1] = "sent"]
  /\ job' = [p \in Processors |-> IF p \in Busy(f) THEN [job[p] EXCEPT !.alone = FALSE] ELSE job[p]]
  /\ UNCHANGED <<base, doc, upsets>>

NewVersion(f, type) ==
  LET ver == source[f].ver + 1
  IN /\ source' = [source EXCEPT ![f] = [status |-> "active", ver |-> ver]]
     /\ settled' = settled \ {f}
     /\ Record(f, type, ver)

Create(f)  == source[f].status = "none" /\ NewVersion(f, "created")
Replace(f) == source[f].status = "active" /\ NewVersion(f, "updated")

(* The watcher finds a removed file again, or an upload ends after it. *)
Revive(f)  == source[f].status = "deleted"
              /\ \E type \in {"created", "updated"} : NewVersion(f, type)

Remove(f) ==
  /\ source[f].status = "active"
  /\ source' = [source EXCEPT ![f].status = "deleted"]
  /\ settled' = settled \ {f}
  /\ Record(f, "deleted", source[f].ver)

(* A new name or type: an event of the version there is. *)
Patch(f) ==
  /\ source[f].status = "active"
  /\ Record(f, "updated", source[f].ver)
  /\ UNCHANGED <<source, settled>>

(* The publisher; an event it has not marked it sends again, which only    *)
(* matters where its row is gone.                                          *)
Deliver(n) ==
  /\ phase[n] = "sent"
  /\ phase' = [phase EXCEPT ![n] = "queued"]
  /\ UNCHANGED <<source, log, base, doc, job, upsets, settled>>

-----------------------------------------------------------------------------
(* Processing: each step ends where the code awaits or commits.            *)

(* p processes the event e as the n-th. *)
Takes(p, n, e) ==
  LET f == e.of
  IN job' = [q \in Processors |->
       IF q = p THEN [n |-> n, ver |-> 0, alone |-> Busy(f) = {},
                      pc |-> IF e.type = "deleted" THEN "look" ELSE "fetch"]
       ELSE IF q \in Busy(f) THEN [job[q] EXCEPT !.alone = FALSE]
       ELSE job[q]]

Idling(p) == job[p].pc = "idle" /\ UNCHANGED <<source, base, doc, settled>>

ClaimEvent(p, n) ==
  /\ Idling(p) /\ phase[n] = "queued" /\ Takes(p, n, log[n])
  /\ phase' = [phase EXCEPT ![n] = "running"]
  /\ UNCHANGED <<log, upsets>>

(* POST /api/v1/events/rustfs: only a success is a duplicate. *)
PostEvent(p, n) ==
  /\ Idling(p) /\ n <= Len(log) /\ phase[n] # "success" /\ Upset /\ Takes(p, n, log[n])
  /\ phase' = [phase EXCEPT ![n] = "running"]
  /\ UNCHANGED log

(* A replay is a copy with an event_id of its own. *)
Replay(p, n) ==
  /\ Idling(p) /\ phase[n] \in {"queued", "running", "success", "failed"} /\ Upset
  /\ Len(log) < MaxLog
  /\ LET copy == Len(log) + 1
     IN /\ log' = Append(log, log[n])
        /\ phase' = [phase EXCEPT ![copy] = "running"]
        /\ Takes(p, copy, log[n])

(* Another worker's sweep requeues an event whose lease has lapsed. *)
Lapses(n) ==
  /\ phase[n] = "running" /\ Upset
  /\ phase' = [phase EXCEPT ![n] = "queued"]
  /\ UNCHANGED <<source, log, base, doc, job, settled>>

Stands(p, pc) == job[p].pc = pc /\ UNCHANGED <<source, log, base>>
Of(p)     == log[job[p].n].of
Go(p, pc) == job' = [job EXCEPT ![p].pc = pc]

(* finish_rustfs_event updates the row, if there still is one. *)
Ends(p, outcome) ==
  /\ job' = [job EXCEPT ![p] = NoJob]
  /\ phase' = [phase EXCEPT ![job[p].n] = IF @ = "sent" THEN @ ELSE outcome]

(* Mutant: the content of the version the event names. *)
ServedAsNamed(p) == log[job[p].n].ver

(* download_url names the file: the content is that of its latest version. *)
Served(p) == source[Of(p)].ver

Fetch(p) ==
  /\ Stands(p, "fetch") /\ source[Of(p)].status = "active"
  /\ job' = [job EXCEPT ![p].pc = "check", ![p].ver = Served(p)]
  /\ UNCHANGED <<phase, doc, upsets, settled>>

(* A removed file is 410: the event fails before anything is done. *)
FetchGone(p) ==
  /\ Stands(p, "fetch") /\ source[Of(p)].status = "deleted"
  /\ Ends(p, "failed")
  /\ UNCHANGED <<doc, upsets, settled>>

(* The document is active with the content_hash of what was fetched: only  *)
(* the index is updated.                                                   *)
Current(p) == doc[Of(p)] = [status |-> "active", ver |-> job[p].ver]

Check(p) ==
  /\ Stands(p, "check") /\ base
  /\ Go(p, IF Current(p) THEN "index" ELSE "build")
  /\ UNCHANGED <<phase, doc, upsets, settled>>

(* _get_kb knows no such knowledge base. *)
Refused(p) ==
  /\ \/ Stands(p, "check")
     \/ Stands(p, "erase")
  /\ ~base /\ Ends(p, "failed")
  /\ UNCHANGED <<doc, upsets, settled>>

Save(p) ==
  /\ Stands(p, "build")
  /\ doc' = [doc EXCEPT ![Of(p)] = [status |-> "active", ver |-> job[p].ver]]
  /\ Go(p, "index")
  /\ UNCHANGED <<phase, upsets, settled>>

(* _record_failed_file, whichever step has raised. *)
IngestFails(p) ==
  /\ \/ Stands(p, "build")
     \/ Stands(p, "index")
  /\ Upset
  /\ doc' = [doc EXCEPT ![Of(p)] = [status |-> "failed", ver |-> job[p].ver]]
  /\ settled' = settled \ {Of(p)}
  /\ Ends(p, "failed")

(* Without the knowledge base a deletion is done with: kb_missing. *)
Look(p) ==
  /\ Stands(p, "look")
  /\ IF base THEN Go(p, "erase") /\ UNCHANGED phase ELSE Ends(p, "success")
  /\ UNCHANGED <<doc, upsets, settled>>

Erase(p) ==
  /\ Stands(p, "erase") /\ base
  /\ doc' = [doc EXCEPT ![Of(p)].status = IF @ = "none" THEN "none" ELSE "deleted"]
  /\ Go(p, "done")
  /\ UNCHANGED <<phase, upsets, settled>>

(* The index cannot be updated: the document stays deleted. *)
DeletionFails(p) ==
  /\ Stands(p, "done") /\ Upset
  /\ settled' = settled \ {Of(p)}
  /\ Ends(p, "failed")
  /\ UNCHANGED doc

(* A deletion that comes after the file's return is out of date. *)
OutOfDate(p) == log[job[p].n].type = "deleted" /\ source[Of(p)].status = "active"

Succeeds(p) ==
  /\ \/ Stands(p, "index")
     \/ Stands(p, "done")
  /\ Ends(p, "success")
  /\ settled' = IF job[p].alone /\ ~OutOfDate(p) THEN settled \cup {Of(p)} ELSE settled \ {Of(p)}
  /\ UNCHANGED <<doc, upsets>>

-----------------------------------------------------------------------------
(* The knowledge base.                                                     *)

RegisterBase ==
  /\ ~base /\ base' = TRUE
  /\ UNCHANGED <<source, log, phase, doc, job, upsets, settled>>

(* Without it an event has no row, and counts as never received. *)
WithoutRows ==
  [n \in Numbers |->
     IF phase[n] \in {"queued", "running", "success", "failed"} THEN "sent" ELSE phase[n]]

(* Its rows go in one transaction, whoever is at work on them. *)
DropBase ==
  /\ base /\ Upset /\ base' = FALSE
  /\ doc' = [f \in Sources |-> Blank]
  /\ phase' = WithoutRows
  /\ job' = [p \in Processors |-> IF job[p].pc = "idle" THEN job[p] ELSE [job[p] EXCEPT !.alone = FALSE]]
  /\ settled' = {f \in settled : source[f].status # "active"}
  /\ UNCHANGED <<source, log>>

-----------------------------------------------------------------------------
ProcessStep(p) ==
  \/ Fetch(p) \/ FetchGone(p) \/ Check(p) \/ Refused(p) \/ Save(p)
  \/ IngestFails(p) \/ Look(p) \/ Erase(p) \/ DeletionFails(p) \/ Succeeds(p)

WriteNext ==
  \/ \E f \in Sources : Create(f) \/ Replace(f) \/ Revive(f) \/ Remove(f) \/ Patch(f)
  \/ \E n \in Numbers : Deliver(n) \/ Lapses(n)
  \/ \E p \in Processors :
       \/ ProcessStep(p)
       \/ \E n \in Numbers : ClaimEvent(p, n) \/ PostEvent(p, n) \/ Replay(p, n)
  \/ RegisterBase \/ DropBase

WriteSpec == WriteInit /\ [][WriteNext]_writeVars

(* In whatever order a file's events arrive, late, twice or replayed, and  *)
(* whatever failed before: once an event has been processed on its own     *)
(* after the file's last change, and is not the deletion of a file that    *)
(* is back, the document is the file as it is now - its latest version,    *)
(* though the event may name an older one - and a late event of a removed  *)
(* file does not bring it back.                                            *)
FollowsTheFile ==
  \A f \in settled : Busy(f) = {} =>
    IF source[f].status = "active"
    THEN doc[f] = [status |-> "active", ver |-> source[f].ver]
    ELSE doc[f].status # "active"
=============================================================================
