-------------------------- MODULE FileCatalogProofs --------------------------
(***************************************************************************)
(* What holds of file_service's catalogue, its watcher and its registrar   *)
(* for every set of files, contents and callers, any number of changes of  *)
(* the disk, requests, failures and kills.                               *)
(***************************************************************************)
EXTENDS FileCatalog, TLAPS

LEMMA BoundsType ==
  MaxEdits \in Nat /\ MaxCalls \in Nat /\ MaxFailures \in Nat /\ MaxKills \in Nat
BY CatalogAssumption

LEMMA FilesType ==
  /\ Watched \subseteq Files /\ Uploaded \subseteq Files /\ ApiFiles \subseteq Files
  /\ Watched \cap Uploaded = {}
  /\ Null \notin Files /\ Null \notin Contents /\ Empty \notin Contents /\ Null # Empty
BY CatalogAssumption DEF Files

-----------------------------------------------------------------------------
(* Types, one group of variables at a time.                                *)

DiskType ==
  /\ dir \in BOOLEAN
  /\ disk \in [Watched -> Contents \cup {Empty, Null}] /\ written \subseteq Watched

RowType ==
  /\ row \in [Files -> {"none", "active", "deleted"}]
  /\ latest \in [Files -> Contents \cup {Null}]
  /\ event \in [Files -> {"none", "created", "updated", "deleted"}]
  /\ orphans \subseteq Files /\ hollow \subseteq Files
  /\ hand \subseteq Writes /\ torn \subseteq Files \X Steps \X {"crash", "error"}

KBType == remote \in BOOLEAN /\ known \in BOOLEAN /\ gone \in BOOLEAN

QueueType == pending \subseteq Changes /\ handling \subseteq Changes

PassType ==
  /\ up \in BOOLEAN /\ rootSeen \in BOOLEAN /\ rootKnown \in BOOLEAN
  /\ pass \in {"off", "list", "scan", "missing", "cleanup"}
  /\ listed \subseteq Watched /\ expected \subseteq Watched

CallType == call \in [Callers -> ApiFiles \cup {Null}]

BoundType ==
  /\ edits \in 0..MaxEdits /\ calls \in 0..MaxCalls /\ failures \in 0..MaxFailures
  /\ kills \in 0..MaxKills

Typed ==
  DiskType /\ RowType /\ KBType /\ QueueType /\ PassType /\ CallType /\ BoundType

LEMMA BeginWriteType ==
  ASSUME RowType, NEW f \in Files, NEW c \in Contents,
         NEW type \in {"created", "updated"}, BeginWrite(f, c, type)
  PROVE  RowType'
<1>1. [file |-> f, content |-> c, type |-> type, step |-> "blob"] \in Writes
  BY DEF Writes, Steps
<1>. QED
  BY <1>1 DEF RowType, BeginWrite, storeVars

LEMMA MarkDeletedType ==
  ASSUME RowType, NEW f \in Files, MarkDeleted(f)
  PROVE  RowType'
<1>1. [file |-> f, content |-> Null, type |-> "deleted", step |-> "event"] \in Writes
  BY DEF Writes, Steps
<1>. QED
  BY <1>1 DEF RowType, MarkDeleted

LEMMA CutShortType ==
  ASSUME RowType, NEW w \in hand, NEW how \in {"crash", "error"}, NEW o \in BOOLEAN,
         CutShort(w, how, o), hollow' \in {hollow, hollow \cup {w.file}}
  PROVE  RowType'
<1>1. w.file \in Files /\ w.step \in Steps
  BY DEF RowType, Writes
<1>2. torn' \subseteq Files \X Steps \X {"crash", "error"}
  BY <1>1 DEF CutShort, RowType
<1>3. orphans' \subseteq Files /\ hollow' \subseteq Files /\ hand' = {}
  BY <1>1 DEF CutShort, RowType
<1>4. UNCHANGED <<row, latest, event>>
  BY DEF CutShort
<1>. QED
  BY <1>2, <1>3, <1>4 DEF RowType

LEMMA RequestFailsType ==
  ASSUME KBType, BoundType, NEW outcome \in BOOLEAN, RequestFails(outcome)
  PROVE  KBType' /\ BoundType'
<1>1. remote' \in {remote, outcome} /\ UNCHANGED <<known, gone, edits, calls, kills>>
      /\ failures' \in 0..MaxFailures
  BY BoundsType DEF RequestFails, BoundType
<1>. QED
  BY <1>1 DEF KBType, BoundType

LEMMA EnsureRegisteredType ==
  ASSUME KBType, BoundType, EnsureRegistered \/ RegisterFails
  PROVE  KBType' /\ BoundType'
<1>1. CASE EnsureRegistered
  BY <1>1 DEF EnsureRegistered, KBType, BoundType, kbVars, boundVars
<1>2. CASE RegisterFails
  BY <1>2, RequestFailsType DEF RegisterFails
<1>. QED
  BY <1>1, <1>2

LEMMA EnsureDeletedType ==
  ASSUME KBType, BoundType, EnsureDeleted
  PROVE  KBType' /\ BoundType'
<1>1. CASE RequestFails(FALSE)
  BY <1>1, RequestFailsType
<1>2. CASE UNCHANGED <<kbVars, boundVars>>
  BY <1>2 DEF KBType, BoundType, kbVars, boundVars
<1>3. CASE remote' = FALSE /\ known' = FALSE /\ gone' = TRUE /\ UNCHANGED boundVars
  BY <1>3 DEF KBType, BoundType, boundVars
<1>. QED
  BY <1>1, <1>2, <1>3 DEF EnsureDeleted

LEMMA UpsertType ==
  ASSUME DiskType, RowType, KBType, BoundType, NEW f \in Watched, Upsert(f)
  PROVE  RowType' /\ KBType' /\ BoundType'
<1>1. /\ UNCHANGED <<kbVars, boundVars>> \/ EnsureRegistered \/ RegisterFails
  BY DEF Upsert
<1>2. KBType' /\ BoundType'
  <2>1. CASE UNCHANGED <<kbVars, boundVars>>
    BY <2>1 DEF KBType, BoundType, kbVars, boundVars
  <2>. QED
    BY <1>1, <2>1, EnsureRegisteredType
<1>3. RowType'
  <2>1. CASE UNCHANGED fileVars
    BY <2>1 DEF RowType, fileVars, storeVars
  <2>2. CASE /\ orphans' = orphans \cup {f}
             /\ UNCHANGED <<row, latest, event, hollow, torn, hand>>
    BY <2>2, FilesType DEF RowType
  <2>3. ASSUME disk[f] # Null, disk[f] # Empty,
               BeginWrite(f, disk[f], IF row[f] = "active" THEN "updated" ELSE "created")
        PROVE  RowType'
    <3>1. disk[f] \in Contents /\ f \in Files
      BY <2>3, FilesType DEF DiskType
    <3>. QED
      BY <2>3, <3>1, BeginWriteType
  <2>. QED
    BY <2>1, <2>2, <2>3 DEF Upsert
<1>. QED
  BY <1>2, <1>3

LEMMA EditType ==
  ASSUME Typed, NEW changes \in SUBSET Changes, Edit(changes)
  PROVE  RowType' /\ KBType' /\ QueueType' /\ PassType' /\ CallType' /\ BoundType'
<1>. USE DEF Typed
<1>1. pending' \subseteq Changes /\ edits' \in 0..MaxEdits
  BY BoundsType DEF Edit, QueueType, BoundType
<1>2. UNCHANGED <<fileVars, kbVars, up, handling, passVars, call, calls, failures, kills>>
  BY DEF Edit
<1>. QED
  BY <1>1, <1>2 DEF RowType, KBType, QueueType, PassType, CallType, BoundType, fileVars, storeVars, kbVars,
                    passVars

LEMMA DiskTypeStep ==
  ASSUME Typed, DiskStep
  PROVE  Typed'
<1>. USE DEF Typed
<1>1. ASSUME NEW changes \in SUBSET Changes, Edit(changes), DiskType'
      PROVE  Typed'
  BY <1>1, EditType
<1>2. CASE MakeDir
  <2>1. {<<Null, "added">>} \in SUBSET Changes
    BY DEF Changes
  <2>2. DiskType'
    BY <1>2 DEF MakeDir, DiskType
  <2>. QED
    BY <1>1, <1>2, <2>1, <2>2 DEF MakeDir
<1>3. CASE RemoveDir
  <2>1. (OnDisk \X {"deleted"}) \in SUBSET Changes
    BY DEF Changes, OnDisk
  <2>2. DiskType'
    BY <1>3 DEF RemoveDir, DiskType
  <2>. QED
    BY <1>1, <1>3, <2>1, <2>2 DEF RemoveDir
<1>4. ASSUME NEW f \in Watched, RemoveFile(f)
      PROVE  Typed'
  <2>1. {<<f, "deleted">>} \in SUBSET Changes
    BY DEF Changes
  <2>2. DiskType'
    BY <1>4 DEF RemoveFile, DiskType
  <2>. QED
    BY <1>1, <1>4, <2>1, <2>2 DEF RemoveFile
<1>5. ASSUME NEW f \in Watched, NEW c \in Contents \cup {Empty}, WriteFile(f, c)
      PROVE  Typed'
  <2>1. {<<f, "added">>} \in SUBSET Changes
    BY DEF Changes
  <2>2. DiskType'
    BY <1>5 DEF WriteFile, DiskType
  <2>. QED
    BY <1>1, <1>5, <2>1, <2>2 DEF WriteFile
<1>. QED
  BY <1>2, <1>3, <1>4, <1>5 DEF DiskStep

LEMMA WriteTypeStep ==
  ASSUME Typed, WriteStep \/ WriteFault
  PROVE  Typed'
<1>. USE DEF Typed
<1>1. ASSUME NEW w \in hand,
             WriteBlob(w) \/ WriteRow(w) \/ WriteVersion(w) \/ WriteEvent(w)
      PROVE  Typed'
  <2>1. /\ w \in Writes /\ w.file \in Files /\ w.content \in Contents \cup {Null}
        /\ w.type \in {"created", "updated", "deleted"}
        /\ \A s \in Steps : [w EXCEPT !.step = s] \in Writes
    BY DEF RowType, Writes
  <2>2. DiskType' /\ KBType' /\ QueueType' /\ PassType' /\ CallType' /\ BoundType'
    BY <1>1 DEF WriteBlob, WriteRow, WriteVersion, WriteEvent, Unwritten, DiskType, KBType,
                QueueType, PassType, CallType, BoundType, diskVars, kbVars, passVars, boundVars
  <2>3. RowType'
    <3>1. CASE WriteBlob(w)
      <4>1. hand' \subseteq Writes
        BY <2>1, <3>1 DEF WriteBlob, Steps
      <4>. QED
        BY <3>1, <4>1 DEF WriteBlob, RowType, storeVars
    <3>2. CASE WriteRow(w)
      <4>1. hand' \subseteq Writes
        BY <2>1, <3>2 DEF WriteRow, Steps
      <4>. QED
        BY <2>1, <3>2, <4>1 DEF WriteRow, RowType
    <3>3. CASE WriteVersion(w)
      <4>1. hand' \subseteq Writes
        BY <2>1, <3>3 DEF WriteVersion, Steps
      <4>. QED
        BY <2>1, <3>3, <4>1 DEF WriteVersion, RowType
    <3>4. CASE WriteEvent(w)
      BY <2>1, <3>4 DEF WriteEvent, RowType
    <3>. QED
      BY <1>1, <3>1, <3>2, <3>3, <3>4
  <2>. QED
    BY <2>2, <2>3
<1>2. ASSUME NEW w \in hand, WriteFails(w)
      PROVE  Typed'
  <2>1. RowType'
    <3>1. CutShort(w, "error", w.step = "blob") /\ hollow' \in {hollow, hollow \cup {w.file}}
      BY <1>2 DEF WriteFails
    <3>. QED
      BY <3>1, CutShortType
  <2>2. BoundType'
    BY <1>2, BoundsType DEF WriteFails, StatementFails, BoundType
  <2>3. DiskType' /\ KBType' /\ QueueType' /\ PassType' /\ CallType'
    BY <1>2 DEF WriteFails, Unwritten, DiskType, KBType, QueueType, PassType, CallType, diskVars,
                kbVars
  <2>. QED
    BY <2>1, <2>2, <2>3
<1>. QED
  BY <1>1, <1>2 DEF WriteStep, WriteFault

LEMMA HandlerTypeStep ==
  ASSUME Typed, HandlerStep
  PROVE  Typed'
<1>. USE DEF Typed
<1>1. CASE TakeChanges
  BY <1>1 DEF TakeChanges, DiskType, RowType, KBType, QueueType, PassType, CallType, BoundType,
              diskVars, fileVars, storeVars, kbVars, passVars, boundVars
<1>2. CASE HandleDirectory
  <2>1. DiskType' /\ RowType' /\ CallType'
    BY <1>2 DEF HandleDirectory, DiskType, RowType, CallType, diskVars, fileVars, storeVars
  <2>2. PassType'
    BY <1>2 DEF HandleDirectory, PassType
  <2>3. QueueType'
    <3>1. (OnDisk \X {"added"}) \subseteq Changes
      BY DEF Changes, OnDisk
    <3>. QED
      BY <1>2, <3>1 DEF HandleDirectory, QueueType
  <2>4. KBType' /\ BoundType'
    <3>1. CASE UNCHANGED <<kbVars, boundVars>>
      BY <3>1 DEF KBType, BoundType, kbVars, boundVars
    <3>. QED
      BY <1>2, <3>1, EnsureRegisteredType DEF HandleDirectory
  <2>. QED
    BY <2>1, <2>2, <2>3, <2>4
<1>3. ASSUME NEW f \in Watched, HandleAdded(f)
      PROVE  Typed'
  <2>1. RowType' /\ KBType' /\ BoundType'
    BY <1>3, UpsertType DEF HandleAdded
  <2>2. DiskType' /\ QueueType' /\ PassType' /\ CallType'
    BY <1>3 DEF HandleAdded, DiskType, QueueType, PassType, CallType, diskVars, passVars
  <2>. QED
    BY <2>1, <2>2
<1>4. ASSUME NEW f \in Watched, HandleDeleted(f)
      PROVE  Typed'
  <2>1. RowType'
    <3>1. CASE UNCHANGED fileVars
      BY <3>1 DEF RowType, fileVars, storeVars
    <3>. QED
      BY <1>4, <3>1, FilesType, MarkDeletedType DEF HandleDeleted
  <2>2. /\ DiskType' /\ KBType' /\ QueueType' /\ PassType' /\ CallType' /\ BoundType'
    BY <1>4 DEF HandleDeleted, DiskType, KBType, QueueType, PassType, CallType, BoundType,
                diskVars, kbVars, passVars, boundVars
  <2>. QED
    BY <2>1, <2>2
<1>. QED
  BY <1>1, <1>2, <1>3, <1>4 DEF HandlerStep

LEMMA PassTypeStep ==
  ASSUME Typed, PassStep
  PROVE  Typed'
<1>. USE DEF Typed
<1>1. CASE StartPass
  <2>1. KBType' /\ BoundType'
    <3>1. CASE UNCHANGED <<kbVars, boundVars>>
      BY <3>1 DEF KBType, BoundType, kbVars, boundVars
    <3>. QED
      BY <1>1, <3>1, EnsureRegisteredType DEF StartPass
  <2>2. DiskType' /\ RowType' /\ QueueType' /\ CallType'
    BY <1>1 DEF StartPass, DiskType, RowType, QueueType, CallType, diskVars, fileVars, storeVars
  <2>3. PassType'
    BY <1>1 DEF StartPass, PassType, DiskType
  <2>. QED
    BY <2>1, <2>2, <2>3
<1>2. CASE ListFiles \/ EndScan \/ EndMissing
  <2>1. /\ UNCHANGED <<diskVars, fileVars, kbVars, up, pending, handling, call, boundVars>>
        /\ PassType'
    BY <1>2 DEF ListFiles, EndScan, EndMissing, PassType, OnDisk
  <2>. QED
    BY <2>1 DEF DiskType, RowType, KBType, QueueType, CallType, BoundType,
                diskVars, fileVars, storeVars, kbVars, boundVars
<1>3. CASE Cleanup
  <2>1. KBType' /\ BoundType'
    <3>1. CASE UNCHANGED <<kbVars, boundVars>>
      BY <3>1 DEF KBType, BoundType, kbVars, boundVars
    <3>. QED
      BY <1>3, <3>1, EnsureDeletedType DEF Cleanup
  <2>2. DiskType' /\ RowType' /\ QueueType' /\ CallType' /\ PassType'
    BY <1>3 DEF Cleanup, DiskType, RowType, QueueType, CallType, PassType, diskVars, fileVars, storeVars
  <2>. QED
    BY <2>1, <2>2
<1>4. ASSUME NEW f \in Watched, ScanFile(f)
      PROVE  Typed'
  <2>1. RowType' /\ KBType' /\ BoundType'
    BY <1>4, UpsertType DEF ScanFile
  <2>2. DiskType' /\ QueueType' /\ PassType' /\ CallType'
    BY <1>4 DEF ScanFile, DiskType, QueueType, PassType, CallType, diskVars
  <2>. QED
    BY <2>1, <2>2
<1>5. ASSUME NEW f \in Watched, DeleteMissing(f)
      PROVE  Typed'
  <2>1. RowType'
    <3>1. CASE UNCHANGED fileVars
      BY <3>1 DEF RowType, fileVars, storeVars
    <3>. QED
      BY <1>5, <3>1, FilesType, MarkDeletedType DEF DeleteMissing
  <2>2. BoundType'
    BY <1>5, BoundsType DEF DeleteMissing, StatementFails, BoundType, boundVars
  <2>3. DiskType' /\ KBType' /\ QueueType' /\ PassType' /\ CallType'
    BY <1>5 DEF DeleteMissing, DiskType, KBType, QueueType, PassType, CallType, diskVars, kbVars
  <2>. QED
    BY <2>1, <2>2, <2>3
<1>. QED
  BY <1>1, <1>2, <1>3, <1>4, <1>5 DEF PassStep

LEMMA ApiTypeStep ==
  ASSUME Typed, ApiStep
  PROVE  Typed'
<1>. USE DEF Typed
<1>1. ASSUME NEW c \in Callers, Call(c)
      PROVE  DiskType' /\ KBType' /\ QueueType' /\ PassType' /\ BoundType'
  BY <1>1, BoundsType
     DEF Call, DiskType, KBType, QueueType, PassType, BoundType, diskVars, kbVars, passVars
<1>2. ASSUME NEW c \in Callers, NEW f \in Files, CreateFile(c, f)
      PROVE  Typed'
  <2>1. RowType'
    BY <1>2, BeginWriteType DEF CreateFile
  <2>. QED
    BY <1>1, <1>2, <2>1 DEF CreateFile, CallType
<1>3. ASSUME NEW c \in Callers, NEW f \in Files, DeleteFile(c, f)
      PROVE  Typed'
  <2>1. RowType'
    BY <1>3, MarkDeletedType DEF DeleteFile
  <2>. QED
    BY <1>1, <1>3, <2>1 DEF DeleteFile, CallType
<1>4. ASSUME NEW c \in Callers, NEW f \in Files, BeginUpdate(c, f)
      PROVE  Typed'
  <2>1. RowType' /\ CallType'
    BY <1>4 DEF BeginUpdate, RowType, CallType, fileVars, storeVars
  <2>. QED
    BY <1>1, <1>4, <2>1 DEF BeginUpdate
<1>5. ASSUME NEW c \in Callers, FinishUpdate(c)
      PROVE  Typed'
  <2>1. call[c] \in Files
    BY <1>5, FilesType DEF FinishUpdate, CallType
  <2>2. RowType'
    <3>1. CASE UNCHANGED fileVars
      BY <3>1 DEF RowType, fileVars, storeVars
    <3>. QED
      BY <1>5, <2>1, <3>1, BeginWriteType DEF FinishUpdate
  <2>3. /\ DiskType' /\ KBType' /\ QueueType' /\ PassType' /\ CallType' /\ BoundType'
    BY <1>5 DEF FinishUpdate, DiskType, KBType, QueueType, PassType, CallType, BoundType,
                diskVars, kbVars, passVars, boundVars
  <2>. QED
    BY <2>2, <2>3
<1>. QED
  BY <1>2, <1>3, <1>4, <1>5 DEF ApiStep

LEMMA TypeStep ==
  ASSUME Typed, [CatalogNext]_catalogVars
  PROVE  Typed'
<1>1. CASE CatalogCrash
  <2>1. DiskType' /\ RowType'
    <3>1. CASE UNCHANGED fileVars
      BY <1>1, <3>1 DEF CatalogCrash, Typed, DiskType, RowType, diskVars, fileVars, storeVars
    <3>2. ASSUME NEW w \in hand, CutShort(w, "crash", w.step # "event"), UNCHANGED hollow
          PROVE  RowType'
      <4>1. RowType /\ hollow' \in {hollow, hollow \cup {w.file}}
            /\ (w.step # "event") \in BOOLEAN
        BY <3>2 DEF Typed
      <4>. QED
        BY <3>2, <4>1, CutShortType
    <3>. QED
      BY <1>1, <3>1, <3>2 DEF CatalogCrash, Typed, DiskType, diskVars
  <2>2. KBType' /\ PassType'
    BY <1>1 DEF CatalogCrash, Typed, KBType, PassType
  <2>3. QueueType' /\ CallType'
    BY <1>1 DEF CatalogCrash, Typed, QueueType, CallType
  <2>4. BoundType'
    BY <1>1, BoundsType DEF CatalogCrash, Typed, BoundType
  <2>. QED
    BY <2>1, <2>2, <2>3, <2>4 DEF Typed
<1>2. CASE CatalogRestart \/ UNCHANGED catalogVars
  <2>1. /\ UNCHANGED <<diskVars, fileVars, kbVars, pending, handling, passVars, call, boundVars>>
        /\ up' \in {up, TRUE}
    BY <1>2 DEF CatalogRestart, catalogVars
  <2>2. DiskType' /\ RowType'
    BY <2>1 DEF Typed, DiskType, RowType, diskVars, fileVars, storeVars
  <2>3. KBType' /\ BoundType'
    BY <2>1 DEF Typed, KBType, BoundType, kbVars, boundVars
  <2>4. PassType'
    BY <2>1 DEF Typed, PassType, passVars
  <2>5. QueueType' /\ CallType'
    BY <2>1 DEF Typed, QueueType, CallType
  <2>. QED
    BY <2>2, <2>3, <2>4, <2>5 DEF Typed
<1>. QED
  BY <1>1, <1>2, DiskTypeStep, WriteTypeStep, HandlerTypeStep, PassTypeStep, ApiTypeStep DEF CatalogNext

LEMMA InitType == CatalogInit => Typed
<1>. SUFFICES ASSUME CatalogInit
              PROVE  Typed
  OBVIOUS
<1>1. DiskType /\ RowType
  BY DEF CatalogInit, DiskType, RowType
<1>2. KBType /\ PassType
  BY DEF CatalogInit, KBType, PassType
<1>3. QueueType /\ CallType /\ BoundType
  BY BoundsType DEF CatalogInit, QueueType, CallType, BoundType
<1>. QED
  BY <1>1, <1>2, <1>3 DEF Typed

(* The variables keep their types: disk, catalogue, registrar and watcher  *)
(* are always in a state the code knows.                                   *)
THEOREM CatalogTypeCorrect == CatalogSpec => []CatalogTypeOK
<1>1. Typed => CatalogTypeOK
  BY DEF Typed, CatalogTypeOK, DiskType, RowType, KBType, QueueType, PassType, CallType, BoundType
<1>. QED
  BY <1>1, InitType, TypeStep, PTL DEF CatalogSpec

-----------------------------------------------------------------------------
(* The registrar: what a step does to the KB and to the caches.            *)

KBStep ==
  \/ UNCHANGED kbVars
  \/ EnsureRegistered \/ RegisterFails
  \/ Unused /\ hand = {} /\ UNCHANGED <<row, hand>> /\ EnsureDeleted
  \/ known' = FALSE /\ gone' = FALSE /\ remote' = remote

LEMMA UpsertAsks ==
  ASSUME NEW f \in Watched, Upsert(f)
  PROVE  KBStep
BY DEF Upsert, KBStep

LEMMA StepIsKBStep ==
  ASSUME [CatalogNext]_catalogVars
  PROVE  KBStep
<1>1. CASE DiskStep
  <2>1. ASSUME NEW changes, Edit(changes)
        PROVE  KBStep
    BY <2>1 DEF Edit, KBStep, kbVars
  <2>. QED
    BY <1>1, <2>1 DEF DiskStep, MakeDir, RemoveDir, RemoveFile, WriteFile
<1>2. CASE HandlerStep
  <2>1. ASSUME NEW f \in Watched, HandleAdded(f)
        PROVE  KBStep
    BY <2>1, UpsertAsks DEF HandleAdded
  <2>. QED
    BY <1>2, <2>1 DEF HandlerStep, TakeChanges, HandleDirectory, HandleDeleted, KBStep, kbVars
<1>3. CASE PassStep
  <2>1. ASSUME NEW f \in Watched, ScanFile(f)
        PROVE  KBStep
    BY <2>1, UpsertAsks DEF ScanFile
  <2>2. ASSUME Cleanup
        PROVE  KBStep
    BY <2>2 DEF Cleanup, Free, KBStep, fileVars, storeVars
  <2>. QED
    BY <1>3, <2>1, <2>2
       DEF PassStep, StartPass, ListFiles, EndScan, EndMissing, DeleteMissing, KBStep, kbVars
<1>4. CASE ApiStep
  BY <1>4 DEF ApiStep, CreateFile, DeleteFile, BeginUpdate, FinishUpdate, Call, KBStep, kbVars
<1>5. CASE WriteStep \/ WriteFault
  BY <1>5 DEF WriteStep, WriteFault, WriteBlob, WriteRow, WriteVersion, WriteEvent, WriteFails,
              Unwritten, KBStep, kbVars
<1>6. CASE CatalogCrash \/ CatalogRestart \/ UNCHANGED catalogVars
  BY <1>6 DEF CatalogCrash, CatalogRestart, catalogVars, KBStep, kbVars
<1>. QED
  BY <1>1, <1>2, <1>3, <1>4, <1>5, <1>6 DEF CatalogNext

LEMMA TruthfulStep ==
  ASSUME LoseAnswers = FALSE, CachesTruthful, KBStep
  PROVE  CachesTruthful'
<1>. USE DEF CachesTruthful
<1>1. CASE UNCHANGED kbVars
  BY <1>1 DEF kbVars
<1>2. CASE EnsureRegistered
  BY <1>2 DEF EnsureRegistered, kbVars
<1>3. CASE RegisterFails
  BY <1>3 DEF RegisterFails, RequestFails
<1>4. CASE EnsureDeleted
  BY <1>4 DEF EnsureDeleted, RequestFails, kbVars
<1>5. CASE known' = FALSE /\ gone' = FALSE /\ remote' = remote
  BY <1>5
<1>. QED
  BY <1>1, <1>2, <1>3, <1>4, <1>5 DEF KBStep

(* While no answer of BizRAG is lost, the registrar's caches tell the      *)
(* truth (kb_registry.py): no crash, failed request or directory that      *)
(* comes and goes leaves one behind that is wrong.                         *)
THEOREM CachesCorrect ==
  ASSUME LoseAnswers = FALSE
  PROVE  CatalogSpec => []CachesTruthful
<1>1. CatalogInit => CachesTruthful
  BY DEF CatalogInit, CachesTruthful
<1>2. CachesTruthful /\ [CatalogNext]_catalogVars => CachesTruthful'
  BY StepIsKBStep, TruthfulStep
<1>. QED
  BY <1>1, <1>2, PTL DEF CatalogSpec

-----------------------------------------------------------------------------
(* The files.  The watcher's and the callers' files are told apart here.   *)

Separate == ApiFiles \cap Watched = {}

(* A file that has an active row or is being written. *)
Alive(f) == row[f] = "active" \/ \E w \in hand : w.file = f

(* What an upsert does to the catalogue. *)
LEMMA UpsertRows ==
  ASSUME Typed, NEW f \in Watched, Upsert(f)
  PROVE  /\ UNCHANGED <<row, latest, event, hollow, torn>>
         /\ \/ UNCHANGED <<orphans, hand>>
            \/ row[f] = "deleted" /\ disk[f] # Null /\ UNCHANGED hand
            \/ /\ disk[f] # Null /\ UNCHANGED orphans /\ EnsureRegistered
               /\ hand' = {[file |-> f, content |-> disk[f],
                            type |-> IF row[f] = "active" THEN "updated" ELSE "created",
                            step |-> "blob"]}
BY DEF Upsert, BeginWrite, fileVars, storeVars

(* The steps of a write touch no file but its own. *)
LEMMA WriteRows ==
  ASSUME Typed, NEW w \in hand, WriteBlob(w) \/ WriteRow(w) \/ WriteVersion(w) \/ WriteEvent(w) \/ WriteFails(w)
  PROVE  /\ row' \in {row, [row EXCEPT ![w.file] = "active"]}
         /\ hand' = {} \/ \E s \in Steps : hand' = {[w EXCEPT !.step = s]}
         /\ UNCHANGED <<disk, written, pending, handling, listed, expected, call>>
         /\ pass' \in {pass, "off"}
<1>1. CASE WriteBlob(w)
  BY <1>1 DEF WriteBlob, Unwritten, storeVars, diskVars, passVars, Steps
<1>2. CASE WriteRow(w)
  BY <1>2 DEF WriteRow, Unwritten, diskVars, passVars, Steps
<1>3. CASE WriteVersion(w)
  BY <1>3 DEF WriteVersion, Unwritten, diskVars, passVars, Steps
<1>4. CASE WriteEvent(w) \/ WriteFails(w)
  BY <1>4 DEF WriteEvent, WriteFails, CutShort, Unwritten, diskVars, passVars
<1>. QED
  BY <1>1, <1>2, <1>3, <1>4

(* At most one write at a time. *)
OneWrite == \A v, w \in hand : v = w

LEMMA OneWriteStep ==
  ASSUME Typed, OneWrite, [CatalogNext]_catalogVars
  PROVE  OneWrite'
<1>. USE DEF OneWrite
<1>1. ASSUME NEW f \in Watched, Upsert(f)
      PROVE  OneWrite'
  BY <1>1, UpsertRows
<1>2. CASE WriteStep \/ WriteFault
  BY <1>2, WriteRows DEF WriteStep, WriteFault
<1>3. CASE HandlerStep
  BY <1>1, <1>3 DEF HandlerStep, TakeChanges, HandleDirectory, HandleAdded, HandleDeleted,
                    MarkDeleted, fileVars
<1>4. CASE PassStep
  BY <1>1, <1>4 DEF PassStep, StartPass, ListFiles, EndScan, EndMissing, Cleanup, ScanFile,
                    DeleteMissing, MarkDeleted, fileVars
<1>5. CASE ApiStep
  BY <1>5 DEF ApiStep, CreateFile, DeleteFile, BeginUpdate, FinishUpdate, BeginWrite, MarkDeleted,
              fileVars
<1>6. CASE DiskStep \/ CatalogRestart \/ UNCHANGED catalogVars
  BY <1>6 DEF DiskStep, MakeDir, RemoveDir, RemoveFile, WriteFile, Edit, CatalogRestart, catalogVars, fileVars
<1>7. CASE CatalogCrash
  BY <1>7 DEF CatalogCrash, CutShort, fileVars
<1>. QED
  BY <1>2, <1>3, <1>4, <1>5, <1>6, <1>7 DEF CatalogNext

(* The callers begin nothing with a watched file. *)
LEMMA ApiRows ==
  ASSUME Typed, Separate, ApiStep
  PROVE  /\ UNCHANGED <<disk, written, pending, handling, pass, listed, expected, orphans>>
         /\ pass = "off" /\ hand = {}
         /\ \A f \in Watched : row'[f] = row[f]
         /\ \A w \in hand' : w.file \notin Watched
<1>1. \A f \in ApiFiles \cup Uploaded : f \notin Watched
  BY FilesType DEF Separate
<1>2. row \in [Files -> {"none", "active", "deleted"}] /\ Watched \subseteq Files
  BY FilesType DEF Typed, RowType
<1>3. ASSUME NEW c \in Callers, NEW f \in Files,
             CreateFile(c, f) \/ DeleteFile(c, f) \/ BeginUpdate(c, f)
      PROVE  /\ UNCHANGED <<disk, written, pending, handling, pass, listed, expected, orphans>>
             /\ pass = "off" /\ hand = {}
             /\ \A g \in Watched : row'[g] = row[g]
             /\ \A w \in hand' : w.file \notin Watched
  BY <1>1, <1>2, <1>3
     DEF CreateFile, DeleteFile, BeginUpdate, Call, Idle, Free, BeginWrite, MarkDeleted, diskVars,
         fileVars, storeVars, passVars
<1>4. ASSUME NEW c \in Callers, FinishUpdate(c)
      PROVE  /\ UNCHANGED <<disk, written, pending, handling, pass, listed, expected, orphans>>
             /\ pass = "off" /\ hand = {}
             /\ \A g \in Watched : row'[g] = row[g]
             /\ \A w \in hand' : w.file \notin Watched
  <2>1. call[c] \in ApiFiles
    BY <1>4 DEF FinishUpdate, Typed, CallType
  <2>. QED
    BY <1>1, <1>2, <1>4, <2>1
       DEF FinishUpdate, Idle, Free, BeginWrite, diskVars, fileVars, storeVars, passVars
<1>. QED
  BY <1>3, <1>4 DEF ApiStep

-----------------------------------------------------------------------------
(* The KB of the watched files: it is registered before a write begins and *)
(* deleted while no write is being made and no row is active.              *)

AliveHaveKB == \A f \in Watched : Alive(f) => remote

(* A watched file comes alive only by an upsert that has registered the KB.*)
LEMMA AliveStep ==
  ASSUME Typed, OneWrite, Separate, [CatalogNext]_catalogVars, NEW g \in Watched, Alive(g)'
  PROVE  Alive(g) \/ EnsureRegistered
<1>. USE DEF Alive
<1>0. row \in [Files -> {"none", "active", "deleted"}] /\ Watched \subseteq Files
  BY FilesType DEF Typed, RowType
<1>1. ASSUME NEW f \in Watched, Upsert(f)
      PROVE  Alive(g) \/ EnsureRegistered
  BY <1>1, UpsertRows
<1>2. ASSUME NEW f \in Watched, MarkDeleted(f), row[f] = "active"
      PROVE  Alive(g)
  BY <1>0, <1>2 DEF MarkDeleted
<1>3. ASSUME NEW w \in hand,
             WriteBlob(w) \/ WriteRow(w) \/ WriteVersion(w) \/ WriteEvent(w) \/ WriteFails(w)
      PROVE  Alive(g)
  <2>1. /\ row' \in {row, [row EXCEPT ![w.file] = "active"]}
        /\ hand' = {} \/ \E s \in Steps : hand' = {[w EXCEPT !.step = s]}
    BY <1>3, WriteRows DEF OneWrite
  <2>2. w \in Writes
    BY DEF Typed, RowType
  <2>3. \A s \in Steps : [w EXCEPT !.step = s].file = w.file
    BY <2>2 DEF Writes
  <2>. QED
    BY <1>0, <2>1, <2>3
<1>4. CASE WriteStep \/ WriteFault
  BY <1>3, <1>4 DEF WriteStep, WriteFault
<1>5. CASE HandlerStep
  BY <1>1, <1>2, <1>5 DEF HandlerStep, TakeChanges, HandleDirectory, HandleAdded, HandleDeleted,
                          Deletable, fileVars, storeVars
<1>6. CASE PassStep
  BY <1>1, <1>2, <1>6 DEF PassStep, StartPass, ListFiles, EndScan, EndMissing, Cleanup, ScanFile,
                          DeleteMissing, Missing, Deletable, fileVars, storeVars
<1>7. CASE ApiStep
  BY <1>7, ApiRows
<1>8. CASE DiskStep \/ CatalogRestart \/ UNCHANGED catalogVars
  BY <1>8 DEF DiskStep, MakeDir, RemoveDir, RemoveFile, WriteFile, Edit, CatalogRestart, catalogVars, fileVars,
              storeVars
<1>9. CASE CatalogCrash
  BY <1>9 DEF CatalogCrash, CutShort, fileVars, storeVars
<1>. QED
  BY <1>4, <1>5, <1>6, <1>7, <1>8, <1>9 DEF CatalogNext

LEMMA AliveHaveKBStep ==
  ASSUME Typed, OneWrite, Separate, LoseAnswers = FALSE, CachesTruthful, AliveHaveKB, [CatalogNext]_catalogVars
  PROVE  AliveHaveKB'
<1>. SUFFICES ASSUME NEW f \in Watched, Alive(f)'
              PROVE  remote'
  BY DEF AliveHaveKB
<1>1. CASE EnsureRegistered
  BY <1>1 DEF EnsureRegistered, CachesTruthful, kbVars
<1>2. CASE Alive(f)
  <2>1. remote
    BY <1>2 DEF AliveHaveKB
  <2>2. CASE UNCHANGED kbVars
    BY <2>1, <2>2 DEF kbVars
  <2>3. CASE RegisterFails
    BY <2>1, <2>3 DEF RegisterFails, RequestFails
  <2>4. CASE Unused /\ hand = {} /\ UNCHANGED <<row, hand>> /\ EnsureDeleted
    BY <1>2, <2>4, FilesType DEF Unused, Alive
  <2>5. CASE known' = FALSE /\ gone' = FALSE /\ remote' = remote
    BY <2>1, <2>5
  <2>. QED
    BY <1>1, <2>2, <2>3, <2>4, <2>5, StepIsKBStep DEF KBStep
<1>. QED
  BY <1>1, <1>2, AliveStep

(* An active watched file has its KB in BizRAG, whatever kills, failing  *)
(* requests and statements, and changes of the disk come between the steps *)
(* of the watcher (watcher.py, _cleanup_removed_kb_dirs), if the API       *)
(* leaves the watched files alone and no answer is lost.                   *)
THEOREM WatchedCorrect ==
  ASSUME Separate, LoseAnswers = FALSE
  PROVE  CatalogSpec => []WatchedHaveKB
<1>. DEFINE Inv == Typed /\ OneWrite /\ CachesTruthful /\ AliveHaveKB
<1>1. CatalogInit => Inv
  BY InitType, FilesType DEF CatalogInit, OneWrite, CachesTruthful, AliveHaveKB, Alive
<1>2. Inv /\ [CatalogNext]_catalogVars => Inv'
  BY TypeStep, OneWriteStep, StepIsKBStep, TruthfulStep, AliveHaveKBStep
<1>3. Inv => WatchedHaveKB
  BY DEF AliveHaveKB, Alive, WatchedHaveKB
<1>. QED
  BY <1>1, <1>2, <1>3, PTL DEF CatalogSpec

-----------------------------------------------------------------------------
(* A removed file stays away, so a file that was deleted is not there, and *)
(* a living one that a pass has neither found nor yet to look at is gone.  *)
AliveFound ==
  pass \in {"scan", "missing"} =>
    \A f \in Watched : Alive(f) => f \in expected \cup listed \/ disk[f] = Null

GoneForGood ==
  /\ \A f \in Watched : disk[f] # Null \/ row[f] # "none" \/ Alive(f) => f \in written
  /\ \A f \in Watched :
       row[f] = "deleted" \/ <<f, "deleted">> \in pending \cup handling =>
         disk[f] = Null /\ f \in written
  /\ pass # "off" => handling = {}
  /\ pass = "missing" => listed = {}
  /\ AliveFound

(* Steps that let no watched file live, die, come or be looked at.         *)
LEMMA GoneAlone ==
  ASSUME GoneForGood, UNCHANGED <<disk, written>>,
         \A f \in Watched : row'[f] \in {row[f], "active"} /\ (Alive(f)' => Alive(f)),
         \A f \in Watched : <<f, "deleted">> \in (pending \cup handling)' =>
                              <<f, "deleted">> \in pending \cup handling,
         \/ UNCHANGED <<pass, handling, listed, expected>>
         \/ pass' = "off"
         \/ UNCHANGED <<listed, expected>> /\ pass' # "off" /\ handling' = {}
            /\ pass' = "missing" /\ pass = "scan" /\ listed = {}
  PROVE  GoneForGood'
<1>1. \A f \in Watched : row'[f] # "none" => row[f] # "none" \/ Alive(f)
  BY DEF Alive
<1>2. \A f \in Watched : row'[f] = "deleted" => row[f] = "deleted"
  OBVIOUS
<1>. QED
  BY <1>1, <1>2 DEF GoneForGood, AliveFound

LEMMA DiskGone ==
  ASSUME Typed, Returning = {}, GoneForGood, DiskStep
  PROVE  GoneForGood'
<1>. USE DEF GoneForGood, AliveFound, Typed, DiskType
<1>1. ASSUME NEW changes, Edit(changes)
      PROVE  /\ UNCHANGED <<row, hand, handling, pass, listed, expected>>
             /\ pending' = pending \/ pending' = pending \cup changes
             /\ \A f \in Watched : Alive(f)' = Alive(f)
  BY <1>1 DEF Edit, fileVars, storeVars, passVars, Alive
<1>2. CASE MakeDir
  <2>1. Edit({<<Null, "added">>}) /\ UNCHANGED <<disk, written>>
    BY <1>2 DEF MakeDir
  <2>2. \A f : <<f, "deleted">> \in pending' => <<f, "deleted">> \in pending
    BY <1>1, <2>1
  <2>. QED
    BY <1>1, <2>1, <2>2
<1>3. CASE RemoveDir
  <2>1. Edit(OnDisk \X {"deleted"}) /\ disk' = [f \in Watched |-> Null] /\ UNCHANGED written
    BY <1>3 DEF RemoveDir
  <2>2. \A f \in Watched : <<f, "deleted">> \in pending' =>
                             <<f, "deleted">> \in pending \/ disk[f] # Null
    BY <1>1, <2>1 DEF OnDisk
  <2>. QED
    BY <1>1, <2>1, <2>2
<1>4. ASSUME NEW f \in Watched, RemoveFile(f)
      PROVE  GoneForGood'
  <2>1. /\ Edit({<<f, "deleted">>}) /\ disk' = [disk EXCEPT ![f] = Null] /\ UNCHANGED written
        /\ disk[f] # Null
    BY <1>4 DEF RemoveFile
  <2>2. \A g \in Watched : <<g, "deleted">> \in pending' =>
                             <<g, "deleted">> \in pending \/ g = f
    BY <1>1, <2>1
  <2>. QED
    BY <1>1, <2>1, <2>2
<1>5. ASSUME NEW f \in Watched, NEW c \in Contents \cup {Empty}, WriteFile(f, c)
      PROVE  GoneForGood'
  <2>1. /\ Edit({<<f, "added">>}) /\ disk' = [disk EXCEPT ![f] = c]
        /\ written' = written \cup {f}
        /\ disk[f] = Null => f \notin written
    BY <1>5 DEF WriteFile
  <2>2. \A g \in Watched : <<g, "deleted">> \in pending' => <<g, "deleted">> \in pending
    BY <1>1, <2>1
  <2>3. /\ row[f] # "deleted" /\ <<f, "deleted">> \notin pending \cup handling
        /\ Alive(f) => disk[f] # Null
    BY <2>1
  <2>. QED
    BY <1>1, <2>1, <2>2, <2>3
<1>. QED
  BY <1>2, <1>3, <1>4, <1>5 DEF DiskStep

LEMMA WriteGone ==
  ASSUME Typed, OneWrite, GoneForGood, WriteStep \/ WriteFault
  PROVE  GoneForGood'
<1>1. PICK w \in hand :
        WriteBlob(w) \/ WriteRow(w) \/ WriteVersion(w) \/ WriteEvent(w) \/ WriteFails(w)
  BY DEF WriteStep, WriteFault
<1>2. /\ row' \in {row, [row EXCEPT ![w.file] = "active"]}
      /\ hand' = {} \/ \E s \in Steps : hand' = {[w EXCEPT !.step = s]}
      /\ UNCHANGED <<disk, written, pending, handling, listed, expected, call>>
      /\ pass' \in {pass, "off"}
  BY <1>1, WriteRows
<1>3. \A s \in Steps : [w EXCEPT !.step = s].file = w.file
  BY DEF Typed, RowType, Writes
<1>4. row \in [Files -> {"none", "active", "deleted"}] /\ Watched \subseteq Files
  BY FilesType DEF Typed, RowType
<1>5. \A f \in Watched : row'[f] \in {row[f], "active"} /\ (Alive(f)' => Alive(f))
  BY <1>2, <1>3, <1>4 DEF Alive
<1>. QED
  BY <1>2, <1>5, GoneAlone

LEMMA UpsertGone ==
  ASSUME Typed, GoneForGood, NEW f \in Watched, Upsert(f)
  PROVE  /\ UNCHANGED <<row, orphans, torn, hollow>>
         /\ \A g \in Watched : Alive(g)' => Alive(g) \/ (g = f /\ disk[f] # Null)
<1>1. ~ (row[f] = "deleted" /\ disk[f] # Null)
  BY DEF GoneForGood
<1>. QED
  BY <1>1, UpsertRows DEF Alive

LEMMA DeletedGone ==
  ASSUME Typed, NEW f \in Watched, MarkDeleted(f), row[f] = "active"
  PROVE  /\ row' = [row EXCEPT ![f] = "deleted"] /\ UNCHANGED <<orphans, hollow, torn>>
         /\ \A g \in Watched : Alive(g)' => Alive(g)
         /\ \A g \in Watched : row'[g] = "deleted" => row[g] = "deleted" \/ g = f
         /\ \A g \in Watched : row'[g] # "none" => row[g] # "none"
<1>1. row \in [Files -> {"none", "active", "deleted"}] /\ Watched \subseteq Files
  BY FilesType DEF Typed, RowType
<1>. QED
  BY <1>1 DEF MarkDeleted, Alive

LEMMA HandlerGone ==
  ASSUME Typed, GoneForGood, HandlerStep
  PROVE  GoneForGood' /\ UNCHANGED <<orphans, hollow, torn>>
<1>. USE DEF GoneForGood, AliveFound
<1>1. CASE TakeChanges
  <2>1. /\ UNCHANGED <<disk, written, row, hand, orphans, hollow, torn>> /\ pass' = "off"
        /\ pending' = {} /\ handling' = pending
    BY <1>1 DEF TakeChanges, Idle, Free, diskVars, fileVars, storeVars, passVars
  <2>. QED
    BY <2>1 DEF Alive
<1>2. CASE HandleDirectory
  <2>1. /\ UNCHANGED <<disk, written, row, hand, orphans, hollow, torn, pending, pass, listed,
                       expected>>
        /\ handling # {}
        /\ \A f \in Watched : <<f, "deleted">> \in handling' => <<f, "deleted">> \in handling
    BY <1>2 DEF HandleDirectory, diskVars, fileVars, storeVars
  <2>. QED
    BY <2>1 DEF Alive
<1>3. ASSUME NEW f \in Watched, HandleAdded(f)
      PROVE  GoneForGood' /\ UNCHANGED <<orphans, hollow, torn>>
  <2>1. /\ UNCHANGED <<disk, written, pending, pass, listed, expected>> /\ pass = "off"
        /\ handling' \subseteq handling /\ Upsert(f)
    BY <1>3 DEF HandleAdded, diskVars, passVars
  <2>2. /\ UNCHANGED <<row, orphans, torn, hollow>>
        /\ \A g \in Watched : Alive(g)' => Alive(g) \/ (g = f /\ disk[f] # Null)
    BY <2>1, UpsertGone
  <2>. QED
    BY <2>1, <2>2
<1>4. ASSUME NEW f \in Watched, HandleDeleted(f)
      PROVE  GoneForGood' /\ UNCHANGED <<orphans, hollow, torn>>
  <2>1. /\ UNCHANGED <<disk, written, pending, pass, listed, expected>> /\ pass = "off"
        /\ handling' \subseteq handling /\ <<f, "deleted">> \in handling
        /\ UNCHANGED fileVars \/ (MarkDeleted(f) /\ row[f] = "active")
    BY <1>4 DEF HandleDeleted, Deletable, diskVars, passVars
  <2>2. CASE UNCHANGED fileVars
    BY <2>1, <2>2 DEF fileVars, storeVars, Alive
  <2>3. CASE MarkDeleted(f) /\ row[f] = "active"
    BY <2>1, <2>3, DeletedGone
  <2>. QED
    BY <2>1, <2>2, <2>3
<1>. QED
  BY <1>1, <1>2, <1>3, <1>4 DEF HandlerStep

LEMMA PassGone ==
  ASSUME Typed, GoneForGood, PassStep
  PROVE  GoneForGood' /\ UNCHANGED <<orphans, hollow, torn>>
<1>. USE DEF GoneForGood, AliveFound
<1>1. CASE StartPass
  <2>1. /\ UNCHANGED <<disk, written, row, hand, orphans, hollow, torn, pending, handling>>
        /\ handling = {} /\ pass' = "list"
    BY <1>1 DEF StartPass, Idle, Free, diskVars, fileVars, storeVars
  <2>. QED
    BY <2>1 DEF Alive
<1>2. CASE ListFiles
  <2>1. /\ UNCHANGED <<disk, written, row, hand, orphans, hollow, torn, pending, handling, expected>>
        /\ pass = "list" /\ pass' = "scan" /\ listed' = OnDisk
    BY <1>2 DEF ListFiles, diskVars, fileVars, storeVars
  <2>. QED
    BY <2>1 DEF OnDisk, Alive
<1>3. CASE EndScan \/ EndMissing \/ Cleanup
  <2>1. /\ UNCHANGED <<disk, written, row, hand, orphans, hollow, torn, pending, handling, listed,
                       expected>>
        /\ \/ pass = "scan" /\ listed = {} /\ pass' = "missing"
           \/ pass # "off" /\ pass' \in {"off", "cleanup"}
    BY <1>3 DEF EndScan, EndMissing, Cleanup, diskVars, fileVars, storeVars
  <2>. QED
    BY <2>1 DEF Alive
<1>4. ASSUME NEW f \in Watched, ScanFile(f)
      PROVE  GoneForGood' /\ UNCHANGED <<orphans, hollow, torn>>
  <2>1. /\ UNCHANGED <<disk, written, pending, handling, pass>> /\ pass = "scan"
        /\ listed' = listed \ {f} /\ Upsert(f)
        /\ expected' = IF disk[f] = Null THEN expected ELSE expected \cup {f}
    BY <1>4 DEF ScanFile, diskVars
  <2>2. /\ UNCHANGED <<row, orphans, torn, hollow>>
        /\ \A g \in Watched : Alive(g)' => Alive(g) \/ (g = f /\ disk[f] # Null)
    BY <2>1, UpsertGone
  <2>. QED
    BY <2>1, <2>2
<1>5. ASSUME NEW f \in Watched, DeleteMissing(f)
      PROVE  GoneForGood' /\ UNCHANGED <<orphans, hollow, torn>>
  <2>1. /\ UNCHANGED <<disk, written, pending, handling, listed, expected>>
        /\ pass = "missing" /\ row[f] = "active" /\ f \notin expected
        /\ \/ MarkDeleted(f) /\ pass' = pass
           \/ UNCHANGED fileVars /\ pass' = "off"
    BY <1>5 DEF DeleteMissing, Missing, Deletable, diskVars
  <2>2. disk[f] = Null /\ f \in written
    BY <2>1 DEF Alive
  <2>3. CASE UNCHANGED fileVars /\ pass' = "off"
    BY <2>1, <2>3 DEF fileVars, storeVars, Alive
  <2>4. CASE MarkDeleted(f) /\ pass' = pass
    BY <2>1, <2>2, <2>4, DeletedGone
  <2>. QED
    BY <2>1, <2>3, <2>4
<1>. QED
  BY <1>1, <1>2, <1>3, <1>4, <1>5 DEF PassStep

LEMMA ApiGone ==
  ASSUME Typed, Separate, GoneForGood, ApiStep
  PROVE  GoneForGood'
<1>1. /\ UNCHANGED <<disk, written, pending, handling, pass, listed, expected>>
      /\ \A f \in Watched : row'[f] = row[f] /\ (Alive(f)' => Alive(f))
  BY ApiRows DEF Alive
<1>. QED
  BY <1>1 DEF GoneForGood, AliveFound

LEMMA GoneStep ==
  ASSUME Typed, OneWrite, Separate, Returning = {}, GoneForGood, [CatalogNext]_catalogVars
  PROVE  GoneForGood'
<1>1. CASE CatalogCrash
  <2>1. /\ UNCHANGED <<disk, written, row>> /\ hand' = {} /\ pass' = "off"
        /\ pending' = {} /\ handling' = {}
    BY <1>1 DEF CatalogCrash, CutShort, diskVars, fileVars, storeVars
  <2>. QED
    BY <2>1 DEF GoneForGood, AliveFound, Alive
<1>2. CASE CatalogRestart \/ UNCHANGED catalogVars
  <2>1. UNCHANGED <<disk, written, row, hand, pass, pending, handling, listed, expected>>
    BY <1>2 DEF CatalogRestart, catalogVars, diskVars, fileVars, storeVars, passVars
  <2>. QED
    BY <2>1 DEF GoneForGood, AliveFound, Alive
<1>. QED
  BY <1>1, <1>2, DiskGone, WriteGone, HandlerGone, PassGone, ApiGone DEF CatalogNext

-----------------------------------------------------------------------------
(* Blobs and versions.                                                     *)

LEMMA KeptBlobs ==
  ASSUME BlobsMatchVersions, orphans' = orphans, hollow' \subseteq hollow, torn' = torn
  PROVE  BlobsMatchVersions'
BY DEF BlobsMatchVersions

LEMMA CutBlobs ==
  ASSUME Typed, BlobsMatchVersions, NEW w \in hand, NEW how \in {"crash", "error"},
         NEW o \in BOOLEAN, CutShort(w, how, o),
         o => (IF how = "crash" THEN w.step # "event" ELSE w.step = "blob"),
         \/ hollow' = hollow
         \/ hollow' = hollow \cup {w.file} /\ w.step = "event" /\ how = "error"
  PROVE  BlobsMatchVersions'
<1>1. w.step \in {"blob", "row", "version", "event"}
  BY DEF Typed, RowType, Writes, Steps
<1>2. /\ torn' = torn \cup {<<w.file, w.step, how>>}
      /\ orphans' = IF o THEN orphans \cup {w.file} ELSE orphans
  BY DEF CutShort
<1>3. ASSUME NEW f \in orphans', f \notin Returning
      PROVE  \/ <<f, "blob", "error">> \in torn'
             \/ \E s \in {"blob", "row", "version"} : <<f, s, "crash">> \in torn'
  <2>1. CASE f \in orphans
    BY <1>2, <1>3, <2>1 DEF BlobsMatchVersions
  <2>2. CASE f \notin orphans
    <3>1. o /\ f = w.file
      BY <1>2, <1>3, <2>2
    <3>. QED
      BY <1>1, <1>2, <3>1
  <2>. QED
    BY <2>1, <2>2
<1>4. \A f \in hollow' : <<f, "event", "error">> \in torn'
  BY <1>2 DEF BlobsMatchVersions
<1>. QED
  BY <1>3, <1>4 DEF BlobsMatchVersions

LEMMA BlobsStep ==
  ASSUME Typed, GoneForGood, BlobsMatchVersions, [CatalogNext]_catalogVars
  PROVE  BlobsMatchVersions'
<1>1. CASE DiskStep \/ CatalogRestart \/ UNCHANGED catalogVars
  BY <1>1, KeptBlobs DEF DiskStep, MakeDir, RemoveDir, RemoveFile, WriteFile, Edit, CatalogRestart, catalogVars,
                         fileVars, storeVars
<1>2. CASE HandlerStep \/ PassStep
  BY <1>2, HandlerGone, PassGone, KeptBlobs
<1>3. CASE ApiStep
  BY <1>3, KeptBlobs DEF ApiStep, CreateFile, DeleteFile, BeginUpdate, FinishUpdate, BeginWrite,
                         MarkDeleted, fileVars, storeVars
<1>4. CASE WriteStep
  BY <1>4, KeptBlobs DEF WriteStep, WriteBlob, WriteRow, WriteVersion, WriteEvent, storeVars
<1>5. CASE WriteFault
  <2>1. PICK w \in hand : WriteFails(w)
    BY <1>5 DEF WriteFault
  <2>2. /\ CutShort(w, "error", w.step = "blob") /\ (w.step = "blob") \in BOOLEAN
        /\ hollow' = hollow \/ (hollow' = hollow \cup {w.file} /\ w.step = "event")
    BY <2>1 DEF WriteFails
  <2>. QED
    BY <2>2, CutBlobs
<1>6. CASE CatalogCrash
  <2>1. CASE UNCHANGED fileVars
    BY <2>1, KeptBlobs DEF fileVars, storeVars
  <2>2. ASSUME NEW w \in hand, CutShort(w, "crash", w.step # "event"), UNCHANGED hollow
        PROVE  BlobsMatchVersions'
    <3>1. (w.step # "event") \in BOOLEAN /\ hollow' = hollow
      BY <2>2
    <3>. QED
      BY <2>2, <3>1, CutBlobs
  <2>. QED
    BY <1>6, <2>1, <2>2 DEF CatalogCrash
<1>. QED
  BY <1>1, <1>2, <1>3, <1>4, <1>5, <1>6 DEF CatalogNext

(* A blob without a version is left only by a save that failed or a crash  *)
(* before its version, a latest version without its blob only by an event  *)
(* that could not be stored, if no file comes back after its removal and   *)
(* the API leaves the watched files alone: an upsert then never meets a    *)
(* file that was deleted (watcher.py, _handle_upsert).                     *)
THEOREM BlobsCorrect ==
  ASSUME Separate, Returning = {}
  PROVE  CatalogSpec => []BlobsMatchVersions
<1>. DEFINE Inv == Typed /\ OneWrite /\ GoneForGood /\ BlobsMatchVersions
<1>1. CatalogInit => Inv
  BY InitType, FilesType
     DEF CatalogInit, OneWrite, GoneForGood, AliveFound, Alive, BlobsMatchVersions
<1>2. Inv /\ [CatalogNext]_catalogVars => Inv'
  BY TypeStep, OneWriteStep, GoneStep, BlobsStep
<1>. QED
  BY <1>1, <1>2, PTL DEF CatalogSpec

-----------------------------------------------------------------------------
(* The events of a file, for one caller at a time.  A file whose content is*)
(* being sent stays active.  A file whose last event is its deletion is not*)
(* active, unless its creation is being written or a write was cut short.  *)

OneCaller == \A c, d \in Callers : c = d

SendingActive == \A c \in Callers : call[c] # Null => row[call[c]] = "active"

DeletedInactive ==
  \A f \in Files :
    event[f] = "deleted" /\ row[f] = "active" =>
      Halfway(f) \/ \E w \in hand : w.file = f /\ w.type = "created"

HandSays ==
  \A w \in hand :
    /\ w.type = "updated" => Halfway(w.file) \/ event[w.file] # "deleted"
    /\ w.type = "created" /\ w.step \in {"blob", "row"} => row[w.file] # "active"
    /\ w.type = "deleted" => row[w.file] = "deleted" /\ w.step = "event"

EventInv == SendingActive /\ DeletedInactive /\ HandSays

Created(f) ==
  event[f] = "deleted" /\ event'[f] # "deleted" => event'[f] = "created" \/ Halfway(f)

EventStep == EventInv' /\ \A f \in Files : Created(f)

LEMMA EventsAlone ==
  ASSUME EventInv, UNCHANGED <<row, event, hand, torn>>,
         \A c \in Callers : call'[c] \in {call[c], Null}
  PROVE  EventStep
BY DEF EventStep, EventInv, SendingActive, DeletedInactive, HandSays, Created, Halfway

(* A write begins for a file that nobody is sending content of, or whose   *)
(* content has just arrived.                                               *)
LEMMA BeginEvents ==
  ASSUME Typed, EventInv, hand = {}, NEW f \in Files, NEW c \in Contents,
         NEW type \in {"created", "updated"}, UNCHANGED <<row, event, torn>>,
         hand' = {[file |-> f, content |-> c, type |-> type, step |-> "blob"]},
         type = "updated" <=> row[f] = "active",
         \A d \in Callers : call'[d] \in {call[d], Null}
  PROVE  EventStep
<1>1. DeletedInactive' /\ SendingActive'
  BY DEF EventInv, SendingActive, DeletedInactive, Halfway
<1>2. event[f] = "deleted" /\ row[f] = "active" => Halfway(f)
  BY DEF EventInv, DeletedInactive
<1>3. Halfway(f)' = Halfway(f)
  BY DEF Halfway
<1>4. HandSays'
  BY <1>2, <1>3 DEF HandSays
<1>. QED
  BY <1>1, <1>4 DEF EventStep, EventInv, Created

LEMMA DeleteEvents ==
  ASSUME Typed, EventInv, hand = {}, NEW f \in Files, MarkDeleted(f), UNCHANGED call,
         \A d \in Callers : call[d] # f
  PROVE  EventStep
<1>1. row \in [Files -> {"none", "active", "deleted"}]
  BY DEF Typed, RowType
<1>2. /\ row' = [row EXCEPT ![f] = "deleted"] /\ UNCHANGED <<event, torn>>
      /\ hand' = {[file |-> f, content |-> Null, type |-> "deleted", step |-> "event"]}
  BY DEF MarkDeleted
<1>3. SendingActive'
  BY <1>1, <1>2 DEF EventInv, SendingActive
<1>4. DeletedInactive'
  BY <1>1, <1>2 DEF EventInv, DeletedInactive, Halfway
<1>5. HandSays'
  BY <1>1, <1>2 DEF HandSays
<1>. QED
  BY <1>2, <1>3, <1>4, <1>5 DEF EventStep, EventInv, Created

LEMMA WriteEvents ==
  ASSUME Typed, OneWrite, EventInv, WriteStep
  PROVE  EventStep
<1>1. PICK w \in hand : WriteBlob(w) \/ WriteRow(w) \/ WriteVersion(w) \/ WriteEvent(w)
  BY DEF WriteStep
<1>2. /\ row \in [Files -> {"none", "active", "deleted"}] /\ w \in Writes
      /\ event \in [Files -> {"none", "created", "updated", "deleted"}] /\ w.file \in Files
      /\ \A v \in hand : v = w
  BY DEF Typed, RowType, Writes, OneWrite
<1>3. \A s \in Steps : /\ [w EXCEPT !.step = s].file = w.file
                       /\ [w EXCEPT !.step = s].type = w.type
                       /\ [w EXCEPT !.step = s].step = s
  BY <1>2 DEF Writes
<1>4. UNCHANGED <<call, torn>> /\ \A f \in Files : Halfway(f)' = Halfway(f)
  BY <1>1 DEF WriteBlob, WriteRow, WriteVersion, WriteEvent, Unwritten, storeVars, Halfway
<1>5. /\ w.type = "updated" => Halfway(w.file) \/ event[w.file] # "deleted"
      /\ w.type = "created" /\ w.step \in {"blob", "row"} => row[w.file] # "active"
      /\ w.type = "deleted" => row[w.file] = "deleted" /\ w.step = "event"
      /\ w.type \in {"created", "updated", "deleted"}
  BY <1>2 DEF EventInv, HandSays, Writes
<1>6. CASE WriteBlob(w)
  <2>1. UNCHANGED <<row, event>> /\ hand' = {[w EXCEPT !.step = "row"]} /\ w.step = "blob"
    BY <1>6 DEF WriteBlob, storeVars
  <2>2. PICK v : v = [w EXCEPT !.step = "row"]
    OBVIOUS
  <2>3. hand' = {v} /\ v.file = w.file /\ v.type = w.type /\ v.step = "row"
    BY <1>3, <2>1, <2>2 DEF Steps
  <2>4. SendingActive' /\ DeletedInactive'
    BY <1>2, <1>4, <2>1, <2>3 DEF EventInv, SendingActive, DeletedInactive
  <2>5. HandSays'
    BY <1>2, <1>4, <1>5, <2>1, <2>3 DEF HandSays
  <2>. QED
    BY <2>1, <2>4, <2>5 DEF EventStep, EventInv, Created
<1>7. CASE WriteRow(w)
  <2>1. /\ row' = [row EXCEPT ![w.file] = "active"] /\ event' = event
        /\ hand' = {[w EXCEPT !.step = "version"]} /\ w.step = "row"
    BY <1>7 DEF WriteRow
  <2>2. PICK v : v = [w EXCEPT !.step = "version"]
    OBVIOUS
  <2>3. hand' = {v} /\ v.file = w.file /\ v.type = w.type /\ v.step = "version"
    BY <1>3, <2>1, <2>2 DEF Steps
  <2>4. SendingActive'
    BY <1>2, <1>4, <2>1 DEF EventInv, SendingActive, Typed, CallType
  <2>5. DeletedInactive'
    BY <1>2, <1>4, <1>5, <2>1, <2>3 DEF EventInv, DeletedInactive
  <2>6. HandSays'
    BY <1>2, <1>4, <1>5, <2>1, <2>3 DEF HandSays
  <2>. QED
    BY <2>1, <2>4, <2>5, <2>6 DEF EventStep, EventInv, Created
<1>8. CASE WriteVersion(w)
  <2>1. /\ UNCHANGED <<row, event>> /\ hand' = {[w EXCEPT !.step = "event"]}
        /\ w.step = "version"
    BY <1>8 DEF WriteVersion
  <2>2. PICK v : v = [w EXCEPT !.step = "event"]
    OBVIOUS
  <2>3. hand' = {v} /\ v.file = w.file /\ v.type = w.type /\ v.step = "event"
    BY <1>3, <2>1, <2>2 DEF Steps
  <2>4. SendingActive' /\ DeletedInactive'
    BY <1>2, <1>4, <2>1, <2>3 DEF EventInv, SendingActive, DeletedInactive
  <2>5. HandSays'
    BY <1>2, <1>4, <1>5, <2>1, <2>3 DEF HandSays
  <2>. QED
    BY <2>1, <2>4, <2>5 DEF EventStep, EventInv, Created
<1>9. CASE WriteEvent(w)
  <2>1. row' = row /\ event' = [event EXCEPT ![w.file] = w.type] /\ hand' = {}
    BY <1>9 DEF WriteEvent
  <2>2. SendingActive'
    BY <1>4, <2>1 DEF EventInv, SendingActive
  <2>3. DeletedInactive'
    BY <1>2, <1>4, <1>5, <2>1 DEF EventInv, DeletedInactive
  <2>4. \A f \in Files : Created(f)
    BY <1>2, <1>5, <2>1 DEF Created
  <2>5. HandSays'
    BY <2>1 DEF HandSays
  <2>. QED
    BY <2>2, <2>3, <2>4, <2>5 DEF EventStep, EventInv
<1>. QED
  BY <1>1, <1>6, <1>7, <1>8, <1>9

LEMMA CutEvents ==
  ASSUME Typed, OneWrite, EventInv, NEW w \in hand, NEW how \in {"crash", "error"},
         NEW o \in BOOLEAN, CutShort(w, how, o), \A c \in Callers : call'[c] \in {call[c], Null}
  PROVE  EventStep
<1>1. /\ UNCHANGED <<row, event>> /\ hand' = {} /\ torn' = torn \cup {<<w.file, w.step, how>>}
  BY DEF CutShort
<1>2. w.step \in Steps /\ \A v \in hand : v = w
  BY DEF Typed, RowType, Writes, OneWrite
<1>3. SendingActive' /\ HandSays'
  BY <1>1 DEF EventInv, SendingActive, HandSays
<1>4. DeletedInactive'
  <2>. SUFFICES ASSUME NEW f \in Files, event[f] = "deleted", row[f] = "active"
                PROVE  Halfway(f)'
    BY <1>1 DEF DeletedInactive
  <2>1. CASE Halfway(f)
    BY <1>1, <2>1 DEF Halfway
  <2>2. CASE w.file = f /\ w.type = "created"
    <3>1. w.step \in {"version", "event"}
      BY <1>2, <2>2 DEF EventInv, HandSays, Steps
    <3>. QED
      BY <1>1, <2>2, <3>1 DEF Halfway
  <2>. QED
    BY <1>2, <2>1, <2>2 DEF EventInv, DeletedInactive
<1>. QED
  BY <1>1, <1>3, <1>4 DEF EventStep, EventInv, Created

(* The watcher's files are none of the caller's. *)
LEMMA WatcherEvents ==
  ASSUME Typed, Separate, EventInv, UNCHANGED call, hand = {}, NEW f \in Watched,
         Upsert(f) \/ MarkDeleted(f)
  PROVE  EventStep
<1>1. \A c \in Callers : call[c] # f
  BY FilesType DEF Separate, Typed, CallType
<1>2. CASE Upsert(f)
  <2>1. CASE UNCHANGED <<row, event, hand, torn>>
    BY <2>1, EventsAlone
  <2>2. ASSUME disk[f] # Null, disk[f] # Empty,
               BeginWrite(f, disk[f], IF row[f] = "active" THEN "updated" ELSE "created")
        PROVE  EventStep
    <3>1. disk[f] \in Contents /\ f \in Files
      BY <2>2, FilesType DEF Typed, DiskType
    <3>2. PICK type \in {"created", "updated"} :
            type = IF row[f] = "active" THEN "updated" ELSE "created"
      OBVIOUS
    <3>3. /\ UNCHANGED <<row, event, torn>> /\ (type = "updated" <=> row[f] = "active")
          /\ hand' = {[file |-> f, content |-> disk[f], type |-> type, step |-> "blob"]}
      BY <2>2, <3>2 DEF BeginWrite, storeVars
    <3>. QED
      BY <3>1, <3>3, BeginEvents
  <2>. QED
    BY <1>2, <2>1, <2>2 DEF Upsert, fileVars, storeVars
<1>3. CASE MarkDeleted(f)
  BY <1>1, <1>3, FilesType, DeleteEvents
<1>. QED
  BY <1>2, <1>3

LEMMA CallerEvents ==
  ASSUME Typed, OneCaller, EventInv, ApiStep
  PROVE  EventStep
<1>0. call \in [Callers -> ApiFiles \cup {Null}]
  BY DEF Typed, CallType
<1>1. ASSUME NEW c \in Callers, NEW f \in Files, CreateFile(c, f)
      PROVE  EventStep
  <2>1. PICK content \in Contents : BeginWrite(f, content, "created")
    BY <1>1 DEF CreateFile
  <2>2. /\ hand = {} /\ row[f] # "active" /\ UNCHANGED <<row, event, torn, call>>
        /\ hand' = {[file |-> f, content |-> content, type |-> "created", step |-> "blob"]}
    BY <1>1, <2>1 DEF CreateFile, Call, Idle, Free, BeginWrite, storeVars
  <2>. QED
    BY <2>2, BeginEvents
<1>2. ASSUME NEW c \in Callers, NEW f \in Files, DeleteFile(c, f)
      PROVE  EventStep
  <2>1. hand = {} /\ MarkDeleted(f) /\ UNCHANGED call /\ \A d \in Callers : call[d] # f
    BY <1>2, FilesType DEF DeleteFile, Call, Idle, Free, OneCaller
  <2>. QED
    BY <2>1, DeleteEvents
<1>3. ASSUME NEW c \in Callers, NEW f \in Files, BeginUpdate(c, f)
      PROVE  EventStep
  <2>1. /\ UNCHANGED <<row, event, hand, torn>> /\ row[f] = "active"
        /\ \A d \in Callers : call'[d] = f
    BY <1>0, <1>3 DEF BeginUpdate, fileVars, storeVars, OneCaller
  <2>2. DeletedInactive' /\ HandSays'
    BY <2>1 DEF EventInv, DeletedInactive, HandSays, Halfway
  <2>. QED
    BY <2>1, <2>2 DEF EventStep, EventInv, SendingActive, Created
<1>4. ASSUME NEW c \in Callers, FinishUpdate(c)
      PROVE  EventStep
  <2>1. /\ call[c] \in Files /\ row[call[c]] = "active" /\ hand = {}
        /\ \A d \in Callers : call'[d] = Null
    BY <1>0, <1>4, FilesType DEF FinishUpdate, Idle, Free, OneCaller, EventInv, SendingActive
  <2>2. CASE UNCHANGED fileVars
    <3>1. UNCHANGED <<row, event, hand, torn>>
      BY <2>2 DEF fileVars, storeVars
    <3>. QED
      BY <2>1, <3>1, EventsAlone
  <2>3. ASSUME NEW content \in Contents, BeginWrite(call[c], content, "updated")
        PROVE  EventStep
    <3>1. PICK f \in Files : f = call[c]
      BY <2>1
    <3>2. /\ UNCHANGED <<row, event, torn>> /\ row[f] = "active"
          /\ hand' = {[file |-> f, content |-> content, type |-> "updated", step |-> "blob"]}
      BY <2>1, <2>3, <3>1 DEF BeginWrite, storeVars
    <3>. QED
      BY <2>1, <3>2, BeginEvents
  <2>. QED
    BY <1>4, <2>2, <2>3 DEF FinishUpdate
<1>. QED
  BY <1>1, <1>2, <1>3, <1>4 DEF ApiStep

LEMMA EventStepOf ==
  ASSUME Typed, OneWrite, Separate, OneCaller, EventInv, [CatalogNext]_catalogVars
  PROVE  EventStep
<1>1. ASSUME NEW f \in Watched,
             HandleAdded(f) \/ ScanFile(f) \/ HandleDeleted(f) \/ DeleteMissing(f)
      PROVE  EventStep
  <2>1. CASE UNCHANGED <<row, event, hand, torn, call>>
    BY <2>1, EventsAlone
  <2>2. CASE hand = {} /\ UNCHANGED call /\ (Upsert(f) \/ MarkDeleted(f))
    BY <2>2, WatcherEvents
  <2>. QED
    BY <1>1, <2>1, <2>2
       DEF HandleAdded, ScanFile, HandleDeleted, DeleteMissing, Free, fileVars, storeVars
<1>2. CASE \/ DiskStep \/ TakeChanges \/ HandleDirectory
           \/ StartPass \/ ListFiles \/ EndScan \/ EndMissing \/ Cleanup
           \/ CatalogRestart \/ UNCHANGED catalogVars
  <2>1. UNCHANGED <<row, event, hand, torn, call>>
    BY <1>2
       DEF DiskStep, MakeDir, RemoveDir, RemoveFile, WriteFile, Edit, TakeChanges,
           HandleDirectory, StartPass, ListFiles, EndScan, EndMissing, Cleanup, CatalogRestart, catalogVars,
           fileVars, storeVars
  <2>. QED
    BY <2>1, EventsAlone
<1>3. CASE WriteFault
  <2>1. PICK w \in hand : WriteFails(w)
    BY <1>3 DEF WriteFault
  <2>2. CutShort(w, "error", w.step = "blob") /\ (w.step = "blob") \in BOOLEAN /\ UNCHANGED call
    BY <2>1 DEF WriteFails, Unwritten
  <2>. QED
    BY <2>2, CutEvents
<1>4. CASE CatalogCrash
  <2>1. \A c \in Callers : call'[c] = Null
    BY <1>4 DEF CatalogCrash
  <2>2. CASE UNCHANGED fileVars
    <3>1. UNCHANGED <<row, event, hand, torn>>
      BY <2>2 DEF fileVars, storeVars
    <3>. QED
      BY <2>1, <3>1, EventsAlone
  <2>3. ASSUME NEW w \in hand, CutShort(w, "crash", w.step # "event")
        PROVE  EventStep
    <3>1. (w.step # "event") \in BOOLEAN
      OBVIOUS
    <3>. QED
      BY <2>1, <2>3, <3>1, CutEvents
  <2>. QED
    BY <1>4, <2>2, <2>3 DEF CatalogCrash
<1>. QED
  BY <1>1, <1>2, <1>3, <1>4, WriteEvents, CallerEvents DEF CatalogNext, HandlerStep, PassStep

(* The first event of a file after its deletion says that it was created,  *)
(* unless a write of it stopped between row and event, if one caller at a  *)
(* time uses the API, and none on the watched files; two callers can break *)
(* it (run fc_update_race).                                                *)
THEOREM CreatedCorrect ==
  ASSUME Separate, OneCaller
  PROVE  CatalogSpec => DeletedThenCreated
<1>. DEFINE Inv == Typed /\ OneWrite /\ EventInv
<1>1. CatalogInit => Inv
  BY InitType DEF CatalogInit, OneWrite, EventInv, SendingActive, DeletedInactive, HandSays
<1>2. Inv /\ [CatalogNext]_catalogVars => Inv'
  BY TypeStep, OneWriteStep, EventStepOf DEF EventStep
<1>3. Inv /\ [CatalogNext]_catalogVars =>
        [\A f \in Files : event[f] = "deleted" /\ event'[f] # "deleted" =>
           event'[f] = "created" \/ Halfway(f)]_catalogVars
  BY EventStepOf DEF EventStep, Created
<1>. QED
  BY <1>1, <1>2, <1>3, PTL DEF CatalogSpec, DeletedThenCreated

=============================================================================
