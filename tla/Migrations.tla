------------------------------ MODULE Migrations -------------------------------
(***************************************************************************)
(* Opening the metadata store (metadata_store.py), which every process     *)
(* does as it starts: the schema of an older version is brought up to      *)
(* date, statement by statement (migrations/knowledge_bases.py and         *)
(* runtime_lifecycle.py), and the parameter files that older versions      *)
(* wrote into the workspaces are exchanged for the built-in ones they were *)
(* made of (source_parameters.py). API, bridge and worker start together,  *)
(* any of them may be killed, and those that are up serve calls that       *)
(* register knowledge bases.                                               *)
(*                                                                         *)
(* On MySQL every statement commits; on SQLite the first UPDATE opens a    *)
(* transaction that ends with _init_schema. Parameters are known by the    *)
(* profile they materialise to in their workspace. The five columns of     *)
(* rustfs_events are added alike and stand as one, "lease".                *)
(***************************************************************************)
EXTENDS Naturals, Sequences, FiniteSets

CONSTANTS
  Starters,        \* processes
  Bases,           \* knowledge bases
  BuiltIns,        \* the parameter files shipped, the preferred one first
  ProfileOf,       \* [BuiltIns -> Profiles]
  Profiles,        \* what parameters materialise to
  NoPath,
  MaxKills,        \* bound: processes killed
  MaxRegistrations \* bound: calls of register_kb

BuiltInFiles == {BuiltIns[i] : i \in DOMAIN BuiltIns}
LegacyFiles  == Bases \X {"config", "index"}

ASSUME MigrationsAssumption ==
  /\ BuiltIns \in Seq(BuiltInFiles) /\ ProfileOf \in [BuiltInFiles -> Profiles]
  /\ NoPath \notin BuiltInFiles \cup LegacyFiles \cup Profiles
  /\ BuiltInFiles \cap LegacyFiles = {}
  /\ MaxKills \in Nat /\ MaxRegistrations \in Nat

VARIABLES
  backend,  \* "mysql" or "sqlite"
  columns,  \* which there are of "old" (retriever_config_path), "path", "lease"
  base,     \* the row of each knowledge base: its old and its new path
  holds,    \* what each legacy file holds; NoPath: there is none
  at,       \* where each process is
  found,    \* the rows it has read, or the paths it has inferred
  wanted,   \* the parameters each knowledge base was registered with
  crossed,  \* knowledge bases registered again while a process had read rows
  kills, registrations

schemaVars    == <<backend, columns>>
migrationVars == <<schemaVars, base, holds, at, found, wanted, crossed, kills, registrations>>

ProfileAt(path) ==
  IF path \in BuiltInFiles THEN ProfileOf[path]
  ELSE IF path \in LegacyFiles THEN holds[path] ELSE NoPath

(* A fresh store, or one an older version has left: each knowledge base    *)
(* has its own materialised file, a built-in one, or none.                 *)
MigrationsInit ==
  /\ backend \in {"mysql", "sqlite"}
  /\ columns \in {{"old"}, {"path", "lease"}}
  /\ holds \in [LegacyFiles -> Profiles \cup {NoPath}]
  /\ \E where \in [Bases -> BuiltInFiles \cup LegacyFiles \cup {NoPath}] :
       /\ \A k \in Bases : where[k] \in LegacyFiles => where[k][1] = k /\ holds[where[k]] # NoPath
       /\ base = [k \in Bases |->
                    IF "old" \in columns THEN [old |-> where[k], path |-> NoPath]
                                         ELSE [old |-> NoPath, path |-> where[k]]]
       /\ wanted = [k \in Bases |-> ProfileAt(where[k])]
  /\ at = [p \in Starters |-> "down"]
  /\ found = [p \in Starters |-> [k \in Bases |-> NoPath]]
  /\ crossed = {} /\ kills = 0 /\ registrations = 0

-----------------------------------------------------------------------------
(* The schema. Whether a column is there is asked in one statement, and it *)
(* is added or dropped in another, which fails if somebody else was first. *)

Go(p, step) == at' = [at EXCEPT ![p] = step]
SchemaOnly  == UNCHANGED <<backend, holds, found, wanted, crossed, kills, registrations>>

Opens(p) ==
  /\ at[p] \in {"down", "failed"} /\ Go(p, "path?")
  /\ SchemaOnly /\ UNCHANGED <<columns, base>>

(* A faulty AskForColumn: the column is added without asking. *)
NeverAsk(p, question, column, add, next) ==
  /\ at[p] = question /\ Go(p, IF column = "old" /\ column \notin columns THEN next ELSE add)
  /\ SchemaOnly /\ UNCHANGED <<columns, base>>

AskForColumn(p, question, column, add, next) ==
  /\ at[p] = question /\ Go(p, IF (column \in columns) = (column = "old") THEN add ELSE next)
  /\ SchemaOnly /\ UNCHANGED <<columns, base>>

AddColumn(p, step, column, next) ==
  /\ at[p] = step
  /\ IF column \in columns THEN Go(p, "failed") /\ UNCHANGED columns
                           ELSE Go(p, next) /\ columns' = columns \cup {column}
  /\ SchemaOnly /\ UNCHANGED base

Filled ==
  [k \in Bases |-> IF base[k].path = NoPath THEN [base[k] EXCEPT !.path = base[k].old] ELSE base[k]]
Dropped(rows) == [k \in Bases |-> [rows[k] EXCEPT !.old = NoPath]]

CopyPaths(p) ==
  /\ backend = "mysql" /\ at[p] = "copy"
  /\ IF "old" \in columns THEN Go(p, "drop") /\ base' = Filled
                          ELSE Go(p, "failed") /\ UNCHANGED base
  /\ SchemaOnly /\ UNCHANGED columns

DropOld(p) ==
  /\ at[p] = "drop"
  /\ IF "old" \in columns
     THEN Go(p, "lease?") /\ columns' = columns \ {"old"} /\ base' = Dropped(base)
     ELSE Go(p, "failed") /\ UNCHANGED <<columns, base>>
  /\ SchemaOnly

(* SQLite: the copied table, its new name and the columns of rustfs_events *)
(* come with one commit.                                                   *)
Rebuild(p) ==
  /\ backend = "sqlite" /\ at[p] = "copy"
  /\ IF "old" \in columns
     THEN Go(p, "load") /\ columns' = {"path", "lease"} /\ base' = Dropped(Filled)
     ELSE Go(p, "failed") /\ UNCHANGED <<columns, base>>
  /\ SchemaOnly

InitSchema(p) ==
  \/ Opens(p)
  \/ AskForColumn(p, "path?", "path", "addPath", "old?")
  \/ AddColumn(p, "addPath", "path", "old?")
  \/ AskForColumn(p, "old?", "old", "copy", "lease?")
  \/ CopyPaths(p) \/ DropOld(p) \/ Rebuild(p)
  \/ AskForColumn(p, "lease?", "lease", "addLease", "load")
  \/ AddColumn(p, "addLease", "lease", "load")

-----------------------------------------------------------------------------
(* The parameter files. *)

FilesOnly == UNCHANGED <<schemaVars, wanted, crossed, kills, registrations>>

(* A faulty Inferred: the preferred one, whatever it materialises to. *)
Preferred(k, path) ==
  IF path \notin LegacyFiles \/ holds[path] = NoPath THEN NoPath ELSE BuiltIns[1]

(* infer_source_parameters_path_from_legacy_runtime: the built-in file     *)
(* that materialises to what the legacy file holds, the preferred one of   *)
(* several.                                                                *)
Inferred(k, path) ==
  LET Matches == {i \in DOMAIN BuiltIns : ProfileOf[BuiltIns[i]] = holds[path]}
  IN IF path \notin LegacyFiles \/ holds[path] = NoPath \/ Matches = {} THEN NoPath
     ELSE BuiltIns[CHOOSE i \in Matches : \A j \in Matches : i <= j]

LoadRows(p) ==
  /\ at[p] = "load" /\ Go(p, "infer")
  /\ found' = [found EXCEPT ![p] = [k \in Bases |-> base[k].path]]
  /\ FilesOnly /\ UNCHANGED <<base, holds>>

InferPaths(p) ==
  /\ at[p] = "infer" /\ Go(p, "rewrite")
  /\ found' = [found EXCEPT ![p] = [k \in Bases |-> Inferred(k, @[k])]]
  /\ FilesOnly /\ UNCHANGED <<base, holds>>

(* By kb_id, whatever the path is by now. *)
RewritePaths(p) ==
  /\ at[p] = "rewrite" /\ Go(p, "reload")
  /\ base' = [k \in Bases |-> IF found[p][k] = NoPath THEN base[k]
                              ELSE [base[k] EXCEPT !.path = found[p][k]]]
  /\ FilesOnly /\ UNCHANGED <<holds, found>>

ReloadRows(p) ==
  /\ at[p] = "reload" /\ Go(p, "clean")
  /\ found' = [found EXCEPT ![p] = [k \in Bases |-> base[k].path]]
  /\ FilesOnly /\ UNCHANGED <<base, holds>>

(* A legacy file is redundant if the row names the file it was made of. *)
Redundant(p, file) ==
  LET k == file[1]
  IN /\ found[p][k] # NoPath /\ found[p][k] # file
     /\ holds[file] # NoPath /\ Inferred(k, file) = found[p][k]

RemoveFile(p, file) ==
  /\ at[p] = "clean" /\ Redundant(p, file)
  /\ holds' = [holds EXCEPT ![file] = NoPath]
  /\ FilesOnly /\ UNCHANGED <<base, at, found>>

(* ... and may be removed between the look and the read of another start.  *)
FileVanishes(p, q, file) ==
  /\ p # q /\ at[q] = "clean" /\ Redundant(q, file)
  /\ \/ at[p] = "infer" /\ found[p][file[1]] = file
     \/ at[p] = "clean" /\ found[p][file[1]] \notin {NoPath, file}
  /\ Go(p, "failed")
  /\ holds' = [holds EXCEPT ![file] = NoPath]
  /\ FilesOnly /\ UNCHANGED <<base, found>>

ComesUp(p) ==
  /\ at[p] = "clean" /\ ~ \E file \in LegacyFiles : Redundant(p, file)
  /\ Go(p, "up")
  /\ found' = [found EXCEPT ![p] = [k \in Bases |-> NoPath]]
  /\ FilesOnly /\ UNCHANGED <<base, holds>>

Exchange(p) ==
  \/ LoadRows(p) \/ InferPaths(p) \/ RewritePaths(p) \/ ReloadRows(p) \/ ComesUp(p)
  \/ \E file \in LegacyFiles : RemoveFile(p, file)

Collides(p) == \E q \in Starters, file \in LegacyFiles : FileVanishes(p, q, file)

-----------------------------------------------------------------------------
StarterKilled(p) ==
  /\ at[p] # "down" /\ kills < MaxKills /\ kills' = kills + 1
  /\ Go(p, "down")
  /\ found' = [found EXCEPT ![p] = [k \in Bases |-> NoPath]]
  /\ UNCHANGED <<schemaVars, base, holds, wanted, crossed, registrations>>

(* register_kb, by a process that is up, for parameters that can be read.  *)
Registers(k, path) ==
  /\ \E p \in Starters : at[p] = "up"
  /\ registrations < MaxRegistrations /\ registrations' = registrations + 1
  /\ ProfileAt(path) # NoPath
  /\ base' = [base EXCEPT ![k].path = path]
  /\ wanted' = [wanted EXCEPT ![k] = ProfileAt(path)]
  /\ crossed' = IF \E q \in Starters : at[q] \in {"infer", "rewrite", "clean"}
                THEN crossed \cup {k} ELSE crossed \ {k}
  /\ UNCHANGED <<schemaVars, holds, at, found, kills>>

MigrationsNext ==
  \/ \E p \in Starters : InitSchema(p) \/ Exchange(p) \/ Collides(p) \/ StarterKilled(p)
  \/ \E k \in Bases : \E path \in BuiltInFiles \cup ({k} \X {"config", "index"}) :
       Registers(k, path)

MigrationsSpec == MigrationsInit /\ [][MigrationsNext]_migrationVars

(* Some process takes a step of its start, and what has failed to start is *)
(* started again.                                                          *)
MigrationsFairness == WF_migrationVars(\E p \in Starters : InitSchema(p) \/ Exchange(p))

MigrationsFairSpec == MigrationsSpec /\ MigrationsFairness

-----------------------------------------------------------------------------
(* The values of the variables. *)
MigrationsTypeOK ==
  /\ backend \in {"mysql", "sqlite"} /\ columns \subseteq {"old", "path", "lease"}
  /\ holds \in [LegacyFiles -> Profiles \cup {NoPath}]
  /\ \A k \in Bases : {base[k].old, base[k].path} \subseteq BuiltInFiles \cup LegacyFiles \cup {NoPath}
  /\ \A p \in Starters : at[p] \in {"down", "path?", "addPath", "old?", "copy", "drop", "lease?",
       "addLease", "load", "infer", "rewrite", "reload", "clean", "up", "failed"}

(* Wherever migrations are cut short and however many run at once, the row *)
(* of a knowledge base leads to a file that is there and materialises to   *)
(* the parameters it was registered with (knowledge_bases.py:64-152) - but *)
(* not if it is registered again while a process has its row in hand: the  *)
(* path inferred earlier is written over the new one, or the file it now   *)
(* names is removed.                                                       *)
ParametersKept ==
  \A k \in Bases \ crossed :
    ProfileAt(IF base[k].path # NoPath THEN base[k].path ELSE base[k].old) = wanted[k]

(* Starts that get into each other's way fail, but only until one of them  *)
(* is through: every process comes up once it is no longer killed, and     *)
(* with all its columns (metadata_store.py:275-284).                       *)
StartsConverge ==
  []<>(columns = {"path", "lease"} /\ \A p \in Starters : at[p] = "up")
=============================================================================
