-------------------------- MODULE SchemaMigration --------------------------
(***************************************************************************)
(* Opening the local store: the recovery of an interrupted migration, the  *)
(* tables that are created when they are missing, the migration of the     *)
(* findings to a synthetic key, the columns that sessions lack, and the    *)
(* version; then reviews are saved.  The process lock keeps two processes  *)
(* from doing it at once, but any of them may die between two statements.  *)
(*                                                                         *)
(* Python's sqlite3 opens a transaction before a statement that writes     *)
(* rows.  A statement that changes the schema is durable at once when no   *)
(* transaction is open, and part of it otherwise.                          *)
(***************************************************************************)
EXTENDS Naturals

CONSTANTS
  Findings,
  MaxCrashes     \* bound on the processes that die

ASSUME MigrationConstants == MaxCrashes \in Nat

VARIABLES
  disk,         \* what a process that opens the file would see
  view,         \* what the connection sees, with its uncommitted changes
  transaction,  \* whether a transaction is open
  statement,    \* the statement to run next
  crashes       \* processes that died while they changed something

migrationVars == <<disk, view, transaction, statement, crashes>>

(* review_findings: absent, with a key of its own ("keyed", of any earlier *)
(* version) or synthetic; review_findings_new; the columns of a brownfield *)
(* review in builder_sessions; the version.                                *)
Databases ==
  [main : {"absent", "keyed", "synthetic"}, mainRows : SUBSET Findings,
   temp : BOOLEAN, tempRows : SUBSET Findings,
   columns : BOOLEAN, version : {0, 2}]

Statements == {"closed", "recover", "create", "create_new", "copy", "drop",
               "rename", "columns", "version", "commit", "open", "insert",
               "saved"}

MigrationTypeOK ==
  /\ disk \in Databases /\ view \in Databases
  /\ transaction \in BOOLEAN /\ statement \in Statements
  /\ crashes \in 0..MaxCrashes

(* A new project, one of an earlier version, a current one, and the two    *)
(* halves of a migration that _recover_interrupted_... knows of: before    *)
(* the old table was dropped and before the new one was renamed.           *)
MigrationInit ==
  /\ disk \in {d \in Databases :
       /\ d.main = "absent" => d.mainRows = {} /\ (~d.temp => ~d.columns /\ d.version = 0)
       /\ ~d.temp => d.tempRows = {}
       /\ d.temp => d.main # "synthetic"
       /\ d.version = 2 <=> d.main = "synthetic" /\ d.columns}
  /\ view = disk /\ transaction = FALSE
  /\ statement = "closed" /\ crashes = 0

-----------------------------------------------------------------------------

Proceeds(from, to) == statement = from /\ statement' = to /\ UNCHANGED crashes

Schema(db) ==
  /\ view' = db /\ disk' = IF transaction THEN disk ELSE db
  /\ UNCHANGED transaction

Rows(db) == view' = db /\ transaction' = TRUE /\ UNCHANGED disk

AsIs == UNCHANGED <<disk, view, transaction>>

Connect ==
  /\ Proceeds("closed", "recover")
  /\ view' = disk /\ transaction' = FALSE /\ UNCHANGED disk

(* Faulty variant, used by a mutant of PROJECT.json only: the new table is *)
(* always renamed, which raises while the old one is there.                *)
RecoverRenamed ==
  /\ Proceeds("recover", "create")
  /\ view.temp => view.main = "absent"
  /\ IF view.temp THEN Schema([view EXCEPT !.main = "synthetic",
          !.mainRows = view.tempRows, !.temp = FALSE, !.tempRows = {}])
     ELSE AsIs

Renamed(db) ==
  [db EXCEPT !.main = "synthetic", !.mainRows = db.tempRows,
             !.temp = FALSE, !.tempRows = {}]

RecoverInterrupted ==
  /\ Proceeds("recover", "create")
  /\ IF ~view.temp THEN AsIs
     ELSE IF view.main = "absent" THEN Schema(Renamed(view))
     ELSE Schema([view EXCEPT !.temp = FALSE, !.tempRows = {}])

(* CREATE TABLE IF NOT EXISTS, each of the tables durable at once.         *)
CreateTables ==
  /\ Proceeds("create", IF view.main = "keyed" THEN "create_new" ELSE "columns")
  /\ IF view.main # "absent" THEN AsIs
     ELSE Schema([view EXCEPT !.main = "synthetic", !.columns = TRUE])

(* Faulty variant, used by a mutant of PROJECT.json only: the old table is *)
(* dropped before its rows are copied.                                     *)
CreateNewDropped ==
  /\ Proceeds("create_new", "copy")
  /\ Schema([view EXCEPT !.temp = TRUE, !.main = "absent", !.mainRows = {}])

CreateNew == Proceeds("create_new", "copy") /\ Schema([view EXCEPT !.temp = TRUE])

CopyRows ==
  /\ Proceeds("copy", "drop")
  /\ Rows([view EXCEPT !.tempRows = view.mainRows])

DropOld ==
  /\ Proceeds("drop", "rename")
  /\ Schema([view EXCEPT !.main = "absent", !.mainRows = {}])

RenameNew == Proceeds("rename", "columns") /\ Schema(Renamed(view))

(* Faulty variant, used by a mutant of PROJECT.json only: sessions of an   *)
(* earlier version keep their columns.                                     *)
AddColumnsMissed == Proceeds("columns", "version") /\ AsIs

AddColumns ==
  /\ Proceeds("columns", "version")
  /\ IF view.columns THEN AsIs ELSE Schema([view EXCEPT !.columns = TRUE])

SetVersion == Proceeds("version", "commit") /\ Rows([view EXCEPT !.version = 2])

CommitSchema ==
  /\ statement \in {"commit", "saved"} /\ statement' = "open"
  /\ disk' = view /\ transaction' = FALSE
  /\ UNCHANGED <<view, crashes>>

(* save_review_findings: the findings of before are deleted, the new ones  *)
(* inserted one by one.                                                    *)
DeleteFindings == Proceeds("open", "insert") /\ Rows([view EXCEPT !.mainRows = {}])

InsertFindings ==
  /\ statement = "insert" /\ UNCHANGED <<statement, crashes>>
  /\ \E f \in Findings \ view.mainRows :
       Rows([view EXCEPT !.mainRows = @ \cup {f}])

LastInserted == Proceeds("insert", "saved") /\ AsIs

(* A statement raises or the process is killed: what is not committed is   *)
(* rolled back.  Commands end without a death, too.                        *)
CloseOrDie ==
  /\ statement # "closed"
  /\ statement' = "closed"
  /\ IF statement = "open" THEN UNCHANGED crashes
     ELSE crashes < MaxCrashes /\ crashes' = crashes + 1
  /\ view' = disk /\ transaction' = FALSE /\ UNCHANGED disk

Opening ==
  \/ Connect \/ RecoverInterrupted \/ CreateTables \/ CreateNew \/ CopyRows
  \/ DropOld \/ RenameNew \/ AddColumns \/ SetVersion \/ CommitSchema

MigrationNext == Opening \/ DeleteFindings \/ InsertFindings \/ LastInserted \/ CloseOrDie

MigrationSpec ==
  MigrationInit /\ [][MigrationNext]_migrationVars /\ WF_migrationVars(Opening)

-----------------------------------------------------------------------------

(* The findings that the next process to open the store will find.         *)
Kept == IF disk.main = "absent" THEN disk.tempRows ELSE disk.mainRows

(* A store that is open has the current schema, nothing is left of any     *)
(* migration, and the connection sees what is stored.                      *)
OpenIsCurrent ==
  statement = "open" =>
    /\ disk.main = "synthetic" /\ ~disk.temp /\ disk.columns /\ disk.version = 2
    /\ view = disk /\ ~transaction

(* A store that has come to be open is whole, whatever was left behind by  *)
(* whom.                                                                   *)
StoreSafe == MigrationTypeOK /\ OpenIsCurrent

(* The store keeps the promise of FindingsTable wherever processes die,    *)
(* from each of the databases it may find.  A save that is under way has   *)
(* changed nothing yet.                                                    *)
Table == INSTANCE FindingsTable
  WITH findings <- Kept, open <- statement \in {"open", "insert", "saved"}

ImplementsTable == Table!TableSpec

(* However it was left, a store gets opened.                               *)
GetsOpened == statement = "closed" ~> statement = "open"
=============================================================================
