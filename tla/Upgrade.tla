--------------------------------- MODULE Upgrade ---------------------------------
(* A start of the backend on an older profile: the key (security/dpapi.py), the  *)
(* plaintext database replaced by an encrypted one (security/encryption.py), the *)
(* schema migrations and the vector table (db/), with crashes and failures.      *)
EXTENDS Naturals, FiniteSets

CONSTANTS
  Rows,         \* committed rows of the older profile
  Newest,       \* the last migration; each brings the schema to its number
  VectorSteps,  \* the migrations that look at the vector table
  MaxFaults     \* bound on crashes and failures

ASSUME UpgradeAssumption ==
  /\ Rows # {} /\ Newest \in Nat
  /\ VectorSteps \subseteq 1..Newest /\ MaxFaults \in Nat

VARIABLES
  key,          \* .nocai.key: "none", "partial" or "good"
  db,           \* nocai.db: its kind, "none", "plain" or "cipher", and its rows
  wal,          \* rows that are only in its write-ahead log
  bak,          \* nocai.db.bak and its log
  enc,          \* nocai.db.encrypted: "none", "partial" or "full", and its rows
  version,      \* the schema version recorded in the database
  vec,          \* its vector table: "none", "old" or "new" dimension
  documents,    \* "ready", or "queued" for indexing
  indexed,      \* the ready documents' vectors are in the table
  pc, faults,
  gap,          \* history: a fault struck between the unlink and the rename
  torn,         \* history: a fault struck after the table was dropped
  left          \* history: a fault left a copy that could not be removed

files == <<key, db, wal, bak, enc>>
schema == <<version, vec, documents, indexed>>
faulty == <<faults, gap, torn, left>>
vars == <<files, schema, pc, faulty>>

NoFile == [kind |-> "none", rows |-> {}]
Unfinished == [kind |-> "partial", rows |-> {}]

Init ==
  /\ key = "none" /\ enc = NoFile
  /\ wal \in SUBSET Rows
  /\ db = [kind |-> "plain", rows |-> Rows \ wal]
  /\ bak = [rows |-> {}, wal |-> {}]
  /\ version \in 0..Newest
  /\ vec \in {"none", "old", "new"} /\ indexed = (vec # "none")
  /\ documents = IF indexed THEN "ready" ELSE "queued"
  /\ pc = "down" /\ faults = 0 /\ gap = FALSE /\ torn = FALSE /\ left = FALSE

Goto(l) == pc' = l /\ UNCHANGED faulty

-----------------------------------------------------------------------------
(* init_db: the key, then the database's form.                             *)

Form == IF db.kind = "none" THEN "create" ELSE "probe"

\* A key file of the wrong length stops the start.
Start ==
  /\ pc = "down" /\ key # "partial"
  /\ Goto(IF key = "none" THEN "newKey" ELSE Form)
  /\ UNCHANGED <<files, schema>>

\* The key is written in place.
CreateKey ==
  /\ pc = "newKey"
  /\ IF key = "none" THEN key' = "partial" /\ Goto("newKey")
                     ELSE key' = "good" /\ Goto(Form)
  /\ UNCHANGED <<db, wal, bak, enc, schema>>

\* Opened without the key: a plaintext database is to be migrated.  External:
\* closing the only connection usually folds the log into the database.
Probe ==
  /\ pc = "probe"
  /\ IF db.kind = "plain"
     THEN /\ \/ db' = [db EXCEPT !.rows = @ \cup wal] /\ wal' = {}
             \/ UNCHANGED <<db, wal>>
          /\ Goto("backup")
     ELSE UNCHANGED <<db, wal>> /\ Goto("migrate")
  /\ UNCHANGED <<key, bak, enc, schema>>

\* Mutant: the database file alone.
BackupFileOnly ==
  /\ pc = "backup"
  /\ bak' = [bak EXCEPT !.rows = db.rows] /\ Goto("fold")
  /\ UNCHANGED <<key, db, wal, enc, schema>>

\* The database is copied, ...
Backup ==
  /\ pc = "backup"
  /\ bak' = [bak EXCEPT !.rows = db.rows] /\ Goto("backupLog")
  /\ UNCHANGED <<key, db, wal, enc, schema>>

\* ... then its log, if it has one.
BackupLog ==
  /\ pc = "backupLog"
  /\ bak' = IF wal = {} THEN bak ELSE [bak EXCEPT !.wal = wal]
  /\ Goto("fold")
  /\ UNCHANGED <<key, db, wal, enc, schema>>

\* The checkpoint folds the log into the database.
Fold ==
  /\ pc = "fold"
  /\ db' = [db EXCEPT !.rows = @ \cup wal] /\ wal' = {}
  /\ Goto("export")
  /\ UNCHANGED <<key, bak, enc, schema>>

\* Mutant: the unfinished copy is left where it is.
CleanupNothing(attached) ==
  /\ pc' = "down"
  /\ UNCHANGED <<files, schema>>

\* The start fails; what the try block had written beside the database goes,
\* unless the connection that has it attached is still open: Windows, for which
\* the application is made, removes no open file.
Cleanup(attached) ==
  /\ enc' = IF attached THEN enc ELSE NoFile
  /\ pc' = "down"
  /\ UNCHANGED <<key, db, wal, bak, schema>>

\* Mutant: a copy that is there is taken for finished.
ExportReusing ==
  /\ pc = "export"
  /\ IF enc = NoFile THEN enc' = Unfinished /\ pc' = "export2" ELSE enc' = enc /\ pc' = "verify"
  /\ UNCHANGED <<key, db, wal, bak, schema, faulty>>

\* The export cannot create its tables in a copy left by an earlier start, and
\* nothing closes the connection that attached it.
Export ==
  /\ pc = "export"
  /\ IF enc = NoFile
     THEN enc' = Unfinished /\ pc' = "export2" /\ UNCHANGED <<key, db, wal, bak, schema>>
     ELSE Cleanup(TRUE)
  /\ UNCHANGED faulty

ExportEnds ==
  /\ pc = "export2"
  /\ enc' = [kind |-> "full", rows |-> db.rows \cup wal] /\ Goto("verify")
  /\ UNCHANGED <<key, db, wal, bak, schema>>

\* The copy opens with the key, which says nothing of what is in it.
Verify ==
  /\ pc = "verify"
  /\ Goto("unlink") /\ UNCHANGED <<files, schema>>

\* The verified copy takes the place of the original in two steps.
Unlink ==
  /\ pc = "unlink"
  /\ db' = NoFile /\ Goto("rename")
  /\ UNCHANGED <<key, wal, bak, enc, schema>>

Rename ==
  /\ pc = "rename"
  /\ db' = [kind |-> "cipher", rows |-> enc.rows]
  /\ enc' = NoFile /\ Goto("sidecars")
  /\ UNCHANGED <<key, wal, bak, schema>>

DropSidecars ==
  /\ pc = "sidecars"
  /\ wal' = {} /\ Goto("migrate")
  /\ UNCHANGED <<key, db, bak, enc, schema>>

\* Without a database there is a new one.
Create ==
  /\ pc = "create"
  /\ db' = [kind |-> "cipher", rows |-> {}] /\ Goto("migrate")
  /\ version' = 0 /\ vec' = "none" /\ documents' = "queued" /\ indexed' = FALSE
  /\ UNCHANGED <<key, wal, bak, enc>>

-----------------------------------------------------------------------------
(* run_migrations, and the coordinator's look at the vector table.         *)

UpToDate == version >= Newest
Upcoming == version + 1

Mismatch == vec = "old"

\* ensure_vector_schema drops a table of another dimension at once: the driver
\* opens no transaction before the first UPDATE.
DropTable(next) ==
  /\ vec' = "none" /\ indexed' = FALSE /\ Goto(next)
  /\ UNCHANGED <<files, version, documents>>

\* Mutant: the table is replaced, the documents stay as they are.
RebuildOnly(dropped) == vec' = "new" /\ documents' = documents

\* The documents are queued, and the table made, in the transaction.
Rebuild(dropped) ==
  /\ vec' = "new"
  /\ documents' = IF dropped THEN "queued" ELSE documents

Migrate ==
  /\ pc \in {"migrate", "dropped"}
  /\ IF UpToDate THEN Goto("ensure") /\ UNCHANGED <<files, schema>>
     ELSE IF Upcoming \in VectorSteps /\ Mismatch THEN DropTable("dropped")
     ELSE /\ version' = Upcoming
          /\ IF Upcoming \in VectorSteps THEN Rebuild(pc = "dropped")
                                         ELSE UNCHANGED <<vec, documents>>
          /\ Goto("migrate")
          /\ UNCHANGED <<files, indexed>>

\* VectorStore._get_conn, when the coordinator starts.
Ensure ==
  /\ pc \in {"ensure", "ensureDropped"}
  /\ IF Mismatch THEN DropTable("ensureDropped")
     ELSE /\ Rebuild(pc = "ensureDropped")
          /\ Goto("serving")
          /\ UNCHANGED <<files, version, indexed>>

-----------------------------------------------------------------------------

\* External: the coordinator indexes what is queued.
Index ==
  /\ pc = "serving" /\ documents = "queued"
  /\ documents' = "ready" /\ indexed' = TRUE
  /\ UNCHANGED <<files, version, vec, pc, faulty>>

Quit ==
  /\ pc = "serving"
  /\ Goto("down") /\ UNCHANGED <<files, schema>>

Recorded ==
  /\ gap' = (gap \/ pc = "rename")
  /\ torn' = (torn \/ pc \in {"dropped", "ensureDropped"})

\* The process is lost.
Crash ==
  /\ pc \notin {"down", "serving"} /\ faults < MaxFaults
  /\ faults' = faults + 1 /\ pc' = "down" /\ Recorded
  /\ left' = (left \/ enc # NoFile)
  /\ UNCHANGED <<files, schema>>

\* From the ATTACH to the DETACH the connection has the copy.
MayBeAttached ==
  {a \in BOOLEAN : (pc = "export2" => a) /\ (a => pc \in {"export", "export2"})}

\* An operation of the migration raises.
Fail ==
  /\ pc \in {"backup", "backupLog", "fold", "export", "export2", "verify", "unlink", "rename",
            "sidecars"}
  /\ faults < MaxFaults
  /\ faults' = faults + 1 /\ Recorded
  /\ \E attached \in MayBeAttached :
       left' = (left \/ (attached /\ enc # NoFile)) /\ Cleanup(attached)

Step == Start \/ CreateKey \/ Probe \/ Backup \/ BackupLog \/ Fold \/ Export \/ ExportEnds \/ Verify
          \/ Unlink \/ Rename \/ DropSidecars \/ Create \/ Migrate \/ Ensure

Next == Step \/ Index \/ Quit \/ Crash \/ Fail

Spec == Init /\ [][Next]_vars

\* A start that began goes on, and a stopped application is started again.
FairSpec == Spec /\ WF_vars(Step)

-----------------------------------------------------------------------------
(* Properties.                                                             *)

\* "Committed rows can live only in the -wal file" (encryption.py): at every
\* moment each row of the older profile is in the database, in the finished
\* copy, or in the backup with its log.
RowsRetained ==
  Rows \subseteq db.rows \cup wal \/ Rows \subseteq enc.rows \/ Rows \subseteq bak.rows \cup bak.wal

\* The application serves the whole older profile, unless a fault struck between
\* the removal of the original and the renaming of its copy: then it serves a
\* new and empty one.
ServesRows == pc = "serving" /\ ~gap => db.rows = Rows

\* A document that counts as ready has its vectors, unless a fault struck when
\* the table had been dropped and the documents were not queued yet.
ReadyIsIndexed == pc = "serving" /\ documents = "ready" /\ ~torn => indexed

\* A copy that a lost process or an export that raised left beside the original,
\* which is still the database.
Obstructed == left /\ enc # NoFile /\ db.kind = "plain"

\* A start that fails is followed by one that serves, unless the key file was
\* cut short when it was made or such a copy stands in the way of each export.
StartsAgain == pc = "down" ~> pc = "serving" \/ key = "partial" \/ Obstructed

=============================================================================
