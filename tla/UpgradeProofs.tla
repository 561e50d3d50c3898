----------------------------- MODULE UpgradeProofs -----------------------------
(***************************************************************************)
(* Proofs about Upgrade, for every profile, every list of migrations and   *)
(* every number of crashes and failures.  IInv says where the rows of the  *)
(* older profile are at each step of a start.                              *)
(***************************************************************************)
EXTENDS Upgrade, TLAPS

\* The steps at which the original database is still the database, ...
Original == {"backup", "backupLog", "fold", "export", "export2", "verify", "unlink"}
\* ... those that follow the backup, and those that follow the replacement.
Copied == {"fold", "export", "export2", "verify", "unlink"}
Replaced == {"sidecars", "migrate", "dropped", "ensure", "ensureDropped", "serving"}
Pcs == Original \cup Replaced \cup {"down", "newKey", "probe", "create", "rename"}

TypeOK ==
  /\ key \in {"none", "partial", "good"}
  /\ db \in [kind : {"none", "plain", "cipher"}, rows : SUBSET Rows]
  /\ wal \in SUBSET Rows
  /\ bak \in [rows : SUBSET Rows, wal : SUBSET Rows]
  /\ enc \in [kind : {"none", "partial", "full"}, rows : SUBSET Rows]
  /\ version \in 0..Newest /\ vec \in {"none", "old", "new"}
  /\ documents \in {"ready", "queued"} /\ indexed \in BOOLEAN
  /\ pc \in Pcs /\ faults \in Nat /\ gap \in BOOLEAN /\ torn \in BOOLEAN /\ left \in BOOLEAN

\* The original has every row with its log; once it may go the backup has them.
InOriginal == db.kind = "plain" => Rows \subseteq db.rows \cup wal
StillOriginal == pc \in Original => db.kind = "plain"
HalfBackup == pc = "backupLog" => bak.rows = db.rows
InBackup == pc \in Copied \/ db.kind # "plain" => Rows \subseteq bak.rows \cup bak.wal

\* The copy has them when it is verified, and the database when it is replaced.
InCopy == pc \in {"verify", "unlink", "rename"} => enc.rows = Rows
InReplaced == db.kind = "cipher" /\ ~gap => db.rows = Rows
IsReplaced == pc \in Replaced => db.kind = "cipher"
OnlyGap == /\ db.kind = "none" => gap \/ pc = "rename"
           /\ pc \in {"create", "rename"} => db.kind = "none"
           /\ pc = "probe" => db.kind # "none"

\* The documents are queued while the dropped table is remembered.
Remembered ==
  /\ documents = "ready" /\ ~torn /\ pc \notin {"dropped", "ensureDropped"} => indexed
  /\ pc \in {"dropped", "ensureDropped"} => vec = "none"
  /\ pc = "dropped" => ~UpToDate /\ Upcoming \in VectorSteps

IInv ==
  /\ TypeOK /\ InOriginal /\ StillOriginal /\ HalfBackup /\ InBackup
  /\ InCopy /\ InReplaced /\ IsReplaced /\ OnlyGap /\ Remembered

-------------------------------------------------------------------------------

\* The initial states: every row is in the original or its log.
LEMMA Initially == Init => IInv
<1> SUFFICES ASSUME Init PROVE IInv
  OBVIOUS
<1>1. TypeOK
  <2>1. /\ db = [kind |-> "plain", rows |-> Rows \ wal] /\ wal \in SUBSET Rows
        /\ bak = [rows |-> {}, wal |-> {}] /\ enc = NoFile
    BY DEF Init
  <2>2. /\ db \in [kind : {"none", "plain", "cipher"}, rows : SUBSET Rows]
        /\ bak \in [rows : SUBSET Rows, wal : SUBSET Rows]
        /\ enc \in [kind : {"none", "partial", "full"}, rows : SUBSET Rows]
    BY <2>1 DEF NoFile
  <2>3. documents \in {"ready", "queued"} /\ indexed \in BOOLEAN
    BY DEF Init
  <2> QED
    BY <2>1, <2>2, <2>3 DEF Init, TypeOK, Pcs, Original, Replaced
<1>2. /\ InOriginal /\ StillOriginal /\ HalfBackup /\ InBackup
      /\ InCopy /\ InReplaced /\ IsReplaced /\ OnlyGap
  BY DEF Init, InOriginal, StillOriginal, HalfBackup, InBackup, Copied, Original, InCopy, InReplaced,
    IsReplaced, Replaced, OnlyGap
<1>3. Remembered
  BY DEF Init, Remembered
<1> QED
  BY <1>1, <1>2, <1>3 DEF IInv

\* Every step keeps the types: the last migration is never passed.
LEMMA TypesKept == ASSUME IInv, [Next]_vars PROVE TypeOK'
<1> USE UpgradeAssumption DEF IInv, TypeOK, NoFile, Unfinished, files, schema, faulty, Pcs, Original, Replaced, UpToDate, Upcoming
<1>1. CASE Start
  BY <1>1 DEF Start, Goto, Form
<1>2. CASE CreateKey
  BY <1>2 DEF CreateKey, Goto, Form
<1>3. CASE Probe
  BY <1>3 DEF Probe, Goto
<1>4. CASE Backup
  BY <1>4 DEF Backup, Goto
<1>5. CASE BackupLog
  BY <1>5 DEF BackupLog, Goto
<1>6. CASE Fold
  BY <1>6 DEF Fold, Goto
<1>7. CASE Export
  BY <1>7 DEF Export, Cleanup
<1>8. CASE ExportEnds
  BY <1>8 DEF ExportEnds, Goto
<1>9. CASE Verify
  BY <1>9 DEF Verify, Goto
<1>10. CASE Unlink
  BY <1>10 DEF Unlink, Goto
<1>11. CASE Rename
  BY <1>11 DEF Rename, Goto
<1>12. CASE DropSidecars
  BY <1>12 DEF DropSidecars, Goto
<1>13. CASE Create
  <2>1. db' \in [kind : {"none", "plain", "cipher"}, rows : SUBSET Rows]
    BY <1>13 DEF Create
  <2>2. version' = 0 /\ version' \in 0..Newest
    BY <1>13 DEF Create
  <2> QED
    BY <1>13, <2>1, <2>2 DEF Create, Goto
<1>14. CASE Migrate
  <2>1. version' \in 0..Newest
    BY <1>14 DEF Migrate, DropTable
  <2>2. /\ vec' \in {"none", "old", "new"} /\ documents' \in {"ready", "queued"}
        /\ indexed' \in BOOLEAN
    BY <1>14 DEF Migrate, DropTable, Rebuild
  <2>3. /\ pc' \in {"ensure", "dropped", "migrate"} /\ UNCHANGED faulty
        /\ UNCHANGED <<key, db, wal, bak, enc>>
    BY <1>14 DEF Migrate, DropTable, Goto
  <2> QED
    BY <2>1, <2>2, <2>3
<1>15. CASE Ensure
  BY <1>15, ZenonT(60) DEF Ensure, Goto, DropTable, Rebuild
<1>16. CASE Index
  BY <1>16 DEF Index
<1>17. CASE Quit
  BY <1>17 DEF Quit, Goto
<1>18. CASE Crash
  BY <1>18 DEF Crash, Recorded
<1>19. CASE Fail
  BY <1>19 DEF Fail, Recorded, MayBeAttached, Cleanup
<1>20. CASE UNCHANGED vars
  BY <1>20 DEF vars
<1> QED
  BY <1>1, <1>2, <1>3, <1>4, <1>5, <1>6, <1>7, <1>8, <1>9, <1>10, <1>11,
    <1>12, <1>13, <1>14, <1>15, <1>16, <1>17, <1>18, <1>19, <1>20 DEF Next,
    Step

\* No row leaves the original before the backup and its log have it.
LEMMA OriginalKept == ASSUME IInv, [Next]_vars PROVE InOriginal' /\ StillOriginal' /\ HalfBackup' /\ InBackup'
<1> USE UpgradeAssumption DEF IInv, TypeOK, InOriginal, StillOriginal,
  HalfBackup, InBackup, IsReplaced, OnlyGap, Original, Copied, Replaced, NoFile, Unfinished, files, schema, faulty
<1>1. CASE Start
  BY <1>1 DEF Start, Goto, Form
<1>2. CASE CreateKey
  BY <1>2 DEF CreateKey, Goto, Form
<1>3. CASE Probe
  BY <1>3 DEF Probe, Goto
<1>4. CASE Backup
  BY <1>4 DEF Backup, Goto
<1>5. CASE BackupLog
  BY <1>5 DEF BackupLog, Goto
<1>6. CASE Fold
  BY <1>6 DEF Fold, Goto
<1>7. CASE Export
  BY <1>7 DEF Export, Cleanup
<1>8. CASE ExportEnds
  BY <1>8 DEF ExportEnds, Goto
<1>9. CASE Verify
  BY <1>9 DEF Verify, Goto
<1>10. CASE Unlink
  BY <1>10 DEF Unlink, Goto
<1>11. CASE Rename
  BY <1>11 DEF Rename, Goto
<1>12. CASE DropSidecars
  BY <1>12 DEF DropSidecars, Goto
<1>13. CASE Create
  BY <1>13 DEF Create, Goto
<1>14. CASE Migrate
  BY <1>14 DEF Migrate, Goto, DropTable, Rebuild
<1>15. CASE Ensure
  BY <1>15 DEF Ensure, Goto, DropTable, Rebuild
<1>16. CASE Index
  BY <1>16 DEF Index
<1>17. CASE Quit
  BY <1>17 DEF Quit, Goto
<1>18. CASE Crash
  BY <1>18 DEF Crash, Recorded
<1>19. CASE Fail
  BY <1>19 DEF Fail, Recorded, MayBeAttached, Cleanup
<1>20. CASE UNCHANGED vars
  BY <1>20 DEF vars
<1> QED
  BY <1>1, <1>2, <1>3, <1>4, <1>5, <1>6, <1>7, <1>8, <1>9, <1>10, <1>11,
    <1>12, <1>13, <1>14, <1>15, <1>16, <1>17, <1>18, <1>19, <1>20 DEF Next,
    Step

\* The verified copy, and then the database made of it, have every row; there is
\* no database only while the copy is being renamed, or after a fault there.
LEMMA CopyKept == ASSUME IInv, [Next]_vars PROVE InCopy' /\ InReplaced' /\ IsReplaced' /\ OnlyGap'
<1> USE UpgradeAssumption DEF IInv, TypeOK, InOriginal, StillOriginal,
  InCopy, InReplaced, IsReplaced, OnlyGap, Original, Replaced, NoFile, Unfinished, files, schema, faulty
<1>1. CASE Start
  BY <1>1 DEF Start, Goto, Form
<1>2. CASE CreateKey
  BY <1>2 DEF CreateKey, Goto, Form
<1>3. CASE Probe
  BY <1>3 DEF Probe, Goto
<1>4. CASE Backup
  BY <1>4 DEF Backup, Goto
<1>5. CASE BackupLog
  BY <1>5 DEF BackupLog, Goto
<1>6. CASE Fold
  BY <1>6 DEF Fold, Goto
<1>7. CASE Export
  BY <1>7 DEF Export, Cleanup
<1>8. CASE ExportEnds
  BY <1>8 DEF ExportEnds, Goto
<1>9. CASE Verify
  BY <1>9 DEF Verify, Goto
<1>10. CASE Unlink
  BY <1>10 DEF Unlink, Goto
<1>11. CASE Rename
  BY <1>11 DEF Rename, Goto
<1>12. CASE DropSidecars
  BY <1>12 DEF DropSidecars, Goto
<1>13. CASE Create
  BY <1>13 DEF Create, Goto
<1>14. CASE Migrate
  BY <1>14 DEF Migrate, Goto, DropTable, Rebuild
<1>15. CASE Ensure
  BY <1>15 DEF Ensure, Goto, DropTable, Rebuild
<1>16. CASE Index
  BY <1>16 DEF Index
<1>17. CASE Quit
  BY <1>17 DEF Quit, Goto
<1>18. CASE Crash
  BY <1>18 DEF Crash, Recorded
<1>19. CASE Fail
  BY <1>19 DEF Fail, Recorded, MayBeAttached, Cleanup
<1>20. CASE UNCHANGED vars
  BY <1>20 DEF vars
<1> QED
  BY <1>1, <1>2, <1>3, <1>4, <1>5, <1>6, <1>7, <1>8, <1>9, <1>10, <1>11,
    <1>12, <1>13, <1>14, <1>15, <1>16, <1>17, <1>18, <1>19, <1>20 DEF Next,
    Step

\* A table that was dropped is remembered until its documents are queued.
LEMMA RememberedKept == ASSUME IInv, [Next]_vars PROVE Remembered'
<1> USE UpgradeAssumption DEF IInv, TypeOK, Remembered, UpToDate, Upcoming, Mismatch, files, schema, faulty
<1>1. CASE Start
  BY <1>1 DEF Start, Goto, Form
<1>2. CASE CreateKey
  BY <1>2 DEF CreateKey, Goto, Form
<1>3. CASE Probe
  BY <1>3 DEF Probe, Goto
<1>4. CASE Backup
  BY <1>4 DEF Backup, Goto
<1>5. CASE BackupLog
  BY <1>5 DEF BackupLog, Goto
<1>6. CASE Fold
  BY <1>6 DEF Fold, Goto
<1>7. CASE Export
  BY <1>7 DEF Export, Cleanup
<1>8. CASE ExportEnds
  BY <1>8 DEF ExportEnds, Goto
<1>9. CASE Verify
  BY <1>9 DEF Verify, Goto
<1>10. CASE Unlink
  BY <1>10 DEF Unlink, Goto
<1>11. CASE Rename
  BY <1>11 DEF Rename, Goto
<1>12. CASE DropSidecars
  BY <1>12 DEF DropSidecars, Goto
<1>13. CASE Create
  BY <1>13 DEF Create, Goto
<1>14. CASE Migrate
  BY <1>14 DEF Migrate, Goto, DropTable, Rebuild
<1>15. CASE Ensure
  BY <1>15 DEF Ensure, Goto, DropTable, Rebuild
<1>16. CASE Index
  BY <1>16 DEF Index
<1>17. CASE Quit
  BY <1>17 DEF Quit, Goto
<1>18. CASE Crash
  BY <1>18 DEF Crash, Recorded
<1>19. CASE Fail
  BY <1>19 DEF Fail, Recorded, MayBeAttached, Cleanup
<1>20. CASE UNCHANGED vars
  BY <1>20 DEF vars
<1> QED
  BY <1>1, <1>2, <1>3, <1>4, <1>5, <1>6, <1>7, <1>8, <1>9, <1>10, <1>11,
    <1>12, <1>13, <1>14, <1>15, <1>16, <1>17, <1>18, <1>19, <1>20 DEF Next,
    Step

-------------------------------------------------------------------------------

\* The invariant of the upgrade holds in every state.
THEOREM UpgradeInvariance == Spec => []IInv
<1>1. IInv /\ [Next]_vars => IInv'
  BY TypesKept, OriginalKept, CopyKept, RememberedKept DEF IInv
<1> QED
  BY Initially, <1>1, PTL DEF Spec

\* No crash or failure of a start loses a row of the older profile.
THEOREM RowsNeverLost == Spec => []RowsRetained
<1>1. IInv => RowsRetained
  BY DEF IInv, TypeOK, InOriginal, InBackup, RowsRetained
<1> QED
  BY UpgradeInvariance, <1>1, PTL

\* The application that serves after the upgrade serves every row of the older
\* profile, unless a fault struck between the unlink and the rename.
THEOREM RowsServed == Spec => []ServesRows
<1>1. IInv => ServesRows
  BY DEF IInv, InReplaced, IsReplaced, Replaced, ServesRows
<1> QED
  BY UpgradeInvariance, <1>1, PTL

\* A document is served as ready only with its vectors, unless a fault struck
\* between the drop of the table and the queueing of the documents.
THEOREM ReadyServed == Spec => []ReadyIsIndexed
<1>1. IInv => ReadyIsIndexed
  BY DEF IInv, Remembered, ReadyIsIndexed
<1> QED
  BY UpgradeInvariance, <1>1, PTL

===============================================================================
