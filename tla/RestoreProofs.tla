----------------------------- MODULE RestoreProofs -----------------------------
(***************************************************************************)
(* Proofs about Restore.  The settled profile changes at Commit only; the  *)
(* inductive invariant says, for each point of a start, where every part   *)
(* of an open transaction is, so that rolling back is always possible.     *)
(* The theorems assume that nothing raises between the committed journal   *)
(* and the end of the try block: with such a failure they do not hold.     *)
(***************************************************************************)
EXTENDS RestoreInvariant, TLAPS

NothingFailsAfterCommit == MayFail \cap Committed = {}

\* The parts a profile can have, and what a restore covers.
LEMMA Parts ==
  /\ Db \in Names /\ Wal \in Names /\ Db # Wal
  /\ \A r \in Restores : Covers[r] \subseteq Names /\ Wal \notin Covers[r] /\ Db \in Covers[r]
                         /\ Moved(r) \subseteq Names /\ r \in Contents /\ r # Blank
  /\ None \notin Restores /\ None # Blank /\ None # First /\ First # Blank /\ First \in Contents
  /\ Blank \in Contents
BY NamesAssumption, CoversAssumption, ContentsAssumption DEF Moved, Contents

\* Storing a part in a directory keeps the directories' type.
LEMMA PutPart ==
  ASSUME NEW f \in PartsType, NEW n \in Names, NEW c \in Contents \cup {None}
  PROVE [f EXCEPT ![n] = c] \in PartsType
BY DEF PartsType

LEMMA PutKept ==
  ASSUME NEW f \in [Restores -> PartsType], NEW r \in Restores, NEW n \in Names,
         NEW c \in Contents \cup {None}
  PROVE [f EXCEPT ![r][n] = c] \in [Restores -> PartsType]
BY DEF PartsType

\* The initial states are well-typed.
LEMMA InitType == Init => TypeOK
BY Parts, FaultsAssumption
   DEF Init, TypeOK, PartsType, NoParts, NoJournal, Pcs, Contents

\* The transaction of an open or committed journal is that of a restore.
LEMMA OfRestore == TypeOK /\ HistoryInv /\ journal.phase # "none" => of \in Restores
BY DEF TypeOK, HistoryInv, of

\* Every step keeps the types.
LEMMA StepType == TypeOK /\ PointInv /\ HistoryInv /\ [Next]_vars => TypeOK'
<1> SUFFICES ASSUME TypeOK, PointInv, HistoryInv, [Next]_vars PROVE TypeOK'
  OBVIOUS
<1> USE DEF TypeOK
<1>0. pc \in Forward \cup Backward \cup Committed => of \in Restores
  BY OfRestore DEF PointInv
<1>1. ASSUME NEW r \in Restores, Stage(r) PROVE TypeOK'
  <2>1. pending' \in PartsType
    BY <1>1, Parts DEF Stage, PartsType
  <2>2. QED BY <1>1, <2>1 DEF Stage
<1>2. CASE Exit
  <2>1. PICK c \in {None, root[Db]} : root' = [root EXCEPT ![Wal] = c]
    BY <1>2 DEF Exit
  <2>2. c \in Contents \cup {None}
    BY <2>1, Parts DEF PartsType
  <2>3. root' \in PartsType
    BY <2>1, <2>2, PutPart, Parts
  <2>4. QED BY <1>2, <2>3 DEF Exit, Pcs
<1>3. CASE Launch
  <2>1. Ensured \in PartsType
    BY Parts DEF Ensured, PartsType
  <2>2. Entry \in Pcs
    BY DEF Entry, Pcs, Recommitted, Backward
  <2>3. Entries \subseteq Names
    BY Parts, OfRestore DEF Entries
  <2>4. QED BY <1>3, <2>1, <2>2, <2>3 DEF Launch
<1>4. CASE Validate
  BY <1>4 DEF Validate, Abandon, fileVars, Pcs, PointInv
<1>5. CASE WriteJournal
  <2>1. staged \in Restores
    BY <1>5 DEF WriteJournal, PointInv
  <2>2. Existing(staged) \subseteq Names
    BY <2>1, Parts DEF Existing
  <2>3. QED BY <1>5, <2>1, <2>2, Parts DEF WriteJournal, Pcs, Forward
<1>6. CASE Save
  <2>1. PICK n \in todo :
          /\ name' = n
          /\ IF n \in journal.existed
             THEN /\ saved' = [saved EXCEPT ![of][n] = root[n]]
                  /\ root' = [root EXCEPT ![n] = None]
             ELSE UNCHANGED <<saved, root>>
    BY <1>6 DEF Save
  <2>2. n \in Names /\ root[n] \in Contents \cup {None} /\ of \in Restores
    BY <2>1, <1>6, <1>0 DEF PartsType, Save, Forward
  <2>3. root' \in PartsType /\ saved' \in [Restores -> PartsType]
    <3>1. [root EXCEPT ![n] = None] \in PartsType
      BY <2>2, PutPart
    <3>2. [saved EXCEPT ![of][n] = root[n]] \in [Restores -> PartsType]
      BY <2>2, PutKept
    <3>3. QED BY <2>1, <3>1, <3>2
  <2>4. QED BY <1>6, <2>1, <2>2, <2>3 DEF Save, Pcs, Forward
<1>7. CASE Install
  <2>1. pending[name] \in Contents \cup {None}
    BY DEF PartsType
  <2>2. [root EXCEPT ![name] = pending[name]] \in PartsType
        /\ [pending EXCEPT ![name] = None] \in PartsType
    BY <2>1, PutPart
  <2>3. QED BY <1>7, <2>2 DEF Install, Pcs, Forward
<1>8. CASE Remap
  <2>1. PICK c \in {root[Wal], root[Db]} : root' = [root EXCEPT ![Wal] = c]
    BY <1>8 DEF Remap
  <2>2. c \in Contents \cup {None}
    BY <2>1, Parts DEF PartsType
  <2>3. root' \in PartsType
    BY <2>1, <2>2, PutPart, Parts
  <2>4. QED BY <1>8, <2>3 DEF Remap, Pcs, Forward
<1>9. CASE Close
  <2>1. root' \in PartsType
    BY <1>9, PutPart, Parts DEF Close
  <2>2. root[Db] \in Contents \cup {None}
    BY Parts DEF PartsType
  <2>3. QED BY <1>9, <2>1, <2>2 DEF Close, Pcs, Forward
<1>10. CASE Commit
  BY <1>10 DEF Commit, Pcs, Committed
<1>11. CASE Shelve
  <2>1. NoParts \in PartsType
    BY DEF NoParts, PartsType
  <2>2. QED BY <1>11, <2>1 DEF Shelve, Pcs, Committed, Recommitted
<1>12. CASE Unlink
  BY <1>12 DEF Unlink, NoJournal, Pcs
<1>13. CASE Discard
  <2>1. PICK n \in todo :
          \/ Abandon
          \/ /\ discarded' = [discarded EXCEPT ![of][n] = root[n]]
             /\ root' = [root EXCEPT ![n] = None]
             /\ name' = n /\ pc' = "return"
             /\ UNCHANGED <<staged, pending, journal, made, saved, mapped, todo, used>>
          \/ /\ name' = n /\ pc' = "return"
             /\ UNCHANGED <<fileVars, todo, used>>
    BY <1>13 DEF Discard
  <2>2. n \in Names /\ root[n] \in Contents \cup {None} /\ of \in Restores /\ faults' = faults
    BY <2>1, <1>13, <1>0 DEF PartsType, Discard, Backward
  <2>3. CASE Abandon
    BY <2>2, <2>3 DEF Abandon, fileVars, Pcs
  <2>4. CASE /\ discarded' = [discarded EXCEPT ![of][n] = root[n]]
             /\ root' = [root EXCEPT ![n] = None]
             /\ name' = n /\ pc' = "return"
             /\ UNCHANGED <<staged, pending, journal, made, saved, mapped, todo, used>>
    <3>1. root' \in PartsType /\ discarded' \in [Restores -> PartsType]
      BY <2>2, <2>4, PutPart, PutKept
    <3>2. QED BY <2>2, <2>4, <3>1 DEF Pcs, Backward
  <2>5. CASE name' = n /\ pc' = "return" /\ UNCHANGED <<fileVars, todo, used>>
    BY <2>2, <2>5 DEF fileVars, Pcs, Backward
  <2>6. QED BY <2>1, <2>3, <2>4, <2>5
<1>14. CASE Return
  <2>1. of \in Restores
    BY <1>14, <1>0 DEF Return, Backward
  <2>2. saved[of][name] \in Contents \cup {None}
    BY <2>1 DEF PartsType
  <2>3. [root EXCEPT ![name] = saved[of][name]] \in PartsType
    BY <2>2, PutPart
  <2>4. [saved EXCEPT ![of][name] = None] \in [Restores -> PartsType]
    BY <2>1, PutKept
  <2>5. QED BY <1>14, <2>3, <2>4 DEF Return, Pcs, Backward
<1>15. CASE Forget
  BY <1>15 DEF Forget, NoJournal, Pcs
<1>16. CASE Drop
  BY <1>16 DEF Drop, NoParts, PartsType, Pcs
<1>17. CASE Crash
  BY <1>17, FaultsAssumption DEF Crash, Abandon, fileVars, Pcs
<1>18. CASE Fail
  <2>1. root' \in PartsType
    BY <1>18, PutPart, Parts DEF Fail
  <2>2. faults' \in 0..MaxFaults
    BY <1>18, FaultsAssumption DEF Fail
  <2>3. Moved(of) \subseteq Names
    BY <1>18, <1>0, Parts DEF Fail
  <2>4. QED BY <1>18, <2>1, <2>2, <2>3 DEF Fail, Pcs, Backward
<1>19. CASE UNCHANGED vars
  BY <1>19 DEF vars, fileVars
<1>20. QED
  BY <1>1, <1>2, <1>3, <1>4, <1>5, <1>6, <1>7, <1>8, <1>9, <1>10, <1>11, <1>12,
     <1>13, <1>14, <1>15, <1>16, <1>17, <1>18, <1>19 DEF Next, Step

-----------------------------------------------------------------------------
(* The parts of the invariant that do not concern what is served.          *)

WhereInv == PointInv /\ HistoryInv /\ PendingInv /\ OpenInv /\ ForwardInv /\ BackwardInv /\ DiscardInv

LEMMA StageWhere == ASSUME TypeOK, WhereInv, NEW r \in Restores, Stage(r) PROVE WhereInv'
<1> USE Parts DEF Stage, WhereInv, TypeOK, Forward, Backward, Committed, Recommitted
<1>1. PointInv'
  BY DEF PointInv
<1>2. HistoryInv'
  BY DEF HistoryInv, of
<1>3. PendingInv'
  BY DEF PendingInv
<1>4. OpenInv' /\ DiscardInv'
  BY DEF OpenInv, DiscardInv, of, Undoable, Moved
<1>5. ForwardInv' /\ BackwardInv'
  BY DEF ForwardInv, BackwardInv
<1> QED BY <1>1, <1>2, <1>3, <1>4, <1>5

LEMMA ExitWhere == ASSUME TypeOK, WhereInv, Exit PROVE WhereInv'
<1> USE Parts DEF Exit, WhereInv, TypeOK, Forward, Backward, Committed, Recommitted
<1>1. PointInv'
  BY DEF PointInv
<1>2. HistoryInv' /\ PendingInv'
  BY DEF HistoryInv, PendingInv, of
<1>3. OpenInv' /\ DiscardInv'
  BY DEF OpenInv, DiscardInv, PointInv, NoJournal
<1>4. ForwardInv' /\ BackwardInv'
  BY DEF ForwardInv, BackwardInv
<1> QED BY <1>1, <1>2, <1>3, <1>4

LEMMA LaunchWhere == ASSUME TypeOK, WhereInv, Launch PROVE WhereInv'
<1> USE Parts DEF Launch, WhereInv, TypeOK, Forward, Backward, Committed, Recommitted
<1>1. PointInv'
  BY DEF PointInv, HistoryInv, Entry, Entries, of
<1>2. HistoryInv' /\ PendingInv'
  BY DEF HistoryInv, PendingInv, Entry, of
<1>3. OpenInv'
  BY DEF OpenInv, of, Moved
<1>4. DiscardInv'
  BY DEF DiscardInv, of, Undoable, Ensured
<1>5. ForwardInv' /\ BackwardInv'
  BY DEF ForwardInv, BackwardInv, Entry, Entries, of, Moved
<1> QED BY <1>1, <1>2, <1>3, <1>4, <1>5

LEMMA AbandonWhere == ASSUME TypeOK, WhereInv, Abandon PROVE WhereInv'
<1> USE Parts DEF Abandon, fileVars, WhereInv, TypeOK, Forward, Backward, Committed, Recommitted
<1>1. PointInv' /\ HistoryInv' /\ PendingInv'
  BY DEF PointInv, HistoryInv, PendingInv, of
<1>2. OpenInv' /\ DiscardInv'
  BY DEF OpenInv, DiscardInv, of, Undoable, Moved
<1>3. ForwardInv' /\ BackwardInv'
  BY DEF ForwardInv, BackwardInv
<1> QED BY <1>1, <1>2, <1>3

LEMMA ValidateWhere == ASSUME TypeOK, WhereInv, Validate PROVE WhereInv'
<1> USE Parts DEF WhereInv, TypeOK, Forward, Backward, Committed, Recommitted
<1>0. CASE Abandon
  BY <1>0, AbandonWhere
<1>1. CASE ~Abandon
  <2> USE <1>1 DEF Validate
  <2>1. PointInv'
    BY DEF PointInv, Unusable
  <2>2. HistoryInv' /\ PendingInv'
    BY DEF HistoryInv, PendingInv, PointInv, Unusable, NoJournal
  <2>3. OpenInv' /\ DiscardInv'
    BY DEF OpenInv, DiscardInv, PointInv, NoJournal
  <2>4. ForwardInv' /\ BackwardInv'
    BY DEF ForwardInv, BackwardInv
  <2> QED BY <2>1, <2>2, <2>3, <2>4
<1> QED BY <1>0, <1>1

LEMMA JournalWhere == ASSUME TypeOK, WhereInv, WriteJournal PROVE WhereInv'
<1> USE Parts DEF WriteJournal, WhereInv, TypeOK, Forward, Backward, Committed, Recommitted
<1>0. staged \in Restores /\ of' = staged /\ journal'.phase = "open"
      /\ journal'.existed = Existing(staged) /\ saved[staged] = NoParts /\ discarded[staged] = NoParts
  BY DEF PointInv, HistoryInv, of
<1>1. PointInv'
  BY <1>0 DEF PointInv
<1>2. HistoryInv' /\ PendingInv'
  BY <1>0 DEF HistoryInv, PendingInv, PointInv
<1>3. OpenInv' /\ DiscardInv'
  BY <1>0 DEF OpenInv, DiscardInv, Existing, Moved, NoParts, Undoable
<1>4. ForwardInv'
  BY <1>0 DEF ForwardInv, Existing, Moved, NoParts, PendingInv, PointInv
<1>5. BackwardInv'
  BY DEF BackwardInv
<1> QED BY <1>1, <1>2, <1>3, <1>4, <1>5

LEMMA SaveWhere == ASSUME TypeOK, WhereInv, Save PROVE WhereInv'
<1> USE Parts DEF Save, WhereInv, TypeOK, Forward, Backward, Committed, Recommitted, of
<1>0. of \in Restores /\ journal.phase = "open" /\ pc' = "install"
  BY OfRestore DEF PointInv
<1>1. PICK n \in todo :
        /\ name' = n
        /\ IF n \in journal.existed
           THEN /\ saved' = [saved EXCEPT ![of][n] = root[n]]
                /\ root' = [root EXCEPT ![n] = None]
           ELSE UNCHANGED <<saved, root>>
  OBVIOUS
<1>2. n \in Names /\ saved[of][n] = None /\ (root[n] # None <=> n \in journal.existed)
  BY DEF ForwardInv
<1>3. /\ \A m \in Names : m # n => saved'[of][m] = saved[of][m] /\ root'[m] = root[m]
      /\ \A r \in Restores : r # of => saved'[r] = saved[r]
      /\ saved'[of][n] = root[n] /\ root'[n] = None
  BY <1>0, <1>1, <1>2 DEF PartsType
<1>4. PointInv'
  BY <1>0, <1>1 DEF PointInv
<1>5. HistoryInv' /\ PendingInv'
  BY <1>0, <1>3 DEF HistoryInv, PendingInv
<1>6. OpenInv'
  BY <1>0, <1>2, <1>3 DEF OpenInv
<1>7. DiscardInv'
  BY <1>0, <1>3 DEF DiscardInv, ForwardInv, NoParts, Undoable
<1>8. ForwardInv'
  BY <1>0, <1>1, <1>2, <1>3 DEF ForwardInv, Moved
<1>9. BackwardInv'
  BY <1>0 DEF BackwardInv
<1> QED BY <1>4, <1>5, <1>6, <1>7, <1>8, <1>9

LEMMA InstallWhere == ASSUME TypeOK, WhereInv, Install PROVE WhereInv'
<1> USE Parts DEF Install, WhereInv, TypeOK, Forward, Backward, Committed, Recommitted, of
<1>0. of \in Restores /\ journal.phase = "open" /\ pc' \in {"remap", "save"} /\ staged = of
  BY OfRestore DEF PointInv
<1>1. name \in todo /\ root[name] = None /\ todo \subseteq Moved(of)
      /\ (name \in journal.existed <=> saved[of][name] # None)
  BY DEF PointInv, ForwardInv
<1>2. /\ \A m \in Names : m # name => root'[m] = root[m] /\ pending'[m] = pending[m]
      /\ root'[name] = pending[name] /\ pending'[name] = None
  BY <1>1 DEF PartsType
<1>3. pending[name] = IF name \in Covers[of] THEN of ELSE None
  BY <1>0, <1>1 DEF ForwardInv, PendingInv
<1>4. PointInv'
  BY <1>0 DEF PointInv
<1>5. HistoryInv' /\ PendingInv'
  BY <1>0, <1>2 DEF HistoryInv, PendingInv
<1>6. OpenInv' /\ DiscardInv'
  BY <1>0 DEF OpenInv, DiscardInv, ForwardInv, NoParts
<1>7. ForwardInv'
  BY <1>0, <1>1, <1>2, <1>3 DEF ForwardInv, Moved
<1>8. BackwardInv'
  BY <1>0 DEF BackwardInv
<1> QED BY <1>4, <1>5, <1>6, <1>7, <1>8

LEMMA RemapWhere == ASSUME TypeOK, WhereInv, Remap PROVE WhereInv'
<1> USE Parts DEF Remap, WhereInv, TypeOK, Forward, Backward, Committed, Recommitted, of
<1>0. of \in Restores /\ journal.phase = "open" /\ todo = {}
  BY OfRestore DEF PointInv
<1>1. \A m \in Names : m # Wal => root'[m] = root[m]
  BY DEF PartsType
<1>2. PointInv' /\ HistoryInv' /\ PendingInv'
  BY <1>0, <1>1 DEF PointInv, HistoryInv, PendingInv
<1>3. OpenInv' /\ DiscardInv'
  BY <1>0, <1>1 DEF OpenInv, DiscardInv, Undoable
<1>4. ForwardInv'
  BY <1>0, <1>1 DEF ForwardInv, PartsType
<1>5. BackwardInv'
  BY DEF BackwardInv
<1> QED BY <1>2, <1>3, <1>4, <1>5

LEMMA CloseWhere == ASSUME TypeOK, WhereInv, Close PROVE WhereInv'
<1> USE Parts DEF Close, WhereInv, TypeOK, Forward, Backward, Committed, Recommitted, of
<1>0. of \in Restores /\ journal.phase = "open" /\ todo = {}
  BY OfRestore DEF PointInv
<1>1. \A m \in Names : m # Wal => root'[m] = root[m]
  BY DEF PartsType
<1>2. PointInv' /\ HistoryInv' /\ PendingInv'
  BY <1>0, <1>1 DEF PointInv, HistoryInv, PendingInv
<1>3. OpenInv' /\ DiscardInv'
  BY <1>0, <1>1 DEF OpenInv, DiscardInv, Undoable
<1>4. of \in mapped'
  <2>1. Db \in Moved(of) \ todo
    BY <1>0 DEF Moved
  <2>2. root[Db] = of
    BY <2>1, Parts DEF ForwardInv
  <2> QED BY <2>2
<1>5. ForwardInv'
  BY <1>0, <1>1, <1>4 DEF ForwardInv, PartsType
<1>6. BackwardInv'
  BY DEF BackwardInv
<1> QED BY <1>2, <1>3, <1>5, <1>6

LEMMA CommitWhere == ASSUME TypeOK, WhereInv, Commit PROVE WhereInv'
<1> USE Parts DEF Commit, WhereInv, TypeOK, Forward, Backward, Committed, Recommitted, of
<1>0. journal'.phase = "committed" /\ of' = of
  OBVIOUS
<1>1. PointInv' /\ HistoryInv' /\ PendingInv'
  BY <1>0 DEF PointInv, HistoryInv, PendingInv
<1>2. OpenInv' /\ DiscardInv'
  BY <1>0 DEF OpenInv, DiscardInv
<1>3. ForwardInv' /\ BackwardInv'
  BY DEF ForwardInv, BackwardInv
<1> QED BY <1>1, <1>2, <1>3

LEMMA ShelveWhere == ASSUME TypeOK, WhereInv, Shelve PROVE WhereInv'
<1> USE Parts DEF Shelve, WhereInv, TypeOK, Forward, Backward, Committed, Recommitted, of
<1>1. PointInv' /\ HistoryInv' /\ PendingInv'
  BY DEF PointInv, HistoryInv, PendingInv, NoJournal, NoParts
<1>2. OpenInv' /\ DiscardInv'
  BY DEF OpenInv, DiscardInv, PointInv, NoJournal
<1>3. ForwardInv' /\ BackwardInv'
  BY DEF ForwardInv, BackwardInv
<1> QED BY <1>1, <1>2, <1>3

LEMMA UnlinkWhere == ASSUME TypeOK, WhereInv, Unlink PROVE WhereInv'
<1> USE Parts DEF Unlink, WhereInv, TypeOK, Forward, Backward, Committed, Recommitted, of
<1>1. PointInv' /\ HistoryInv' /\ PendingInv'
  BY DEF PointInv, HistoryInv, PendingInv, NoJournal, NoParts
<1>2. OpenInv' /\ DiscardInv'
  BY DEF OpenInv, DiscardInv, PointInv, NoJournal
<1>3. ForwardInv' /\ BackwardInv'
  BY DEF ForwardInv, BackwardInv
<1> QED BY <1>1, <1>2, <1>3

LEMMA DropWhere == ASSUME TypeOK, WhereInv, Drop PROVE WhereInv'
<1> USE Parts DEF Drop, WhereInv, TypeOK, Forward, Backward, Committed, Recommitted, of
<1>1. PointInv' /\ HistoryInv' /\ PendingInv'
  BY DEF PointInv, HistoryInv, PendingInv, NoJournal, NoParts
<1>2. OpenInv' /\ DiscardInv'
  BY DEF OpenInv, DiscardInv, PointInv, NoJournal
<1>3. ForwardInv' /\ BackwardInv'
  BY DEF ForwardInv, BackwardInv
<1> QED BY <1>1, <1>2, <1>3

LEMMA ForgetWhere == ASSUME TypeOK, WhereInv, Forget PROVE WhereInv'
<1> USE Parts DEF Forget, WhereInv, TypeOK, Forward, Backward, Committed, Recommitted, of
<1>1. PointInv' /\ HistoryInv' /\ PendingInv'
  BY DEF PointInv, HistoryInv, PendingInv, NoJournal, NoParts
<1>2. OpenInv' /\ DiscardInv'
  BY DEF OpenInv, DiscardInv, PointInv, NoJournal
<1>3. ForwardInv' /\ BackwardInv'
  BY DEF ForwardInv, BackwardInv
<1> QED BY <1>1, <1>2, <1>3

LEMMA DiscardWhere == ASSUME TypeOK, WhereInv, Discard PROVE WhereInv'
<1> USE Parts DEF Discard, WhereInv, TypeOK, Forward, Backward, Committed, Recommitted, of
<1>0. of \in Restores /\ journal.phase = "open" /\ todo \subseteq Moved(of)
  BY OfRestore DEF PointInv, BackwardInv
<1>1. CASE Abandon
  BY <1>1, AbandonWhere
<1>2. ASSUME NEW n \in todo, Undoable(n), root[n] # None, ~Collides(n),
             discarded' = [discarded EXCEPT ![of][n] = root[n]],
             root' = [root EXCEPT ![n] = None],
             name' = n, pc' = "return",
             UNCHANGED <<staged, pending, journal, made, saved, mapped, todo, used>>
      PROVE WhereInv'
  <2> USE <1>0, <1>2
  <2>1. /\ \A m \in Names : m # n => discarded'[of][m] = discarded[of][m] /\ root'[m] = root[m]
        /\ \A r \in Restores : r # of => discarded'[r] = discarded[r]
        /\ root'[n] = None
    BY DEF PartsType
  <2>2. PointInv' /\ HistoryInv' /\ PendingInv'
    BY <2>1 DEF PointInv, HistoryInv, PendingInv
  <2>3. OpenInv' /\ DiscardInv'
    BY <2>1 DEF OpenInv, DiscardInv, Undoable
  <2>4. ForwardInv' /\ BackwardInv'
    BY <2>1 DEF ForwardInv, BackwardInv
  <2> QED BY <2>2, <2>3, <2>4
<1>3. ASSUME NEW n \in todo, ~(Undoable(n) /\ root[n] # None),
             name' = n, pc' = "return", UNCHANGED <<fileVars, todo, used>>
      PROVE WhereInv'
  <2> USE <1>0, <1>3 DEF fileVars
  <2>1. PointInv' /\ HistoryInv' /\ PendingInv'
    BY DEF PointInv, HistoryInv, PendingInv
  <2>2. OpenInv' /\ DiscardInv'
    BY DEF OpenInv, DiscardInv, Undoable
  <2>3. ForwardInv' /\ BackwardInv'
    BY DEF ForwardInv, BackwardInv, Undoable
  <2> QED BY <2>1, <2>2, <2>3
<1> QED BY <1>1, <1>2, <1>3

LEMMA ReturnWhere == ASSUME TypeOK, WhereInv, Return PROVE WhereInv'
<1> USE Parts DEF Return, WhereInv, TypeOK, Forward, Backward, Committed, Recommitted, of
<1>0. of \in Restores /\ journal.phase = "open" /\ name \in todo /\ todo \subseteq Moved(of)
  BY OfRestore DEF PointInv, BackwardInv
<1>1. /\ \A m \in Names : m # name => root'[m] = root[m] /\ saved'[of][m] = saved[of][m]
      /\ \A r \in Restores : r # of => saved'[r] = saved[r]
      /\ saved'[of][name] = None
      /\ root'[name] = IF saved[of][name] # None THEN saved[of][name] ELSE root[name]
  BY <1>0 DEF PartsType
<1>2. PointInv' /\ HistoryInv' /\ PendingInv'
  BY <1>0, <1>1 DEF PointInv, HistoryInv, PendingInv
<1>3. OpenInv' /\ DiscardInv'
  BY <1>0, <1>1 DEF OpenInv, DiscardInv, Undoable
<1>4. ForwardInv'
  BY DEF ForwardInv
<1>5. BackwardInv'
  BY <1>0, <1>1 DEF BackwardInv, OpenInv
<1> QED BY <1>2, <1>3, <1>4, <1>5

LEMMA FailWhere == ASSUME TypeOK, WhereInv, NothingFailsAfterCommit, Fail PROVE WhereInv'
<1> USE Parts DEF Fail, WhereInv, TypeOK, Forward, Backward, Committed, Recommitted, of
<1>0. of \in Restores /\ journal.phase = "open" /\ pc \in Forward
  BY OfRestore DEF PointInv, NothingFailsAfterCommit
<1>1. \A m \in Names : m # Wal => root'[m] = root[m]
  BY DEF PartsType
<1>2. PointInv' /\ HistoryInv' /\ PendingInv'
  BY <1>0, <1>1 DEF PointInv, HistoryInv, PendingInv
<1>3. OpenInv' /\ DiscardInv'
  BY <1>0, <1>1 DEF OpenInv, DiscardInv, Undoable
<1>4. ForwardInv' /\ BackwardInv'
  BY DEF ForwardInv, BackwardInv
<1> QED BY <1>2, <1>3, <1>4

LEMMA StepWhere ==
  ASSUME TypeOK, WhereInv, NothingFailsAfterCommit, [Next]_vars PROVE WhereInv'
<1>1. CASE UNCHANGED vars
  <2> USE <1>1 DEF vars, fileVars, WhereInv
  <2>1. PointInv' /\ HistoryInv' /\ PendingInv'
    BY DEF PointInv, HistoryInv, PendingInv, of
  <2>2. OpenInv' /\ DiscardInv'
    BY DEF OpenInv, DiscardInv, of, Undoable, Moved
  <2>3. ForwardInv' /\ BackwardInv'
    BY DEF ForwardInv, BackwardInv, of, Moved
  <2> QED BY <2>1, <2>2, <2>3
<1>2. CASE Crash
  BY <1>2, AbandonWhere DEF Crash
<1>3. CASE Next /\ ~Crash
  BY <1>3, StageWhere, ExitWhere, LaunchWhere, ValidateWhere, JournalWhere, SaveWhere,
     InstallWhere, RemapWhere, CloseWhere, CommitWhere, ShelveWhere, UnlinkWhere,
     DiscardWhere, ReturnWhere, ForgetWhere, DropWhere, FailWhere DEF Next, Step
<1> QED BY <1>1, <1>2, <1>3

-----------------------------------------------------------------------------
(* What each step does to the settled profile.                             *)

SettledKept == Settled' = Settled /\ mapped \subseteq mapped'

LEMMA LaunchSettled == ASSUME TypeOK, WhereInv, Launch PROVE SettledKept
<1>1. \A n \in Names : n \notin Dirs => Part(n)' = Part(n)
  BY DEF Launch, Ensured, Part, of, Moved
<1>2. \A n \in Dirs : Part(n)' = Part(n) \/ (Part(n) = None /\ Part(n)' = Blank)
  BY NamesAssumption DEF Launch, Ensured, Part, of, Moved
<1> QED BY <1>1, <1>2, Parts DEF SettledKept, Settled, Launch

\* A step that leaves the journal, the profile and its history alone.
LEMMA QuietSettled ==
  ASSUME UNCHANGED <<root, journal, saved, mapped>> PROVE SettledKept
BY DEF SettledKept, Settled, Part, of, Moved

LEMMA JournalSettled == ASSUME TypeOK, WhereInv, WriteJournal PROVE SettledKept
<1>1. of' = staged /\ journal'.phase = "open" /\ journal'.existed = Existing(staged)
      /\ staged \in Restores /\ saved[staged] = NoParts /\ journal.phase = "none"
  BY DEF WriteJournal, WhereInv, PointInv, HistoryInv, of, NoJournal
<1>2. \A n \in Names : Part(n)' = Part(n)
  BY <1>1, Parts DEF WriteJournal, Part, Existing, NoParts, of, Moved
<1> QED BY <1>2 DEF SettledKept, Settled, WriteJournal

LEMMA SaveSettled == ASSUME TypeOK, WhereInv, Save PROVE SettledKept
<1>0. of \in Restores /\ journal.phase = "open" /\ UNCHANGED <<journal, mapped>>
  BY OfRestore DEF WhereInv, PointInv, Save, Forward
<1>1. PICK n \in todo :
        /\ name' = n
        /\ IF n \in journal.existed
           THEN /\ saved' = [saved EXCEPT ![of][n] = root[n]]
                /\ root' = [root EXCEPT ![n] = None]
           ELSE UNCHANGED <<saved, root>>
  BY DEF Save
<1>2. n \in Names /\ n \in Moved(of) /\ saved[of][n] = None /\ (root[n] # None <=> n \in journal.existed)
  BY <1>1 DEF WhereInv, ForwardInv, Save, Forward, TypeOK
<1>3. /\ \A m \in Names : m # n => saved'[of][m] = saved[of][m] /\ root'[m] = root[m]
      /\ saved'[of][n] = root[n]
  BY <1>0, <1>1, <1>2 DEF PartsType, TypeOK
<1>4. \A m \in Names : Part(m)' = Part(m)
  BY <1>0, <1>2, <1>3 DEF Part, of, Moved
<1> QED BY <1>0, <1>4 DEF SettledKept, Settled

LEMMA InstallSettled == ASSUME TypeOK, WhereInv, Install PROVE SettledKept
<1>0. of \in Restores /\ journal.phase = "open" /\ UNCHANGED <<journal, mapped, saved>>
      /\ name \in Moved(of) /\ (name \in journal.existed <=> saved[of][name] # None)
  BY OfRestore DEF WhereInv, PointInv, ForwardInv, Install, Forward
<1>1. \A m \in Names : m # name => root'[m] = root[m]
  BY DEF Install, TypeOK, PartsType
<1>2. \A m \in Names : Part(m)' = Part(m)
  BY <1>0, <1>1 DEF Part, of, Moved
<1> QED BY <1>0, <1>2 DEF SettledKept, Settled

\* The write-ahead log of the restored database is not part of what a rollback leaves.
LEMMA LogSettled ==
  ASSUME TypeOK, WhereInv, pc \in {"remap", "close"}, UNCHANGED <<journal, saved>>,
         mapped \subseteq mapped', \A m \in Names : m # Wal => root'[m] = root[m]
  PROVE SettledKept
<1>0. of \in Restores /\ journal.phase = "open" /\ todo = {}
  BY OfRestore DEF WhereInv, PointInv, Forward
<1>1. Wal \in Moved(of) /\ (Wal \in journal.existed <=> saved[of][Wal] # None)
  BY <1>0 DEF Moved, WhereInv, ForwardInv, Forward
<1>2. \A m \in Names : Part(m)' = Part(m)
  BY <1>0, <1>1 DEF Part, of, Moved
<1> QED BY <1>2 DEF SettledKept, Settled

LEMMA DiscardSettled == ASSUME TypeOK, WhereInv, Discard PROVE SettledKept
<1>0. of \in Restores /\ journal.phase = "open"
  BY OfRestore DEF WhereInv, PointInv, Discard, Backward
<1>1. UNCHANGED <<journal, saved, mapped>>
  BY DEF Discard, Abandon, fileVars
<1>2. CASE UNCHANGED root
  BY <1>1, <1>2, QuietSettled
<1>3. CASE \E n \in todo : Undoable(n) /\ root' = [root EXCEPT ![n] = None]
  <2>1. PICK n \in todo : Undoable(n) /\ root' = [root EXCEPT ![n] = None]
    BY <1>3
  <2>2. n \in Moved(of) /\ \A m \in Names : m # n => root'[m] = root[m]
    BY <2>1 DEF WhereInv, BackwardInv, Discard, Backward, TypeOK, PartsType
  <2>3. \A m \in Names : Part(m)' = Part(m)
    BY <1>0, <1>1, <2>1, <2>2 DEF Part, of, Moved, Undoable
  <2> QED BY <1>1, <2>3 DEF SettledKept, Settled
<1> QED BY <1>2, <1>3 DEF Discard, Abandon, fileVars

LEMMA ReturnSettled == ASSUME TypeOK, WhereInv, Return PROVE SettledKept
<1>0. of \in Restores /\ journal.phase = "open" /\ name \in Moved(of) /\ UNCHANGED <<journal, mapped>>
  BY OfRestore DEF WhereInv, PointInv, BackwardInv, Return, Backward
<1>1. /\ \A m \in Names : m # name => root'[m] = root[m] /\ saved'[of][m] = saved[of][m]
      /\ saved'[of][name] = None
      /\ root'[name] = IF saved[of][name] # None THEN saved[of][name] ELSE root[name]
      /\ saved[of][name] # None => name \in journal.existed
  BY <1>0 DEF Return, TypeOK, PartsType, WhereInv, OpenInv
<1>2. \A m \in Names : Part(m)' = Part(m)
  BY <1>0, <1>1 DEF Part, of, Moved
<1> QED BY <1>0, <1>2 DEF SettledKept, Settled

\* When every entry is undone, the profile is what the rollback promised.
LEMMA ForgetSettled == ASSUME TypeOK, WhereInv, Forget PROVE SettledKept
<1>0. of \in Restores /\ journal.phase = "open" /\ journal'.phase = "none" /\ todo = {}
      /\ UNCHANGED <<root, saved, mapped>>
  BY OfRestore DEF WhereInv, PointInv, Forget, Backward, NoJournal
<1>1. \A n \in Moved(of) : saved[of][n] = None /\ (n \notin journal.existed => root[n] = None \/ (n \in Dirs /\ root[n] = Blank))
  BY <1>0 DEF WhereInv, BackwardInv, Forget, Backward
<1> QED BY <1>0, <1>1 DEF SettledKept, Settled, Part, of, Moved

LEMMA UnlinkSettled == ASSUME TypeOK, WhereInv, Unlink PROVE SettledKept
<1>1. journal.phase # "open" /\ journal'.phase # "open"
  BY DEF WhereInv, PointInv, Unlink, Committed, Recommitted, NoJournal
<1> QED BY <1>1 DEF SettledKept, Settled, Part, Unlink

\* A failure during the try block leaves what a rollback will restore.
LEMMA FailSettled == ASSUME TypeOK, WhereInv, NothingFailsAfterCommit, Fail PROVE SettledKept
<1>1. CASE pc = "close"
  BY <1>1, LogSettled DEF Fail, TypeOK, PartsType
<1>2. CASE pc # "close"
  BY <1>2, QuietSettled DEF Fail
<1> QED BY <1>1, <1>2

\* Commit replaces every part that the archive covers, and the log.
LEMMA CommitSettled ==
  ASSUME TypeOK, WhereInv, Commit
  PROVE /\ of \in Restores /\ of \in mapped /\ mapped' = mapped
        /\ Settled' = [n \in Names |-> IF n \in Covers[of] THEN of
                                        ELSE IF n = Wal THEN None ELSE Settled[n]]
<1>0. of \in Restores /\ journal.phase = "open" /\ journal'.phase = "committed" /\ todo = {}
      /\ UNCHANGED <<root, mapped>>
  BY OfRestore DEF WhereInv, PointInv, Commit, Forward, TypeOK
<1>1. of \in mapped /\ root[Wal] = None /\ \A n \in Moved(of) : n # Wal => root[n] = of
  BY <1>0 DEF WhereInv, ForwardInv, Commit, Forward
<1>2. \A n \in Names : Part(n)' = root[n]
  BY <1>0 DEF Part
<1>3. \A n \in Covers[of] : root[n] = of
  BY <1>0, <1>1, Parts DEF Moved
<1>4. \A n \in Names : n \notin Covers[of] /\ n # Wal => Part(n) = root[n]
  BY <1>0 DEF Part, Moved
<1> QED BY <1>0, <1>1, <1>2, <1>3, <1>4, Parts DEF Settled

\* The end of the application affects only the log.
LEMMA ExitSettled ==
  ASSUME TypeOK, WhereInv, Exit
  PROVE /\ mapped' = mapped
        /\ \E c \in {None, Settled[Db]} : Settled' = [Settled EXCEPT ![Wal] = c]
<1>1. journal.phase = "none" /\ UNCHANGED <<journal, mapped>>
  BY DEF WhereInv, PointInv, Exit, NoJournal
<1>2. PICK c \in {None, root[Db]} : root' = [root EXCEPT ![Wal] = c]
  BY DEF Exit
<1>3. \A n \in Names : Part(n) = root[n] /\ Part(n)' = IF n = Wal THEN c ELSE root[n]
  BY <1>1, <1>2 DEF Part, TypeOK, PartsType
<1>4. Settled[Db] = root[Db] /\ Wal \notin Dirs
  BY <1>3, Parts, NamesAssumption DEF Settled
<1>5. Settled' = [Settled EXCEPT ![Wal] = c]
  BY <1>3, <1>4, Parts DEF Settled
<1> QED BY <1>1, <1>2, <1>4, <1>5

\* A step settles nothing new, installs one archive, or touches the log.
LEMMA StepSettled ==
  ASSUME TypeOK, WhereInv, NothingFailsAfterCommit, [Next]_vars
  PROVE SettledKept \/ Commit \/ Exit
<1>1. CASE UNCHANGED vars \/ Validate \/ Shelve \/ Drop \/ Crash \/ \E r \in Restores : Stage(r)
  BY <1>1, QuietSettled DEF vars, fileVars, Validate, Abandon, Shelve, Drop, Crash, Stage
<1>2. CASE Remap \/ Close
  BY <1>2, LogSettled DEF Remap, Close, TypeOK, PartsType
<1>3. CASE Launch \/ WriteJournal \/ Save \/ Install \/ Unlink \/ Discard \/ Return \/ Forget \/ Fail
  BY <1>3, LaunchSettled, JournalSettled, SaveSettled, InstallSettled, UnlinkSettled,
     DiscardSettled, ReturnSettled, ForgetSettled, FailSettled
<1> QED BY <1>1, <1>2, <1>3 DEF Next, Step

LEMMA StepWhole ==
  ASSUME TypeOK, WhereInv, Whole(Settled), NothingFailsAfterCommit, [Next]_vars
  PROVE Whole(Settled)'
<1>1. CASE SettledKept
  BY <1>1 DEF SettledKept, Whole
<1>2. CASE Commit
  BY <1>2, CommitSettled, Parts DEF Whole
<1>3. CASE Exit
  <2>1. PICK c \in {None, Settled[Db]} : Settled' = [Settled EXCEPT ![Wal] = c]
    BY <1>3, ExitSettled
  <2>2. /\ Settled'[Db] = Settled[Db] /\ Settled'[Wal] = c
        /\ \A n \in Names : n # Wal => Settled'[n] = Settled[n]
    BY <2>1, Parts DEF Settled
  <2> QED BY <1>3, <2>2, ExitSettled, Parts DEF Whole
<1> QED BY <1>1, <1>2, <1>3, StepSettled

LEMMA InitInv == Init => IInv
<1> SUFFICES ASSUME Init PROVE IInv
  OBVIOUS
<1>1. TypeOK
  BY InitType
<1>2. WhereInv
  BY DEF Init, WhereInv, PointInv, HistoryInv, PendingInv, OpenInv, ForwardInv, BackwardInv,
         DiscardInv, NoJournal, NoParts, Forward, Backward, Committed, Recommitted
<1>3. Whole(Settled)
  BY Parts, NamesAssumption, ContentsAssumption DEF Init, Whole, Settled, Part, NoJournal, Contents
<1> QED BY <1>1, <1>2, <1>3 DEF IInv, WhereInv

\* Every reachable state satisfies the inductive invariant.
THEOREM Invariance == ASSUME NothingFailsAfterCommit PROVE Spec => []IInv
<1>1. IInv /\ [Next]_vars => IInv'
  BY StepType, StepWhere, StepWhole DEF IInv, WhereInv
<1> QED BY <1>1, InitInv, PTL DEF Spec

\* The state variables always have their types (TypeOK).
THEOREM TypeCorrect == ASSUME NothingFailsAfterCommit PROVE Spec => []TypeOK
BY Invariance, PTL DEF IInv

\* The application never opens a mixture of two profiles (ServesWhole).
THEOREM NeverMixed == ASSUME NothingFailsAfterCommit PROVE Spec => []ServesWhole
<1>1. IInv => ServesWhole
  <2> SUFFICES ASSUME IInv, pc = "serving" PROVE Whole(root)
    BY DEF ServesWhole
  <2>1. \A n \in Names : Settled[n] = IF n \in Dirs /\ root[n] = Blank THEN None ELSE root[n]
    BY DEF IInv, PointInv, NoJournal, Settled, Part
  <2>2. Whole(Settled)
    BY DEF IInv
  <2> QED BY <2>1, <2>2, Parts, NamesAssumption DEF Whole
<1> QED BY <1>1, Invariance, PTL

-------------------------------------------------------------------------------
(* What the invariant gives: the refinement of RestoredProfile, and that no  *)
(* rename loses a part of a former profile.                                *)

ArchiveParts == Names \ {Wal}
Shown == [n \in ArchiveParts |-> Settled[n]]

\* The settled profile changes only by taking over one archive, whole: Restore
\* implements RestoredProfile (ImplementsProfile).
THEOREM Implementation == ASSUME NothingFailsAfterCommit PROVE Spec => ImplementsProfile
<1>1. Init => Profile!Init
  <2> SUFFICES ASSUME Init PROVE Shown \in [ArchiveParts -> {First, None}]
    BY DEF Profile!Init, Shown, ArchiveParts
  <2> QED BY DEF Init, Shown, ArchiveParts, Settled, Part, NoJournal
<1>2. IInv /\ [Next]_vars => [Profile!Next]_(Shown)
  <2> SUFFICES ASSUME IInv, [Next]_vars PROVE Shown' = Shown \/ Profile!Next
    OBVIOUS
  <2>0. TypeOK /\ WhereInv
    BY DEF IInv, WhereInv
  <2>1. CASE SettledKept
    BY <2>1 DEF SettledKept, Shown
  <2>2. CASE Exit
    BY <2>0, <2>2, ExitSettled, Parts DEF Shown, ArchiveParts, Settled
  <2>3. CASE Commit
    <3>1. PICK r \in Restores :
            Settled' = [n \in Names |-> IF n \in Covers[r] THEN r
                                         ELSE IF n = Wal THEN None ELSE Settled[n]]
      BY <2>0, <2>3, CommitSettled
    <3>2. Profile!Install(r)
      BY <3>1, Parts DEF Profile!Install, ArchiveParts, Settled
    <3> QED BY <3>2 DEF Profile!Next
  <2> QED BY <2>0, <2>1, <2>2, <2>3, StepSettled
<1> QED BY <1>1, <1>2, Invariance, PTL DEF Spec, ImplementsProfile, Profile!Spec, Shown, ArchiveParts

\* No rename overwrites a part: what was once in the profile stays in it or in
\* a history directory (OriginalsRetained).
THEOREM Retained == ASSUME NothingFailsAfterCommit PROVE Spec => OriginalsRetained
<1> DEFINE NoneLost == \A n \in Names \ {Wal}, c \in Restores \cup {First} : Kept(n, c) => Kept(n, c)'
<1>1. IInv /\ [Next]_vars => NoneLost
  <2> SUFFICES ASSUME IInv, [Next]_vars, NEW n \in Names \ {Wal},
                      NEW c \in Restores \cup {First}, Kept(n, c)
               PROVE Kept(n, c)'
    OBVIOUS
  <2> USE Parts, ContentsAssumption DEF IInv, TypeOK, of
  <2>0. pc \in Forward \cup Backward => of \in Restores /\ journal.phase = "open"
    BY OfRestore DEF PointInv
  <2>1. CASE Save
    <3>1. PICK m \in todo :
            IF m \in journal.existed
            THEN /\ saved' = [saved EXCEPT ![of][m] = root[m]]
                 /\ root' = [root EXCEPT ![m] = None]
            ELSE UNCHANGED <<saved, root>>
      BY <2>1 DEF Save
    <3>2. saved[of][m] = None /\ of \in Restores /\ m \in Names /\ UNCHANGED discarded
      BY <2>0, <2>1, <3>1 DEF Save, Forward, ForwardInv
    <3> QED BY <3>1, <3>2 DEF Kept, PartsType, Contents
  <2>2. CASE Install
    <3>1. root[name] = None /\ UNCHANGED <<saved, discarded>>
      BY <2>2 DEF Install, ForwardInv, Forward
    <3> QED BY <2>2, <3>1 DEF Install, Kept, PartsType, Contents
  <2>3. CASE Discard
    <3>1. CASE UNCHANGED <<root, saved, discarded>>
      BY <3>1 DEF Kept
    <3>2. CASE ~UNCHANGED <<root, saved, discarded>>
      <4>1. PICK m \in todo : /\ Undoable(m) /\ root[m] # None /\ ~Collides(m)
                              /\ discarded' = [discarded EXCEPT ![of][m] = root[m]]
                              /\ root' = [root EXCEPT ![m] = None] /\ saved' = saved
        BY <2>3, <3>2 DEF Discard, Abandon, fileVars
      <4>2. of \in Restores /\ m \in Names /\ journal.phase = "open"
        BY <2>0, <2>3, <4>1 DEF Discard, Backward
      <4>3. m # Wal => discarded[of][m] = None
        BY <4>1, <4>2 DEF DiscardInv, Collides
      <4> QED BY <4>1, <4>2, <4>3 DEF Kept, PartsType, Contents
    <3> QED BY <3>1, <3>2
  <2>4. CASE Return
    <3>1. of \in Restores /\ (saved[of][name] # None => root[name] = None) /\ UNCHANGED discarded
      BY <2>0, <2>4 DEF Return, Backward, BackwardInv
    <3> QED BY <2>4, <3>1, SMTT(30) DEF Return, Kept, PartsType, Contents
  <2>5. CASE Exit \/ Remap \/ Close \/ Fail
    <3>1. root'[n] = root[n] /\ UNCHANGED <<saved, discarded>>
      BY <2>5 DEF Exit, Remap, Close, Fail, PartsType
    <3> QED BY <3>1 DEF Kept
  <2>6. CASE Launch
    BY <2>6 DEF Launch, Ensured, Kept, Contents
  <2>7. CASE \/ UNCHANGED vars \/ \E r \in Restores : Stage(r)
             \/ Validate \/ WriteJournal \/ Commit \/ Shelve \/ Unlink \/ Forget \/ Drop \/ Crash
    <3>1. UNCHANGED <<root, saved, discarded>>
      BY <2>7 DEF vars, fileVars, Stage, Validate, Abandon, WriteJournal, Commit, Shelve, Unlink,
                  Forget, Drop, Crash
    <3> QED BY <3>1 DEF Kept
  <2> QED BY <2>1, <2>2, <2>3, <2>4, <2>5, <2>6, <2>7 DEF Next, Step
<1> QED BY <1>1, Invariance, PTL DEF Spec, OriginalsRetained

=============================================================================
