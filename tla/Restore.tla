-------------------------------- MODULE Restore --------------------------------
(***************************************************************************)
(* Installing a staged backup at start-up (backend/system/backup.py).      *)
(*                                                                         *)
(* The profile's parts (database, its WAL, key, model and knowledge        *)
(* directories) are renamed one by one: the current ones into a history    *)
(* directory of this restore, the archived ones into their place.  A       *)
(* journal, itself written by one rename, lets the next start roll back.   *)
(* Every file operation is a step; the process may be lost between any     *)
(* two of them, and an operation inside the try block may raise.           *)
(*                                                                         *)
(* A part's content is the name of what it came from: First for the        *)
(* profile there was at the beginning, r for the archive staged as r.      *)
(***************************************************************************)
EXTENDS Naturals

CONSTANTS
  Restores,     \* restores that may be staged; each names its history directory
  Names,        \* parts of a profile
  Db, Wal,      \* the database and its write-ahead log (-wal and -shm)
  Dirs,         \* the parts that are directories
  Covers,       \* Covers[r]: the parts in the archive of r
  Rank,         \* the order in which entries are moved
  First, Blank, \* contents: the first profile's, and that of a new empty directory
  None,
  MayCrash,     \* program points at which the process may be lost
  MayFail,      \* program points at which a file operation may raise
  MaxFaults     \* bound on losses and failures

Contents == Restores \cup {First, Blank}

ASSUME NamesAssumption == {Db, Wal} \subseteq Names /\ Db # Wal /\ Dirs \subseteq Names \ {Db, Wal}
ASSUME CoversAssumption ==
  Covers \in [Restores -> SUBSET (Names \ {Wal})] /\ \A r \in Restores : Db \in Covers[r]
ASSUME ContentsAssumption == First \notin Restores /\ Blank \notin Restores \cup {First} /\ None \notin Contents
ASSUME RankAssumption == Rank \in [Names -> Nat]
ASSUME FaultsAssumption == MaxFaults \in Nat

VARIABLES
  \* the profile directory
  root,         \* root[n]: content of part n, None when it does not exist
  staged,       \* the restore whose .restore-pending directory exists
  pending,      \* its parts
  journal,      \* .restore-journal.json
  made,         \* the restores that have a history directory
  saved,        \* saved[r][n]: the part kept in r's history directory
  discarded,    \* discarded[r][n]: the part kept in its failed-replacement
  mapped,       \* the restored databases whose model paths were rewritten
  \* the process
  pc, todo, name,
  \* bookkeeping of the model
  used, faults

fileVars == <<root, staged, pending, journal, made, saved, discarded, mapped>>
vars == <<fileVars, pc, todo, name, used, faults>>

NoParts == [n \in Names |-> None]
NoJournal == [phase |-> "none", of |-> None, existed |-> {}]

Forward == {"save", "install", "remap", "close", "commit"}   \* in the try block
Committed == {"shelve", "unlink"}                            \* in it, after the commit
Recommitted == {"reshelve", "reunlink"}                      \* a later start finishes it
Backward == {"discard", "return"}
Pcs == {"down", "serving", "validate", "write", "drop"}
         \cup Forward \cup Committed \cup Recommitted \cup Backward

\* Mutant: only the archived parts, so that an old log stays beside a new database.
MovedArchived(r) == Covers[r]

\* The names whose entries the transaction of r lists.
Moved(r) == Covers[r] \cup {Wal}

of == journal.of

Init ==
  /\ root \in [Names -> {First, Blank, None}]
  /\ root[Db] = First
  /\ \A n \in Names \ Dirs : root[n] # Blank
  /\ staged = None /\ pending = NoParts /\ journal = NoJournal
  /\ made = {} /\ saved = [r \in Restores |-> NoParts]
  /\ discarded = [r \in Restores |-> NoParts] /\ mapped = {}
  /\ pc = "down" /\ todo = {} /\ name = Db /\ used = {} /\ faults = 0

-----------------------------------------------------------------------------
(* While the application runs.                                             *)

\* stage_restore: validated in a scratch directory, published by one rename.
Stage(r) ==
  /\ pc = "serving" /\ staged = None /\ r \notin used
  /\ staged' = r
  /\ pending' = [n \in Names |-> IF n \in Covers[r] THEN r ELSE None]
  /\ used' = used \cup {r}
  /\ UNCHANGED <<root, journal, made, saved, discarded, mapped, pc, todo, name, faults>>

\* The application ends, with or without leaving a write-ahead log behind.
Exit ==
  /\ pc = "serving"
  /\ pc' = "down"
  /\ \E c \in {None, root[Db]} : root' = [root EXCEPT ![Wal] = c]
  /\ UNCHANGED <<staged, pending, journal, made, saved, discarded, mapped, todo, name, used, faults>>

-----------------------------------------------------------------------------
(* A start, up to init_db.                                                 *)

\* ensure_directories runs before the restore is looked at.
Ensured == [n \in Names |-> IF n \in Dirs /\ root[n] = None THEN Blank ELSE root[n]]

\* Mutant: a pending directory is looked at before the journal.
EntryPendingFirst ==
  IF staged # None THEN "validate"
  ELSE IF journal.phase = "none" THEN "serving"
  ELSE IF journal.phase = "open" THEN "discard" ELSE "reshelve"

Entry ==
  IF journal.phase = "committed" THEN "reshelve"
  ELSE IF journal.phase = "open" THEN "discard"
  ELSE IF staged # None THEN "validate" ELSE "serving"

Entries == IF journal.phase = "open" THEN Moved(of) ELSE {}

Launch ==
  /\ pc = "down"
  /\ root' = Ensured
  /\ pc' = Entry /\ todo' = Entries
  /\ UNCHANGED <<staged, pending, journal, made, saved, discarded, mapped, name, used, faults>>

\* The start fails, leaving the files as they are.
Abandon ==
  /\ pc' = "down" /\ todo' = {}
  /\ UNCHANGED <<fileVars, name, used>>

\* Files of the staged archive that are no longer there, or a history
\* directory that already exists, stop the start.
Unusable == (\E n \in Covers[staged] : pending[n] = None) \/ staged \in made

Validate ==
  /\ pc = "validate"
  /\ \/ Unusable /\ Abandon
     \/ /\ ~Unusable
        /\ made' = made \cup {staged}
        /\ pc' = "write"
        /\ UNCHANGED <<root, staged, pending, journal, saved, discarded, mapped, todo, name, used>>
  /\ UNCHANGED faults

\* Mutant: is_file instead of exists.
ExistingFiles(r) == {n \in Moved(r) \ Dirs : root[n] # None}

Existing(r) == {n \in Moved(r) : root[n] # None}

WriteJournal ==
  /\ pc = "write"
  /\ journal' = [phase |-> "open", of |-> staged, existed |-> Existing(staged)]
  /\ pc' = "save" /\ todo' = Moved(staged)
  /\ UNCHANGED <<root, staged, pending, made, saved, discarded, mapped, name, used, faults>>

\* The next entry moves out of the way, if there was one ...
Save ==
  /\ pc = "save"
  /\ \E n \in todo :
       /\ \A m \in todo : Rank[n] <= Rank[m]
       /\ name' = n
       /\ IF n \in journal.existed
          THEN /\ saved' = [saved EXCEPT ![of][n] = root[n]]
               /\ root' = [root EXCEPT ![n] = None]
          ELSE UNCHANGED <<saved, root>>
  /\ pc' = "install"
  /\ UNCHANGED <<staged, pending, journal, made, discarded, mapped, todo, used, faults>>

\* ... and the archived one, if there is one, takes its place.
Install ==
  /\ pc = "install"
  /\ IF pending[name] # None
     THEN /\ root' = [root EXCEPT ![name] = pending[name]]
          /\ pending' = [pending EXCEPT ![name] = None]
     ELSE UNCHANGED <<root, pending>>
  /\ todo' = todo \ {name}
  /\ pc' = IF todo' = {} THEN "remap" ELSE "save"
  /\ UNCHANGED <<staged, journal, made, saved, discarded, mapped, name, used, faults>>

\* The restored database is opened, which may create a write-ahead log, ...
Remap ==
  /\ pc = "remap"
  /\ \E c \in {root[Wal], root[Db]} : root' = [root EXCEPT ![Wal] = c]
  /\ pc' = "close"
  /\ UNCHANGED <<staged, pending, journal, made, saved, discarded, mapped, todo, name, used, faults>>

\* ... its model paths are rewritten, and closing it removes the log.
Close ==
  /\ pc = "close"
  /\ mapped' = mapped \cup {root[Db]}
  /\ root' = [root EXCEPT ![Wal] = None]
  /\ pc' = "commit"
  /\ UNCHANGED <<staged, pending, journal, made, saved, discarded, todo, name, used, faults>>

Commit ==
  /\ pc = "commit"
  /\ journal' = [journal EXCEPT !.phase = "committed"]
  /\ pc' = "shelve"
  /\ UNCHANGED <<root, staged, pending, made, saved, discarded, mapped, todo, name, used, faults>>

\* What is left of the pending directory moves into the history directory.
Shelve ==
  /\ pc \in {"shelve", "reshelve"}
  /\ staged' = None /\ pending' = NoParts
  /\ pc' = IF pc = "shelve" THEN "unlink" ELSE "reunlink"
  /\ UNCHANGED <<root, journal, made, saved, discarded, mapped, todo, name, used, faults>>

\* The journal goes, and the start continues with init_db.
Unlink ==
  /\ pc \in {"unlink", "reunlink"}
  /\ journal' = NoJournal
  /\ pc' = "serving"
  /\ UNCHANGED <<root, staged, pending, made, saved, discarded, mapped, todo, name, used, faults>>

-----------------------------------------------------------------------------
(* _rollback, from the except block or at a later start.                   *)

\* Mutant: only what was moved away is undone.
UndoSaved(n) == saved[of][n] # None

\* An entry is undone when it was moved away or was not there before.
Undoable(n) == saved[of][n] # None \/ n \notin journal.existed

\* A directory cannot be renamed over one that exists.
Collides(n) == n \in Dirs /\ discarded[of][n] # None

Discard ==
  /\ pc = "discard" /\ todo # {}
  /\ \E n \in todo :
       /\ \A m \in todo : Rank[m] <= Rank[n]
       /\ \/ /\ Undoable(n) /\ root[n] # None /\ Collides(n)
             /\ Abandon
          \/ /\ Undoable(n) /\ root[n] # None /\ ~Collides(n)
             /\ discarded' = [discarded EXCEPT ![of][n] = root[n]]
             /\ root' = [root EXCEPT ![n] = None]
             /\ name' = n /\ pc' = "return"
             /\ UNCHANGED <<staged, pending, journal, made, saved, mapped, todo, used>>
          \/ /\ ~(Undoable(n) /\ root[n] # None)
             /\ name' = n /\ pc' = "return"
             /\ UNCHANGED <<fileVars, todo, used>>
  /\ UNCHANGED faults

Return ==
  /\ pc = "return"
  /\ IF saved[of][name] # None
     THEN /\ root' = [root EXCEPT ![name] = saved[of][name]]
          /\ saved' = [saved EXCEPT ![of][name] = None]
     ELSE UNCHANGED <<root, saved>>
  /\ todo' = todo \ {name}
  /\ pc' = "discard"
  /\ UNCHANGED <<staged, pending, journal, made, discarded, mapped, name, used, faults>>

\* Everything is back: the journal goes, ...
Forget ==
  /\ pc = "discard" /\ todo = {}
  /\ journal' = NoJournal
  /\ pc' = "drop"
  /\ UNCHANGED <<root, staged, pending, made, saved, discarded, mapped, todo, name, used, faults>>


\* ... the pending directory is put aside, and the start fails.
Drop ==
  /\ pc = "drop"
  /\ staged' = None /\ pending' = NoParts
  /\ pc' = "down"
  /\ UNCHANGED <<root, journal, made, saved, discarded, mapped, todo, name, used, faults>>

-----------------------------------------------------------------------------
(* Faults.                                                                 *)

\* The process is lost, or an operation outside the try block raises.
Crash ==
  /\ pc \in MayCrash /\ faults < MaxFaults
  /\ faults' = faults + 1
  /\ Abandon

\* An operation of the try block raises; an open database is closed first.
Fail ==
  /\ pc \in (Forward \cup Committed) \cap MayFail /\ faults < MaxFaults
  /\ faults' = faults + 1
  /\ root' = IF pc = "close" THEN [root EXCEPT ![Wal] = None] ELSE root
  /\ pc' = "discard" /\ todo' = Moved(of)
  /\ UNCHANGED <<staged, pending, journal, made, saved, discarded, mapped, name, used>>

Step == Validate \/ WriteJournal \/ Save \/ Install \/ Remap \/ Close \/ Commit
          \/ Shelve \/ Unlink \/ Discard \/ Return \/ Forget \/ Drop

Next == (\E r \in Restores : Stage(r)) \/ Exit \/ Launch \/ Step \/ Crash \/ Fail

Spec == Init /\ [][Next]_vars

\* A start that began goes on, and a stopped application is started again.
FairSpec == Spec /\ WF_vars(Step) /\ WF_vars(Launch)

-----------------------------------------------------------------------------
(* Properties.                                                             *)

PartsType == [Names -> Contents \cup {None}]

TypeOK ==
  /\ root \in PartsType /\ pending \in PartsType
  /\ saved \in [Restores -> PartsType] /\ discarded \in [Restores -> PartsType]
  /\ staged \in Restores \cup {None}
  /\ journal \in [phase : {"none", "open", "committed"}, of : Restores \cup {None},
                  existed : SUBSET Names]
  /\ made \subseteq Restores /\ used \subseteq Restores /\ mapped \subseteq Contents \cup {None}
  /\ pc \in Pcs /\ todo \subseteq Names /\ name \in Names /\ faults \in 0..MaxFaults

\* The part the application will find once the transaction is settled: while
\* it is open, what a rollback would leave.
Part(n) ==
  IF journal.phase = "open" /\ n \in Moved(of)
  THEN IF n \notin journal.existed THEN None
       ELSE IF saved[of][n] # None THEN saved[of][n] ELSE root[n]
  ELSE root[n]
Settled == [n \in Names |-> IF n \in Dirs /\ Part(n) = Blank THEN None ELSE Part(n)]

Profile == INSTANCE RestoredProfile
  WITH Parts <- Names \ {Wal}, profile <- [n \in Names \ {Wal} |-> Settled[n]]

\* Whatever is interrupted or rolled back, the settled profile changes only by
\* taking over one archive, whole.
ImplementsProfile == Profile!Spec

\* The profile p has a database, every part that was archived with it, and no
\* write-ahead log of another database; a restored database has had its model
\* paths rewritten.
Whole(p) ==
  /\ p[Db] # None
  /\ p[Wal] \in {None, p[Db]}
  /\ \A r \in Restores : p[Db] = r => r \in mapped /\ \A n \in Covers[r] : p[n] = r

\* The application never opens a mixture of two profiles.
ServesWhole == pc = "serving" => Whole(root)

\* "Originals are retained": what was once in the profile stays in it or in a
\* history directory; no rename overwrites it.
Kept(n, c) ==
  \/ root[n] = c
  \/ \E r \in Restores : saved[r][n] = c \/ discarded[r][n] = c
OriginalsRetained ==
  [][\A n \in Names \ {Wal}, c \in Restores \cup {First} : Kept(n, c) => Kept(n, c)']_vars

\* Every later start fails as well: files of the staged archive or its history
\* directory are not as a first attempt finds them, or a directory that was
\* discarded once is in the way of the rollback.
Stranded ==
  /\ pc = "down"
  /\ \/ journal.phase = "none" /\ staged # None /\ Unusable
     \/ journal.phase = "open" /\ \E n \in Dirs \cap Moved(of) : Undoable(n) /\ Collides(n)

\* "A journal permits rollback after power/process loss": the application comes
\* back, with the preserved or the restored profile, unless a crash between two
\* of the steps that are not journalled leaves it stranded.
ComesBack == pc # "serving" ~> pc = "serving" \/ Stranded

=============================================================================
