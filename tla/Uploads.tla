-------------------------------- MODULE Uploads --------------------------------
(* Documents enter and leave one knowledge source: upload_documents and        *)
(* delete_document of knowledge/routes.py, with the files in its directory and *)
(* the rows of its documents.  Requests interleave where the handlers await.   *)
EXTENDS Naturals, Sequences, FiniteSets, Functions

CONSTANTS
  Uploads,      \* upload requests
  Files,        \* Files[u]: the selected files, a sequence of [stem, text]
  Copies,       \* bound of the counter in a file name
  None, Empty, Mixed

VARIABLES
  disk,         \* what each path of the directory holds
  rows,         \* committed documents
  up,           \* the upload requests
  lock,         \* the request whose transaction holds SQLite's write lock
  asked,        \* the document a deletion was asked for
  leaving,      \* the path of a deleted document whose file is still there
  clashed       \* history: paths that two requests held at a time

uploadVars == <<disk, rows, up, lock, asked, leaving, clashed>>

Selected == UNION {Range(Files[u]) : u \in Uploads}
Texts == {f.text : f \in Selected}
Paths == {f.stem : f \in Selected} \X (1..Copies)
Documents == [path : Paths, hash : Texts, by : Uploads]

\* A request selects at least one file (knowledge/routes.py refuses none).
ASSUME FilesAssumption == \A u \in Uploads : Files[u] \in Seq(Selected) \ {<<>>}

ASSUME CopiesAssumption == Copies \in Nat \ {0}

\* The marks are no requests, texts, paths or documents.
ASSUME MarksAssumption ==
  /\ None \notin Uploads \cup Texts \cup Paths \cup Documents \cup {Empty, Mixed}
  /\ {Empty, Mixed} \cap Texts = {}

Over == {"idle", "done", "refused", "error"}
InFlight == {u \in Uploads : up[u].pc \notin Over}
File(u) == Files[u][up[u].n]

\* An upload that holds no path.
At(pc, n, mine) == [pc |-> pc, n |-> n, dest |-> None, mine |-> mine]

UploadsInit ==
  /\ disk = [p \in Paths |-> None]
  /\ rows = {}
  /\ up = [u \in Uploads |-> At("idle", 1, {})]
  /\ lock = None /\ asked = None /\ leaving = None /\ clashed = {}

-----------------------------------------------------------------------------
(* upload_documents                                                        *)

Receive(u) ==
  /\ up[u].pc = "idle"
  /\ up' = [up EXCEPT ![u].pc = "choose"]
  /\ UNCHANGED <<disk, rows, lock, asked, leaving, clashed>>

\* Mutant: the source's own name, whether or not it is taken.
SameName(stem) == {<<stem, 1>>}

\* The first numbered name that is not in the directory, within the bound.
FreeName(stem) ==
  {p \in {stem} \X (1..Copies) :
     /\ disk[p] = None
     /\ \A k \in 1..(p[2] - 1) : disk[<<stem, k>>] # None}

\* The name is chosen before the copy opens it in another thread.
Choose(u) ==
  /\ up[u].pc = "choose"
  /\ \E p \in FreeName(File(u).stem) :
       /\ up' = [up EXCEPT ![u].pc = "open", ![u].dest = p]
       /\ clashed' = IF \E v \in Uploads \ {u} : up[v].pc = "open" /\ up[v].dest = p
                     THEN clashed \cup {p} ELSE clashed
  /\ UNCHANGED <<disk, rows, lock, asked, leaving>>

\* Opening for writing empties the file.
Open(u) ==
  /\ up[u].pc = "open"
  /\ disk' = [disk EXCEPT ![up[u].dest] = Empty]
  /\ up' = [up EXCEPT ![u].pc = "write"]
  /\ UNCHANGED <<rows, lock, asked, leaving, clashed>>

\* Two writers of one file may leave a mixture; what is written to a file that
\* was unlinked meanwhile is lost.
Written(u) ==
  LET p == up[u].dest IN
    IF disk[p] = None THEN {None}
    ELSE IF p \in clashed /\ disk[p] # File(u).text THEN {File(u).text, Mixed}
    ELSE {File(u).text}

Write(u) ==
  /\ up[u].pc = "write"
  /\ \E c \in Written(u) : disk' = [disk EXCEPT ![up[u].dest] = c]
  /\ up' = [up EXCEPT ![u].pc = "check"]
  /\ UNCHANGED <<rows, lock, asked, leaving, clashed>>

\* The request ends with an error: its transaction is rolled back, the files
\* of its earlier documents stay.
Raise(u) ==
  /\ up' = [up EXCEPT ![u] = At("error", @.n, {})]
  /\ lock' = IF lock = u THEN None ELSE lock
  /\ UNCHANGED <<rows, asked, leaving, clashed>>

\* The copy fails, and the unfinished file is removed.
CopyFails(u) ==
  /\ up[u].pc \in {"open", "write"}
  /\ disk' = [disk EXCEPT ![up[u].dest] = None]
  /\ Raise(u)

\* Mutant: only committed documents are looked at.
KnownCommitted(u, h) == \E d \in rows : d.hash = h

\* The query also sees the documents of its own transaction.
Known(u, h) == \E d \in rows \cup up[u].mine : d.hash = h

Added(u) ==
  IF Known(u, File(u).text) THEN {}
  ELSE {[path |-> up[u].dest, hash |-> File(u).text, by |-> u]}

Last(u) == up[u].n = Len(Files[u])

\* The query first writes the documents added before it; the commit all.
Flushes(u) == up[u].mine # {} \/ (Last(u) /\ Added(u) # {})

LockedOut(u) == lock \notin {None, u}

\* The write lock is held by a request that waits for this thread: the busy
\* timeout passes and the request fails.
CheckLocked(u) ==
  /\ up[u].pc = "check" /\ Flushes(u) /\ LockedOut(u)
  /\ Raise(u)
  /\ UNCHANGED disk

\* A duplicate's copy is removed; after the last file everything is committed,
\* in the same step.
Check(u) ==
  /\ up[u].pc = "check" /\ ~(Flushes(u) /\ LockedOut(u))
  /\ LET mine == up[u].mine \cup Added(u) IN
       /\ disk' = IF Known(u, File(u).text) THEN [disk EXCEPT ![up[u].dest] = None] ELSE disk
       /\ IF Last(u)
          THEN /\ rows' = rows \cup mine
               /\ lock' = IF lock = u THEN None ELSE lock
               /\ up' = [up EXCEPT ![u] = At(IF mine = {} THEN "refused" ELSE "done", @.n, {})]
          ELSE /\ rows' = rows
               /\ lock' = IF Flushes(u) THEN u ELSE lock
               /\ up' = [up EXCEPT ![u] = At("choose", @.n + 1, mine)]
  /\ UNCHANGED <<asked, leaving, clashed>>

UploadStep(u) ==
  Choose(u) \/ Open(u) \/ Write(u) \/ CopyFails(u) \/ CheckLocked(u) \/ Check(u)

-----------------------------------------------------------------------------
(* delete_document                                                         *)

AskDelete ==
  /\ asked = None /\ leaving = None
  /\ asked' \in rows
  /\ UNCHANGED <<disk, rows, up, lock, leaving, clashed>>

\* Under the mutation lock: the row goes, unless the database is locked, ...
DeleteRow ==
  /\ asked # None
  /\ asked' = None
  /\ IF lock = None
     THEN /\ rows' = rows \ {asked}
          /\ leaving' = asked.path
     ELSE UNCHANGED <<rows, leaving>>
  /\ UNCHANGED <<disk, up, lock, clashed>>

\* ... and after the vectors the file.
DeleteFile ==
  /\ leaving # None
  /\ leaving' = None
  /\ disk' = [disk EXCEPT ![leaving] = None]
  /\ UNCHANGED <<rows, up, lock, asked, clashed>>

-----------------------------------------------------------------------------
(* Properties.                                                             *)

\* Does not hold (see the README).
\* "The source remains authoritative and recoverable" (coordinator.py): every
\* document has the file it was made from.
DocumentHasSource == \A d \in rows : disk[d.path] = d.hash

\* It can only miss it when two requests chose the same free name before either
\* had created the file.
SourceUnlessClash == \A d \in rows : d.path \notin clashed => disk[d.path] = d.hash

\* A text is in the source once, unless its second copy was checked while the
\* first waited, uncommitted, for the rest of a longer selection.
NoTwins ==
  \A d, e \in rows : d # e /\ d.hash = e.hash =>
    d.by # e.by /\ \E u \in {d.by, e.by} : Len(Files[u]) > 1

=============================================================================
