---------------------------- MODULE KnowledgeProofs ----------------------------
(***************************************************************************)
(* Proofs about the knowledge sources: Uploads and Maintenance, and after  *)
(* them TextPipeline, for every set of requests and selection of files,    *)
(* every text and configuration, and every bound.                          *)
(*                                                                         *)
(* A path that never clashed has one owner at a time: the upload that chose *)
(* it, the document made from it, or the deletion that will remove it.  An *)
(* operation is the only one that is busy, and what is idle when it begins *)
(* stays idle until it ends.                                               *)
(*                                                                         *)
(* The current tokens of the iteration are the last ones read, and a word  *)
(* that was read is among them or in a chunk.                              *)
(***************************************************************************)
EXTENDS Maintenance, TextPipeline, FiniteSetTheorems, TLAPS

------------------------------------------------------------------------------
(* Uploads and Maintenance: the inductive invariant.                       *)

Contents == Texts \cup {None, Empty, Mixed}
Sums == {<< >>} \cup UNION {[S -> Contents] : S \in SUBSET Paths}

UploadsType ==
  /\ disk \in [Paths -> Contents]
  /\ rows \subseteq Documents
  /\ up \in [Uploads -> [pc : Over \cup {"choose", "open", "write", "check"}, n : Nat,
                         dest : Paths \cup {None}, mine : SUBSET Documents]]
  /\ lock \in Uploads \cup {None}
  /\ asked \in rows \cup {None}
  /\ leaving \in Paths \cup {None}
  /\ clashed \subseteq Paths

\* An upload is at a file of its selection, and holds its path from the choice
\* of a name to the check.
Holding(u) == up[u].pc \in {"open", "write", "check"}
PlaceInv == \A u \in Uploads :
  /\ up[u].n \in 1..Len(Files[u])
  /\ Holding(u) => up[u].dest \in Paths

\* The documents made so far, committed or not.
Made == rows \cup UNION {up[u].mine : u \in Uploads}

\* A path that did not clash is held by one upload, or belongs to one
\* document, or waits to be removed.
OwnerInv ==
  /\ \A u, v \in Uploads :
       u # v /\ Holding(u) /\ Holding(v) /\ up[u].dest = up[v].dest => up[u].dest \in clashed
  /\ \A u \in Uploads, d \in Made : Holding(u) /\ up[u].dest = d.path => d.path \in clashed
  /\ \A d, e \in Made : d # e /\ d.path = e.path => d.path \in clashed
  /\ \A u \in Uploads : Holding(u) /\ up[u].dest = leaving => leaving \in clashed
  /\ \A d \in Made : d.path = leaving => leaving \in clashed

\* What is on the disk under a path that did not clash is what its owner put
\* there.
ContentInv ==
  /\ \A u \in Uploads : Holding(u) /\ up[u].dest \notin clashed =>
       /\ up[u].pc = "open" => disk[up[u].dest] = None
       /\ up[u].pc = "write" => disk[up[u].dest] = Empty
       /\ up[u].pc = "check" => disk[up[u].dest] = File(u).text
  /\ \A d \in Made : d.path \notin clashed => disk[d.path] = d.hash
  /\ leaving \notin clashed \cup {None} => disk[leaving] # None

\* The texts of one request differ; it commits once, at its end.
HashInv ==
  /\ \A u \in Uploads : \A d \in up[u].mine :
       /\ d.by = u /\ up[u].n > 1 /\ up[u].pc \notin Over
       /\ \A e \in up[u].mine : d # e => d.hash # e.hash
  /\ \A d \in rows : up[d.by].pc = "done"

UploadsInv == UploadsType /\ PlaceInv /\ OwnerInv /\ ContentInv /\ HashInv /\ NoTwins

\* The states of an operation in which it has the flag.
Working == {"stop", "snapshot", "list", "hash", "write", "stage", "publish", "end"}
Busy(o) == op[o] \in Working

OperationType ==
  /\ maintenance \in BOOLEAN /\ pending \in BOOLEAN /\ runtime \in BOOLEAN
  /\ unstarted \in BOOLEAN /\ revived \in BOOLEAN
  /\ op \in [Requests -> Working \cup {"idle", "received", "done"}]
  /\ archive \in [rows : SUBSET Documents, names : SUBSET Paths, sums : Sums, texts : Sums,
                  published : BOOLEAN, quiet : BOOLEAN]
  /\ worker \in rows \cup {None, Idle}
  /\ app \in {"up", "preparing", "prepared", "final", "closing", "down"}

JobType ==
  /\ job \in [rows -> {"pending", "interrupted", "running", "ended"}]
  /\ left \subseteq rows

TypeOK == UploadsType /\ OperationType /\ JobType

\* The flag is set while one operation, and no other, is busy, with the worker
\* stopped in its first step; the worker is there at all other times, unless
\* it could not be started.
BusyInv ==
  /\ maintenance <=> \E o \in Requests : Busy(o)
  /\ \A o, q \in Requests : Busy(o) /\ Busy(q) => o = q
  /\ \A o \in Requests : Busy(o) /\ op[o] # "stop" => worker = None
  /\ app = "up" /\ ~maintenance => worker # None \/ unstarted

\* No upload or deletion is in progress.
Quiet == InFlight = {} /\ asked = None /\ leaving = None

\* The end of the application: nothing is in progress once the server has
\* drained, and the runtime is closed after the worker was stopped.
EndInv ==
  /\ app \in {"final", "closing", "down"} =>
       /\ Quiet
       /\ \A o \in Requests : op[o] \in {"idle", "done"}
  /\ app \in {"closing", "down"} => worker = None
  /\ app = "down" => ~runtime
  /\ app = "up" => runtime
  /\ app = "preparing" \/ ~runtime => worker = None \/ revived

\* What a backup that began in quiet has read is what is there.
Copy == [p \in archive.names |-> disk[p]]
ArchiveInv ==
  /\ ~maintenance => archive = NoArchive
  /\ \A o \in Requests : Busy(o) /\ op[o] # "end" => ~archive.published
  /\ archive.quiet =>
       /\ Quiet
       /\ \A o \in Requests :
            /\ op[o] \in {"list", "hash", "write"} => archive.rows = rows
            /\ op[o] \in {"hash", "write"} => archive.names = Present
            /\ op[o] = "write" => archive.sums = Copy
       /\ archive.published =>
            /\ archive.rows = rows /\ archive.names = Present
            /\ archive.sums = Copy /\ archive.texts = Copy

JobInv == JobType /\ NoneLeftRunning

IInv == UploadsInv /\ OperationType /\ BusyInv /\ EndInv /\ ArchiveInv /\ JobInv

------------------------------------------------------------------------------
(* Lemmas about the requests.                                              *)

\* The file an upload is at has a text and a name of the source.
LEMMA FileFacts ==
  ASSUME UploadsType, PlaceInv, NEW u \in Uploads
  PROVE  File(u).text \in Texts /\ FreeName(File(u).stem) \subseteq Paths
<1>1. Files[u] \in Seq(Selected) /\ up[u].n \in 1..Len(Files[u])
  BY FilesAssumption DEF PlaceInv
<1>2. File(u) \in Selected
  BY <1>1 DEF File
<1> QED BY <1>2 DEF Texts, Paths, FreeName

\* Nothing is in the source when it is created.
LEMMA UploadsInitInv ==
  ASSUME UploadsInit
  PROVE  UploadsInv
<1>1. UploadsType
  BY DEF UploadsInit, UploadsType, Contents, Over, At
<1>2. PlaceInv
  <2>1. ASSUME NEW u \in Uploads PROVE 1 \in 1..Len(Files[u])
    BY FilesAssumption
  <2> QED BY <2>1 DEF UploadsInit, PlaceInv, Holding, At
<1>3. Made = {}
  BY DEF UploadsInit, Made, At
<1>4. OwnerInv /\ ContentInv
  BY <1>3 DEF UploadsInit, OwnerInv, ContentInv, Holding, At
<1>5. HashInv /\ NoTwins
  BY DEF UploadsInit, HashInv, NoTwins, At
<1> QED BY <1>1, <1>2, <1>4, <1>5 DEF UploadsInv

\* An upload that begins.
LEMMA ReceiveInv ==
  ASSUME UploadsInv, NEW u \in Uploads, Receive(u)
  PROVE  UploadsInv'
<1>1. /\ up[u].pc = "idle" /\ up' = [up EXCEPT ![u].pc = "choose"]
      /\ UNCHANGED <<disk, rows, lock, asked, leaving, clashed>>
  BY DEF Receive
<1>2. UploadsType'
  BY <1>1 DEF UploadsInv, UploadsType, Over, Contents
<1>3. \A v \in Uploads : /\ up'[v].n = up[v].n /\ up'[v].dest = up[v].dest /\ up'[v].mine = up[v].mine
                         /\ v # u => up'[v] = up[v]
  BY <1>1 DEF UploadsInv, UploadsType
<1>4. up'[u].pc = "choose"
  BY <1>1 DEF UploadsInv, UploadsType
<1>5. /\ \A v \in Uploads : Holding(v)' => Holding(v) /\ v # u
      /\ Made' = Made
  BY <1>1, <1>3, <1>4 DEF Holding, Made
<1>6. PlaceInv'
  BY <1>3, <1>5 DEF UploadsInv, PlaceInv
<1>7. OwnerInv'
  BY <1>1, <1>3, <1>5 DEF UploadsInv, OwnerInv
<1>8. ContentInv'
  BY <1>1, <1>3, <1>5 DEF UploadsInv, ContentInv, File
<1>9. HashInv' /\ NoTwins'
  BY <1>1, <1>3, <1>4 DEF UploadsInv, HashInv, NoTwins, UploadsType, Documents, Over
<1> QED BY <1>2, <1>6, <1>7, <1>8, <1>9 DEF UploadsInv

\* A name is chosen: what was there was nobody's, or is about to clash.
LEMMA ChooseInv ==
  ASSUME UploadsInv, NEW u \in Uploads, Choose(u)
  PROVE  UploadsInv'
<1>1. PICK p \in FreeName(File(u).stem) :
        /\ up' = [up EXCEPT ![u].pc = "open", ![u].dest = p]
        /\ clashed' = IF \E v \in Uploads \ {u} : up[v].pc = "open" /\ up[v].dest = p
                      THEN clashed \cup {p} ELSE clashed
  BY DEF Choose
<1>2. up[u].pc = "choose" /\ UNCHANGED <<disk, rows, lock, asked, leaving>>
  BY DEF Choose
<1>3. p \in Paths /\ disk[p] = None
  BY <1>1, FileFacts DEF UploadsInv, FreeName
<1>4. UploadsType'
  <2> DEFINE UploadStates == [pc : Over \cup {"choose", "open", "write", "check"}, n : Nat,
                              dest : Paths \cup {None}, mine : SUBSET Documents]
  <2>1. up \in [Uploads -> UploadStates] /\ clashed \subseteq Paths
    BY DEF UploadsInv, UploadsType
  <2>2. [up[u] EXCEPT !.pc = "open", !.dest = p] \in UploadStates
    <3>1. up[u] \in UploadStates
      BY <2>1
    <3> QED BY <1>3, <3>1
  <2> HIDE DEF UploadStates
  <2>3. up' = [up EXCEPT ![u] = [up[u] EXCEPT !.pc = "open", !.dest = p]]
    BY <1>1, <2>1
  <2>4. up' \in [Uploads -> UploadStates]
    BY <2>1, <2>2, <2>3
  <2>5. clashed' \subseteq Paths
    BY <1>1, <1>3, <2>1
  <2> USE DEF UploadStates
  <2> QED BY <1>2, <2>4, <2>5 DEF UploadsInv, UploadsType
<1>5. \A v \in Uploads : /\ up'[v].n = up[v].n /\ up'[v].mine = up[v].mine
                         /\ v # u => up'[v] = up[v]
  BY <1>1 DEF UploadsInv, UploadsType
<1>6. up'[u].pc = "open" /\ up'[u].dest = p /\ clashed \subseteq clashed'
  BY <1>1 DEF UploadsInv, UploadsType
<1>7. /\ \A v \in Uploads : Holding(v)' <=> v = u \/ Holding(v)
      /\ Made' = Made
  BY <1>2, <1>5, <1>6 DEF Holding, Made
<1>8. PlaceInv'
  BY <1>3, <1>5, <1>6, <1>7 DEF UploadsInv, PlaceInv
<1>9. ASSUME NEW d \in Made PROVE d.path = p => p \in clashed
  <2>1. d.hash # None
    BY MarksAssumption DEF UploadsInv, UploadsType, Made, Documents
  <2> QED BY <1>3, <2>1 DEF UploadsInv, ContentInv
<1>10. ASSUME NEW v \in Uploads, v # u, Holding(v), up[v].dest = p PROVE p \in clashed'
  <2>1. CASE up[v].pc = "open"
    BY <1>1, <1>10, <2>1
  <2>2. CASE up[v].pc = "write"
    BY <1>3, <1>6, <1>10, <2>2, MarksAssumption DEF UploadsInv, ContentInv
  <2>3. CASE up[v].pc = "check"
    BY <1>3, <1>6, <1>10, <2>3, FileFacts, MarksAssumption DEF UploadsInv, ContentInv
  <2> QED BY <1>10, <2>1, <2>2, <2>3 DEF Holding
<1>11. p = leaving => p \in clashed
  BY <1>3, MarksAssumption DEF UploadsInv, ContentInv
<1>12. OwnerInv'
  <2>1. \A v, x \in Uploads :
          v # x /\ Holding(v)' /\ Holding(x)' /\ up'[v].dest = up'[x].dest => up'[v].dest \in clashed'
    BY <1>5, <1>6, <1>7, <1>10 DEF UploadsInv, OwnerInv
  <2>2. \A v \in Uploads, d \in Made' : Holding(v)' /\ up'[v].dest = d.path => d.path \in clashed'
    BY <1>5, <1>6, <1>7, <1>9 DEF UploadsInv, OwnerInv
  <2>3. \A v \in Uploads : Holding(v)' /\ up'[v].dest = leaving' => leaving' \in clashed'
    BY <1>2, <1>5, <1>6, <1>7, <1>11 DEF UploadsInv, OwnerInv
  <2> QED BY <1>2, <1>6, <1>7, <2>1, <2>2, <2>3 DEF UploadsInv, OwnerInv
<1>13. ContentInv'
  BY <1>2, <1>3, <1>5, <1>6, <1>7 DEF UploadsInv, ContentInv, File
<1>14. HashInv' /\ NoTwins'
  BY <1>2, <1>5, <1>6, SMTT(30) DEF UploadsInv, HashInv, NoTwins, UploadsType, Documents, Over
<1> QED BY <1>4, <1>8, <1>12, <1>13, <1>14 DEF UploadsInv

\* What one upload does to the path it holds touches no other owner's path.
LEMMA OthersKeep ==
  ASSUME UploadsInv, NEW u \in Uploads, Holding(u),
         \A q \in Paths : q # up[u].dest => disk'[q] = disk[q]
  PROVE  /\ \A v \in Uploads : v # u /\ Holding(v) /\ up[v].dest \notin clashed
              => disk'[up[v].dest] = disk[up[v].dest]
         /\ \A d \in Made : d.path \notin clashed => disk'[d.path] = disk[d.path]
         /\ leaving \notin clashed \cup {None} => disk'[leaving] = disk[leaving]
<1>1. ASSUME NEW v \in Uploads, v # u, Holding(v), up[v].dest \notin clashed
      PROVE  disk'[up[v].dest] = disk[up[v].dest]
  BY <1>1 DEF UploadsInv, OwnerInv, PlaceInv
<1>2. ASSUME NEW d \in Made, d.path \notin clashed PROVE disk'[d.path] = disk[d.path]
  BY <1>2 DEF UploadsInv, OwnerInv, UploadsType, Made, Documents
<1>3. leaving \notin clashed \cup {None} => disk'[leaving] = disk[leaving]
  BY DEF UploadsInv, OwnerInv, UploadsType
<1> QED BY <1>1, <1>2, <1>3

\* The file an upload holds is opened: its path has no other owner.
LEMMA OpenInv ==
  ASSUME UploadsInv, NEW u \in Uploads, Open(u)
  PROVE  UploadsInv'
<1> DEFINE p == up[u].dest
<1>1. /\ up[u].pc = "open" /\ up' = [up EXCEPT ![u].pc = "write"]
      /\ disk' = [disk EXCEPT ![p] = Empty]
      /\ UNCHANGED <<rows, lock, asked, leaving, clashed>>
  BY DEF Open
<1>2. p \in Paths /\ Holding(u)
  BY <1>1 DEF UploadsInv, PlaceInv, Holding
<1>3. UploadsType'
  BY <1>1, <1>2 DEF UploadsInv, UploadsType, Over, Contents
<1>4. /\ \A v \in Uploads : /\ up'[v].n = up[v].n /\ up'[v].dest = up[v].dest /\ up'[v].mine = up[v].mine
                            /\ v # u => up'[v] = up[v]
      /\ up'[u].pc = "write"
  BY <1>1 DEF UploadsInv, UploadsType
<1>5. /\ \A v \in Uploads : Holding(v)' <=> Holding(v)
      /\ Made' = Made
  BY <1>1, <1>4 DEF Holding, Made
<1>6. PlaceInv' /\ OwnerInv'
  BY <1>1, <1>4, <1>5 DEF UploadsInv, PlaceInv, OwnerInv
<1>7. disk'[p] = Empty /\ \A q \in Paths : q # p => disk'[q] = disk[q]
  BY <1>1, <1>2 DEF UploadsInv, UploadsType
<1>8. ContentInv'
  BY <1>1, <1>2, <1>4, <1>5, <1>7, OthersKeep DEF UploadsInv, ContentInv, File
<1>9. HashInv' /\ NoTwins'
  BY <1>1, <1>4 DEF UploadsInv, HashInv, NoTwins, UploadsType, Documents, Over
<1> QED BY <1>3, <1>6, <1>8, <1>9 DEF UploadsInv

\* The file is written: no other writer, unless the path clashed.
LEMMA WriteInv ==
  ASSUME UploadsInv, NEW u \in Uploads, Write(u)
  PROVE  UploadsInv'
<1> DEFINE p == up[u].dest
<1>1. PICK c \in Written(u) : disk' = [disk EXCEPT ![p] = c]
  BY DEF Write
<1>2. /\ up[u].pc = "write" /\ up' = [up EXCEPT ![u].pc = "check"]
      /\ UNCHANGED <<rows, lock, asked, leaving, clashed>>
  BY DEF Write
<1>3. p \in Paths /\ Holding(u)
  BY <1>2 DEF UploadsInv, PlaceInv, Holding
<1>4. c \in Contents
  BY <1>1, FileFacts DEF UploadsInv, Written, Contents
<1>5. p \notin clashed => c = File(u).text
  BY <1>1, <1>2, <1>3, MarksAssumption DEF Written, UploadsInv, ContentInv
<1>6. UploadsType'
  BY <1>1, <1>2, <1>3, <1>4 DEF UploadsInv, UploadsType, Over
<1>7. /\ \A v \in Uploads : /\ up'[v].n = up[v].n /\ up'[v].dest = up[v].dest /\ up'[v].mine = up[v].mine
                            /\ v # u => up'[v] = up[v]
      /\ up'[u].pc = "check"
  BY <1>2 DEF UploadsInv, UploadsType
<1>8. /\ \A v \in Uploads : Holding(v)' <=> Holding(v)
      /\ Made' = Made
  BY <1>2, <1>7 DEF Holding, Made
<1>9. PlaceInv' /\ OwnerInv'
  BY <1>2, <1>7, <1>8 DEF UploadsInv, PlaceInv, OwnerInv
<1>10. disk'[p] = c /\ \A q \in Paths : q # p => disk'[q] = disk[q]
  BY <1>1, <1>3 DEF UploadsInv, UploadsType
<1>11. ContentInv'
  BY <1>2, <1>3, <1>5, <1>7, <1>8, <1>10, OthersKeep DEF UploadsInv, ContentInv, File
<1>12. HashInv' /\ NoTwins'
  BY <1>2, <1>7 DEF UploadsInv, HashInv, NoTwins, UploadsType, Documents, Over
<1> QED BY <1>6, <1>9, <1>11, <1>12 DEF UploadsInv

\* An upload that fails gives up its path, with or without the file.
LEMMA RaiseInv ==
  ASSUME UploadsInv, NEW u \in Uploads, up[u].pc \in {"open", "write", "check"}, Raise(u),
         disk' \in {disk, [disk EXCEPT ![up[u].dest] = None]}
  PROVE  UploadsInv'
<1> DEFINE p == up[u].dest
<1>1. /\ up' = [up EXCEPT ![u] = At("error", @.n, {})]
      /\ lock' = (IF lock = u THEN None ELSE lock)
      /\ UNCHANGED <<rows, asked, leaving, clashed>>
  BY DEF Raise
<1>2. p \in Paths /\ Holding(u)
  BY DEF UploadsInv, PlaceInv, Holding
<1>3. UploadsType'
  BY <1>1, <1>2 DEF UploadsInv, UploadsType, Over, Contents, At
<1>4. /\ \A v \in Uploads : up'[v].n = up[v].n /\ (v # u => up'[v] = up[v])
      /\ up'[u].pc = "error" /\ up'[u].mine = {}
  BY <1>1 DEF UploadsInv, UploadsType, At
<1>5. /\ \A v \in Uploads : Holding(v)' => v # u /\ Holding(v)
      /\ Made' \subseteq Made
  BY <1>1, <1>4 DEF Holding, Made
<1>6. PlaceInv' /\ OwnerInv'
  BY <1>1, <1>4, <1>5 DEF UploadsInv, PlaceInv, OwnerInv
<1>7. \A q \in Paths : q # p => disk'[q] = disk[q]
  BY <1>2 DEF UploadsInv, UploadsType
<1>8. ContentInv'
  <2>1. ASSUME NEW v \in Uploads, Holding(v)', up'[v].dest \notin clashed'
        PROVE  /\ v # u /\ Holding(v) /\ up'[v] = up[v] /\ up[v].dest \notin clashed
               /\ disk'[up[v].dest] = disk[up[v].dest]
    BY <1>1, <1>2, <1>4, <1>5, <1>7, <2>1, OthersKeep
  <2>2. ASSUME NEW d \in Made', d.path \notin clashed' PROVE disk'[d.path] = d.hash
    BY <1>1, <1>2, <1>5, <1>7, <2>2, OthersKeep DEF UploadsInv, ContentInv
  <2>3. leaving' \notin clashed' \cup {None} => disk'[leaving'] # None
    BY <1>1, <1>2, <1>7, OthersKeep DEF UploadsInv, ContentInv
  <2> QED BY <2>1, <2>2, <2>3 DEF UploadsInv, ContentInv, File
<1>9. HashInv' /\ NoTwins'
  BY <1>1, <1>4 DEF UploadsInv, HashInv, NoTwins, UploadsType, Documents, Over
<1> QED BY <1>3, <1>6, <1>8, <1>9 DEF UploadsInv

\* The document of a new text is made from the file the upload holds; a known
\* text makes none.
LEMMA AddedFacts ==
  ASSUME UploadsInv, NEW u \in Uploads, up[u].pc = "check"
  PROVE  /\ Added(u) \subseteq Documents
         /\ \A d \in Added(u) : /\ d.path = up[u].dest /\ d.hash = File(u).text /\ d.by = u
                                /\ \A e \in rows \cup up[u].mine : e.hash # d.hash
         /\ \A d, e \in Added(u) : d = e
         /\ Known(u, File(u).text) <=> Added(u) = {}
<1>1. up[u].dest \in Paths /\ File(u).text \in Texts
  BY FileFacts DEF UploadsInv, PlaceInv, Holding
<1>2. CASE Known(u, File(u).text)
  BY <1>2 DEF Added
<1>3. CASE ~Known(u, File(u).text)
  <2>1. Added(u) = {[path |-> up[u].dest, hash |-> File(u).text, by |-> u]}
    BY <1>3 DEF Added
  <2>2. \A e \in rows \cup up[u].mine : e.hash # File(u).text
    BY <1>3 DEF Known
  <2>3. [path |-> up[u].dest, hash |-> File(u).text, by |-> u] \in Documents
    BY <1>1 DEF Documents
  <2> QED BY <1>3, <2>1, <2>2, <2>3
<1> QED BY <1>2, <1>3

\* The check ends a file: its document joins the others of the request, which
\* are committed together after the last.
LEMMA CheckInv ==
  ASSUME UploadsInv, NEW u \in Uploads, Check(u)
  PROVE  UploadsInv'
<1> DEFINE p == up[u].dest
           mine == up[u].mine \cup Added(u)
<1>1. /\ up[u].pc = "check"
      /\ disk' = (IF Known(u, File(u).text) THEN [disk EXCEPT ![p] = None] ELSE disk)
      /\ UNCHANGED <<asked, leaving, clashed>>
  BY DEF Check
<1>2. \/ /\ Last(u) /\ rows' = rows \cup mine
         /\ lock' = (IF lock = u THEN None ELSE lock)
         /\ up' = [up EXCEPT ![u] = At(IF mine = {} THEN "refused" ELSE "done", @.n, {})]
      \/ /\ ~Last(u) /\ rows' = rows
         /\ lock' = (IF Flushes(u) THEN u ELSE lock)
         /\ up' = [up EXCEPT ![u] = At("choose", @.n + 1, mine)]
  BY DEF Check
<1>3. p \in Paths /\ Holding(u) /\ up[u].n \in Nat /\ mine \subseteq Documents
  BY <1>1, AddedFacts DEF UploadsInv, UploadsType, PlaceInv, Holding
<1>4. UploadsType'
  <2>1. disk' \in [Paths -> Contents] /\ rows' \subseteq Documents /\ rows \subseteq rows'
    BY <1>1, <1>2, <1>3 DEF UploadsInv, UploadsType, Contents
  <2>2. At(IF mine = {} THEN "refused" ELSE "done", up[u].n, {}) \in
          [pc : Over \cup {"choose", "open", "write", "check"}, n : Nat,
           dest : Paths \cup {None}, mine : SUBSET Documents]
    BY <1>3 DEF At, Over
  <2>3. At("choose", up[u].n + 1, mine) \in
          [pc : Over \cup {"choose", "open", "write", "check"}, n : Nat,
           dest : Paths \cup {None}, mine : SUBSET Documents]
    BY <1>3 DEF At
  <2>4. up' \in [Uploads -> [pc : Over \cup {"choose", "open", "write", "check"}, n : Nat,
                             dest : Paths \cup {None}, mine : SUBSET Documents]]
    BY <1>2, <2>2, <2>3, ZenonT(60) DEF UploadsInv, UploadsType
  <2> QED BY <1>1, <1>2, <2>1, <2>4 DEF UploadsInv, UploadsType
<1>5. /\ \A v \in Uploads : v # u => up'[v] = up[v]
      /\ up'[u].pc \in {"refused", "done", "choose"}
      /\ Last(u) => up'[u].n = up[u].n /\ up'[u].mine = {}
      /\ mine # {} /\ Last(u) => up'[u].pc = "done"
      /\ ~Last(u) => up'[u].n = up[u].n + 1 /\ up'[u].mine = mine /\ up'[u].pc = "choose"
  BY <1>2 DEF UploadsInv, UploadsType, At
<1>6. \A v \in Uploads : Holding(v)' => v # u /\ Holding(v)
  BY <1>5 DEF Holding
<1>7. Made' \subseteq Made \cup Added(u)
  <2>1. ASSUME NEW v \in Uploads PROVE up'[v].mine \subseteq up[v].mine \cup Added(u)
    BY <1>2, <1>5
  <2>2. rows' \subseteq Made \cup Added(u)
    BY <1>2 DEF Made
  <2> QED BY <2>1, <2>2 DEF Made
<1>8. PlaceInv'
  <2>1. Len(Files[u]) \in Nat /\ up[u].n \in 1..Len(Files[u])
    BY FilesAssumption DEF UploadsInv, PlaceInv
  <2>2. ~Last(u) => up[u].n + 1 \in 1..Len(Files[u])
    BY <2>1 DEF Last
  <2> QED BY <1>5, <1>6, <2>1, <2>2 DEF UploadsInv, PlaceInv
<1>9. \A d \in Added(u) : /\ d.path = p /\ d.hash = File(u).text /\ d.by = u
                          /\ \A e \in rows \cup up[u].mine : e.hash # d.hash
                          /\ \A e \in Added(u) : d = e
  BY <1>1, AddedFacts
<1>10. OwnerInv'
  <2>1. \A v, x \in Uploads : v # x /\ Holding(v)' /\ Holding(x)' /\ up'[v].dest = up'[x].dest
          => up'[v].dest \in clashed
    BY <1>5, <1>6 DEF UploadsInv, OwnerInv
  <2>2. ASSUME NEW v \in Uploads, NEW d \in Made', Holding(v)', up'[v].dest = d.path
        PROVE  d.path \in clashed
    <3>1. v # u /\ Holding(v) /\ up[v].dest = d.path
      BY <1>5, <1>6, <2>2
    <3>2. CASE d \in Made
      BY <3>1, <3>2 DEF UploadsInv, OwnerInv
    <3>3. CASE d \in Added(u)
      BY <1>3, <1>9, <3>1, <3>3 DEF UploadsInv, OwnerInv
    <3> QED BY <1>7, <2>2, <3>2, <3>3
  <2>3. ASSUME NEW d \in Made', NEW e \in Made', d # e, d.path = e.path PROVE d.path \in clashed
    <3>1. CASE d \in Made /\ e \in Made
      BY <2>3, <3>1 DEF UploadsInv, OwnerInv
    <3>2. CASE d \in Made /\ e \in Added(u)
      BY <1>3, <1>9, <2>3, <3>2 DEF UploadsInv, OwnerInv
    <3>3. CASE d \in Added(u) /\ e \in Made
      BY <1>3, <1>9, <2>3, <3>3 DEF UploadsInv, OwnerInv
    <3>4. CASE d \in Added(u) /\ e \in Added(u)
      BY <1>9, <2>3, <3>4
    <3> QED BY <1>7, <2>3, <3>1, <3>2, <3>3, <3>4
  <2>4. \A v \in Uploads : Holding(v)' /\ up'[v].dest = leaving => leaving \in clashed
    BY <1>5, <1>6 DEF UploadsInv, OwnerInv
  <2>5. \A d \in Made' : d.path = leaving => leaving \in clashed
    BY <1>3, <1>7, <1>9 DEF UploadsInv, OwnerInv
  <2> QED BY <1>1, <2>1, <2>2, <2>3, <2>4, <2>5 DEF OwnerInv
<1>11. \A q \in Paths : q # p => disk'[q] = disk[q]
  BY <1>1, <1>3 DEF UploadsInv, UploadsType
<1>12. ContentInv'
  <2>1. \A v \in Uploads : Holding(v)' /\ up'[v].dest \notin clashed =>
          /\ up'[v].pc = "open" => disk'[up'[v].dest] = None
          /\ up'[v].pc = "write" => disk'[up'[v].dest] = Empty
          /\ up'[v].pc = "check" => disk'[up'[v].dest] = File(v)'.text
    BY <1>3, <1>5, <1>6, <1>11, OthersKeep DEF UploadsInv, ContentInv, File
  <2>2. ASSUME NEW d \in Made', d.path \notin clashed PROVE disk'[d.path] = d.hash
    <3>1. CASE d \in Made
      BY <1>3, <1>11, <2>2, <3>1, OthersKeep DEF UploadsInv, ContentInv
    <3>2. CASE d \in Added(u)
      <4>1. disk' = disk
        BY <1>1, <3>2, AddedFacts
      <4> QED BY <1>1, <1>3, <1>9, <2>2, <3>2, <4>1 DEF UploadsInv, ContentInv
    <3> QED BY <1>7, <2>2, <3>1, <3>2
  <2>3. leaving \notin clashed \cup {None} => disk'[leaving] # None
    BY <1>3, <1>11, OthersKeep DEF UploadsInv, ContentInv
  <2> QED BY <1>1, <2>1, <2>2, <2>3 DEF ContentInv
<1>13. \A d \in rows : d.by # u
  BY <1>1 DEF UploadsInv, HashInv
<1>14. \A d \in mine : d.by = u /\ \A e \in mine : d # e => d.hash # e.hash
  <2>1. \A d \in up[u].mine : d.by = u /\ \A e \in up[u].mine : d # e => d.hash # e.hash
    BY DEF UploadsInv, HashInv
  <2> QED BY <1>9, <2>1
<1>15. HashInv'
  <2>1. ASSUME NEW v \in Uploads, NEW d \in up'[v].mine
        PROVE  /\ d.by = v /\ up'[v].n > 1 /\ up'[v].pc \notin Over
               /\ \A e \in up'[v].mine : d # e => d.hash # e.hash
    <3>1. CASE v # u
      BY <1>5, <2>1, <3>1 DEF UploadsInv, HashInv
    <3>2. CASE v = u /\ ~Last(u)
      <4>1. up[u].n \in 1..Len(Files[u]) /\ Len(Files[u]) \in Nat
        BY FilesAssumption DEF UploadsInv, PlaceInv
      <4>2. up'[u].n > 1
        BY <1>5, <3>2, <4>1
      <4> QED BY <1>5, <1>14, <2>1, <3>2, <4>2 DEF Over
    <3>3. CASE v = u /\ Last(u)
      BY <1>5, <2>1, <3>3
    <3> QED BY <3>1, <3>2, <3>3
  <2>2. ASSUME NEW d \in rows' PROVE up'[d.by].pc = "done"
    <3>1. CASE d \in rows
      BY <1>5, <1>13, <3>1 DEF UploadsInv, HashInv, UploadsType, Documents
    <3>2. CASE d \notin rows
      BY <1>2, <1>5, <1>14, <2>2, <3>2
    <3> QED BY <3>1, <3>2
  <2> QED BY <2>1, <2>2 DEF HashInv
<1>16. NoTwins'
  <2>1. CASE ~Last(u)
    BY <1>2, <2>1 DEF UploadsInv, NoTwins
  <2>2. CASE Last(u)
    <3>1. rows' = rows \cup mine
      BY <1>2, <2>2
    <3>2. ASSUME NEW d \in mine, NEW e \in rows, d.hash = e.hash PROVE Len(Files[u]) > 1
      <4>1. d \in up[u].mine
        BY <1>9, <3>2
      <4>2. up[u].n > 1 /\ up[u].n \in 1..Len(Files[u]) /\ Len(Files[u]) \in Nat
        BY <4>1, FilesAssumption DEF UploadsInv, HashInv, PlaceInv
      <4> QED BY <4>2
    <3> QED BY <1>13, <1>14, <3>1, <3>2 DEF UploadsInv, NoTwins
  <2> QED BY <2>1, <2>2
<1> QED BY <1>4, <1>8, <1>10, <1>12, <1>15, <1>16 DEF UploadsInv

\* Every step of an upload keeps the invariant, keeps committed documents and
\* leaves the deletion alone.
LEMMA UploadStepInv ==
  ASSUME UploadsInv, NEW u \in Uploads, UploadStep(u)
  PROVE  /\ UploadsInv' /\ rows \subseteq rows' /\ clashed \subseteq clashed'
         /\ u \in InFlight
<1>1. CASE Choose(u)
  BY <1>1, ChooseInv DEF Choose, InFlight, Over
<1>2. CASE Open(u)
  BY <1>2, OpenInv DEF Open, InFlight, Over
<1>3. CASE Write(u)
  BY <1>3, WriteInv DEF Write, InFlight, Over
<1>4. CASE CopyFails(u)
  BY <1>4, RaiseInv DEF CopyFails, Raise, InFlight, Over
<1>5. CASE CheckLocked(u)
  BY <1>5, RaiseInv DEF CheckLocked, Raise, InFlight, Over
<1>6. CASE Check(u)
  BY <1>6, CheckInv DEF Check, InFlight, Over
<1> QED BY <1>1, <1>2, <1>3, <1>4, <1>5, <1>6 DEF UploadStep

\* The row of the document goes, and its path waits for its file to be
\* removed; no upload has it in hand, so no document has that path any more.
LEMMA DeleteRowInv ==
  ASSUME UploadsInv, DeleteRow, leaving = None
  PROVE  UploadsInv'
<1>1. asked # None /\ asked' = None /\ UNCHANGED <<disk, up, lock, clashed>>
  BY DEF DeleteRow
<1>2. CASE lock = None
  <2>1. rows' = rows \ {asked} /\ leaving' = asked.path
    BY <1>2 DEF DeleteRow
  <2>2. asked \in rows /\ asked \in Documents
    BY <1>1 DEF UploadsInv, UploadsType
  <2>3. asked.path \in Paths /\ asked.path # None
    BY <2>2, MarksAssumption DEF Documents
  <2>4. UploadsType' /\ PlaceInv'
    BY <1>1, <2>1, <2>3 DEF UploadsInv, UploadsType, PlaceInv, Holding, Contents, Over
  <2>5. Made' \subseteq Made \ {asked}
    <3>1. \A u \in Uploads : asked \notin up[u].mine
      BY <2>2 DEF UploadsInv, HashInv, Over
    <3> QED BY <1>1, <2>1, <3>1 DEF Made
  <2>6. asked \in Made
    BY <2>2 DEF Made
  <2>7. OwnerInv'
    BY <1>1, <2>1, <2>5, <2>6 DEF UploadsInv, OwnerInv, Holding
  <2>8. asked.hash # None
    BY <2>2, MarksAssumption DEF Documents
  <2>9. ContentInv'
    BY <1>1, <2>1, <2>5, <2>6, <2>8 DEF UploadsInv, ContentInv, Holding, File
  <2>10. HashInv' /\ NoTwins'
    BY <1>1, <2>1 DEF UploadsInv, HashInv, NoTwins, Over
  <2> QED BY <2>4, <2>7, <2>9, <2>10 DEF UploadsInv
<1>3. CASE lock # None
  <2>1. UNCHANGED <<rows, leaving>>
    BY <1>3 DEF DeleteRow
  <2>2. UploadsType' /\ PlaceInv'
    BY <1>1, <2>1 DEF UploadsInv, UploadsType, PlaceInv, Holding, Contents, Over
  <2>3. Made' = Made
    BY <1>1, <2>1 DEF Made
  <2>4. OwnerInv' /\ ContentInv'
    BY <1>1, <2>1, <2>3 DEF UploadsInv, OwnerInv, ContentInv, Holding, File
  <2>5. HashInv' /\ NoTwins'
    BY <1>1, <2>1 DEF UploadsInv, HashInv, NoTwins, Over
  <2> QED BY <2>2, <2>4, <2>5 DEF UploadsInv
<1> QED BY <1>2, <1>3

\* The file goes; unless its path clashed, nobody else has it.
LEMMA DeleteFileInv ==
  ASSUME UploadsInv, DeleteFile
  PROVE  UploadsInv'
<1>1. /\ leaving # None /\ leaving' = None /\ disk' = [disk EXCEPT ![leaving] = None]
      /\ UNCHANGED <<rows, up, lock, asked, clashed>>
  BY DEF DeleteFile
<1>2. leaving \in Paths
  BY <1>1 DEF UploadsInv, UploadsType
<1>3. UploadsType' /\ PlaceInv'
  BY <1>1, <1>2 DEF UploadsInv, UploadsType, PlaceInv, Holding, Contents, Over
<1>4. Made' = Made /\ \A u \in Uploads : Holding(u)' <=> Holding(u)
  BY <1>1 DEF Made, Holding
<1>5. \A d \in Made : d.path \in Paths
  BY DEF UploadsInv, UploadsType, Made, Documents
<1>6. OwnerInv'
  <2>1. \A u \in Uploads : Holding(u) => up[u].dest # None
    BY MarksAssumption DEF UploadsInv, PlaceInv
  <2>2. \A d \in Made : d.path # None
    BY <1>5, MarksAssumption
  <2> QED BY <1>1, <1>4, <2>1, <2>2 DEF UploadsInv, OwnerInv
<1>7. \A q \in Paths : q # leaving => disk'[q] = disk[q]
  BY <1>1, <1>2 DEF UploadsInv, UploadsType
<1>8. ContentInv'
  <2>1. \A u \in Uploads : Holding(u) /\ up[u].dest \notin clashed => disk'[up[u].dest] = disk[up[u].dest]
    BY <1>7 DEF UploadsInv, OwnerInv, PlaceInv
  <2>2. \A d \in Made : d.path \notin clashed => disk'[d.path] = disk[d.path]
    BY <1>5, <1>7 DEF UploadsInv, OwnerInv
  <2> QED BY <1>1, <1>4, <2>1, <2>2 DEF UploadsInv, ContentInv, File
<1>9. HashInv' /\ NoTwins'
  BY <1>1 DEF UploadsInv, HashInv, NoTwins, Over
<1> QED BY <1>3, <1>6, <1>8, <1>9 DEF UploadsInv

\* The invariant is about the variables of Uploads alone.
LEMMA UploadsFrame ==
  ASSUME UploadsInv, disk' = disk, rows' = rows, up' = up, lock' = lock,
         leaving' = leaving, clashed' = clashed, asked' \in rows \cup {None}
  PROVE  UploadsInv'
<1>1. UploadsType' /\ PlaceInv'
  BY DEF UploadsInv, UploadsType, PlaceInv, Holding, Contents, Over
<1>2. Made' = Made
  BY DEF Made
<1>3. OwnerInv' /\ ContentInv'
  BY <1>2 DEF UploadsInv, OwnerInv, ContentInv, Holding, File
<1>4. HashInv' /\ NoTwins'
  BY DEF UploadsInv, HashInv, NoTwins, Over
<1> QED BY <1>1, <1>3, <1>4 DEF UploadsInv

\* What uploads and deletions guarantee: a document has its source unless its
\* path clashed.
LEMMA SourceFollows ==
  ASSUME UploadsInv
  PROVE  SourceUnlessClash
BY DEF UploadsInv, ContentInv, Made, SourceUnlessClash

------------------------------------------------------------------------------
(* Uploads and deletions among the other requests.                         *)

\* The jobs follow the documents: no upload or deletion leaves one running.
LEMMA JobsFollowInv ==
  ASSUME JobInv, JobsFollow, worker' = worker, worker \in rows' \cup {None, Idle}
  PROVE  JobInv'
<1>1. job \in [rows -> {"pending", "interrupted", "running", "ended"}] /\ left \subseteq rows
  BY DEF JobInv, JobType
<1>2. job' = [d \in rows' |-> IF d \in rows THEN job[d] ELSE "pending"] /\ left' = left \cap rows'
  BY <1>1 DEF JobsFollow
<1>3. JobType'
  BY <1>1, <1>2 DEF JobType
<1>4. NoneLeftRunning'
  BY <1>1, <1>2 DEF JobInv, NoneLeftRunning
<1> QED BY <1>3, <1>4 DEF JobInv

\* Jobs change with the documents, the worker and its attempts alone.
LEMMA JobsFrame ==
  ASSUME JobInv, UNCHANGED <<rows, workerVars>>
  PROVE  JobInv'
BY DEF JobInv, JobType, NoneLeftRunning, workerVars

\* A step of a request in progress, or one that is admitted, happens neither
\* after the server has drained nor during a backup that began in quiet.
LEMMA RequestInv ==
  ASSUME IInv, UploadsInv', UNCHANGED <<opVars, runtime, app>>, worker' = worker,
         Admits \/ ~Quiet,
         worker \in rows' \cup {None, Idle}, JobInv'
  PROVE  IInv'
<1>1. OperationType'
  BY DEF IInv, OperationType, opVars, startVars, Working
<1>2. BusyInv'
  BY DEF IInv, BusyInv, Busy, opVars, startVars
<1>3. EndInv'
  BY DEF IInv, EndInv, Admits, opVars, startVars
<1>4. ArchiveInv'
  <2>1. ~archive.quiet
    BY DEF IInv, ArchiveInv, Admits, NoArchive
  <2> QED BY <2>1 DEF IInv, ArchiveInv, Busy, opVars
<1> QED BY <1>1, <1>2, <1>3, <1>4 DEF IInv

\* Each request of the knowledge routes.
LEMMA KnowledgeInv ==
  ASSUME IInv,
         \/ \E u \in Uploads : UploadReceived(u) \/ UploadGoesOn(u)
         \/ DeleteReceived \/ DeleteGoesOn
  PROVE  IInv'
<1>1. ASSUME NEW u \in Uploads, UploadReceived(u) PROVE IInv'
  <2>1. /\ Admits /\ Receive(u) /\ UNCHANGED <<opVars, runtime, app>> /\ worker' = worker
        /\ UNCHANGED <<rows, workerVars>>
    BY <1>1 DEF UploadReceived, Receive, workerVars
  <2>2. UploadsInv'
    BY <2>1, ReceiveInv DEF IInv
  <2>3. JobInv'
    BY <2>1, JobsFrame DEF IInv
  <2> QED BY <2>1, <2>2, <2>3, RequestInv DEF IInv, OperationType
<1>2. ASSUME NEW u \in Uploads, UploadGoesOn(u) PROVE IInv'
  <2>1. /\ UploadStep(u) /\ JobsFollow /\ UNCHANGED <<opVars, runtime, app>> /\ worker' = worker
    BY <1>2 DEF UploadGoesOn
  <2>2. UploadsInv' /\ rows \subseteq rows' /\ ~Quiet
    BY <2>1, UploadStepInv DEF IInv, Quiet
  <2>3. JobInv'
    BY <2>1, <2>2, JobsFollowInv DEF IInv, OperationType
  <2> QED BY <2>1, <2>2, <2>3, RequestInv DEF IInv, OperationType
<1>3. CASE DeleteReceived
  <2>1. /\ Admits /\ AskDelete /\ UNCHANGED <<opVars, runtime, app>> /\ worker' = worker
        /\ UNCHANGED <<rows, workerVars>>
    BY <1>3 DEF DeleteReceived, AskDelete, workerVars
  <2>2. UploadsInv'
    BY <2>1, UploadsFrame DEF IInv, AskDelete
  <2>3. JobInv'
    BY <2>1, JobsFrame DEF IInv
  <2> QED BY <2>1, <2>2, <2>3, RequestInv DEF IInv, OperationType
<1>4. CASE DeleteGoesOn
  <2>1. /\ JobsFollow /\ UNCHANGED <<opVars, runtime, app>> /\ worker' = worker
    BY <1>4 DEF DeleteGoesOn
  <2>2. CASE worker \in {None, Idle} /\ leaving = None /\ DeleteRow
    <3>1. UploadsInv' /\ ~Quiet
      BY <2>2, DeleteRowInv DEF IInv, DeleteRow, Quiet
    <3>2. JobInv'
      BY <2>1, <2>2, JobsFollowInv DEF IInv
    <3> QED BY <2>1, <2>2, <3>1, <3>2, RequestInv
  <2>3. CASE DeleteFile
    <3>1. UploadsInv' /\ rows' = rows /\ ~Quiet
      BY <2>3, DeleteFileInv DEF IInv, DeleteFile, Quiet
    <3>2. JobInv'
      BY <2>1, <3>1, JobsFollowInv DEF IInv, OperationType
    <3> QED BY <2>1, <3>1, <3>2, RequestInv DEF IInv, OperationType
  <2> QED BY <1>4, <2>2, <2>3 DEF DeleteGoesOn
<1> QED BY <1>1, <1>2, <1>3, <1>4

------------------------------------------------------------------------------
(* The worker, and the end of the application.                             *)

\* A step of the worker or of the end of the application keeps what belongs to
\* the requests.
LEMMA OthersInv ==
  ASSUME IInv, UNCHANGED uploadVars, UNCHANGED opVars,
         worker' \in rows \cup {None, Idle},
         runtime' \in BOOLEAN, app' \in {"up", "preparing", "prepared", "final", "closing", "down"},
         BusyInv', EndInv', JobInv'
  PROVE  IInv'
<1>1. UploadsInv'
  BY UploadsFrame DEF IInv, UploadsInv, UploadsType, uploadVars
<1>2. OperationType'
  BY DEF IInv, OperationType, opVars, uploadVars, Working, startVars
<1>3. ArchiveInv'
  BY DEF IInv, ArchiveInv, Busy, Quiet, InFlight, Present, Copy, opVars, uploadVars
<1> QED BY <1>1, <1>2, <1>3 DEF IInv

\* The end of the worker's attempt is stored, or its job is left running.
LEMMA SettleInv ==
  ASSUME IInv, worker \in rows, NEW outcome \in {"interrupted", "ended"}, Settle(outcome),
         rows' = rows, worker' \in {None, Idle}
  PROVE  JobInv'
<1>1. /\ job \in [rows -> {"pending", "interrupted", "running", "ended"}] /\ left \subseteq rows
      /\ NoneLeftRunning /\ rows \subseteq Documents
  BY DEF IInv, JobInv, JobType, UploadsInv, UploadsType
<1>2. worker \notin {None, Idle} /\ worker' \notin rows
  BY <1>1, MarksAssumption, IdleAssumption
<1>3. {d \in rows : job[d] = "running"} = left \cup {worker} /\ worker \notin left
  BY <1>1, <1>2 DEF NoneLeftRunning
<1>4. CASE lock = None
  <2>1. job' = [job EXCEPT ![worker] = outcome] /\ left' = left
    BY <1>4 DEF Settle
  <2>2. {d \in rows : job'[d] = "running"} = {d \in rows : job[d] = "running"} \ {worker}
    BY <1>1, <2>1
  <2>3. NoneLeftRunning'
    BY <1>1, <1>2, <1>3, <2>1, <2>2 DEF NoneLeftRunning
  <2> QED BY <1>1, <2>1, <2>3 DEF JobInv, JobType
<1>5. CASE lock # None
  <2>1. job' = job /\ left' = left \cup {worker}
    BY <1>5 DEF Settle
  <2>2. NoneLeftRunning'
    BY <1>1, <1>2, <1>3, <2>1 DEF NoneLeftRunning
  <2> QED BY <1>1, <2>1, <2>2 DEF JobInv, JobType
<1> QED BY <1>4, <1>5

\* A claimed document is one that waits; the attempt at it ends.
LEMMA WorkerInv ==
  ASSUME IInv, Claim \/ Work
  PROVE  IInv'
<1>1. CASE Claim
  <2>1. PICK d \in rows : /\ job[d] \in {"pending", "interrupted"} /\ worker' = d
                          /\ job' = [job EXCEPT ![d] = "running"]
    BY <1>1 DEF Claim
  <2>2. worker = Idle /\ UNCHANGED <<uploadVars, opVars, left, runtime, app>>
    BY <1>1 DEF Claim
  <2>3. d # None /\ d # Idle /\ Idle # None /\ rows' = rows
    BY <2>2, MarksAssumption, IdleAssumption DEF IInv, UploadsInv, UploadsType, uploadVars
  <2>4. JobInv'
    <3>1. /\ job \in [rows -> {"pending", "interrupted", "running", "ended"}] /\ left \subseteq rows
          /\ {e \in rows : job[e] = "running"} = left
      BY <2>2 DEF IInv, JobInv, JobType, NoneLeftRunning
    <3>2. {e \in rows : job'[e] = "running"} = left \cup {d} /\ d \notin left
      BY <2>1, <3>1
    <3> QED BY <2>1, <2>2, <2>3, <3>1, <3>2 DEF JobInv, JobType, NoneLeftRunning
  <2>5. BusyInv' /\ EndInv'
    BY <2>1, <2>2, <2>3
       DEF IInv, BusyInv, EndInv, Busy, Quiet, InFlight, uploadVars, opVars, startVars
  <2> QED BY <2>1, <2>2, <2>4, <2>5, OthersInv DEF IInv, OperationType
<1>2. CASE Work
  <2>1. /\ worker \in rows /\ worker' = Idle /\ UNCHANGED <<uploadVars, opVars, runtime, app>>
        /\ Settle("ended")
    BY <1>2 DEF Work
  <2>2. worker # None /\ Idle # None
    BY <2>1, MarksAssumption, IdleAssumption DEF IInv, UploadsInv, UploadsType
  <2>3. JobInv'
    BY <2>1, SettleInv DEF uploadVars
  <2>4. BusyInv' /\ EndInv'
    BY <2>1, <2>2
       DEF IInv, BusyInv, EndInv, Busy, Quiet, InFlight, uploadVars, opVars, startVars
  <2> QED BY <2>1, <2>3, <2>4, OthersInv DEF IInv, OperationType
<1> QED BY <1>1, <1>2

\* Stopping the worker: its job waits again, or is left running.
LEMMA StopFacts ==
  ASSUME IInv, StopWorker, rows' = rows
  PROVE  worker' = None /\ JobInv'
<1>1. CASE worker \in rows
  BY <1>1, SettleInv DEF StopWorker
<1>2. CASE worker \notin rows
  <2>1. worker' = None /\ job' = job /\ left' = left /\ worker \in {None, Idle} /\ None \notin rows
    BY <1>2, MarksAssumption DEF StopWorker, IInv, OperationType, UploadsInv, UploadsType
  <2> QED BY <2>1 DEF IInv, JobInv, JobType, NoneLeftRunning
<1> QED BY <1>1, <1>2

\* The end of the application.
LEMMA ShutdownInv ==
  ASSUME IInv, Prepare \/ Prepared \/ ServerDrains \/ FinalStop \/ Closed
  PROVE  IInv'
<1> USE DEF BusyInv, EndInv, Busy, Quiet, InFlight, uploadVars, opVars, startVars, workerVars
<1>1. CASE Prepare
  <2>1. worker' = None /\ JobInv'
    BY <1>1, StopFacts DEF Prepare
  <2>2. BusyInv' /\ EndInv'
    BY <1>1, <2>1 DEF Prepare, IInv
  <2> QED BY <1>1, <2>1, <2>2, OthersInv DEF Prepare, IInv, OperationType
<1>2. CASE Prepared
  <2>1. BusyInv' /\ EndInv' /\ JobInv'
    BY <1>2 DEF Prepared, IInv, JobInv, JobType, NoneLeftRunning
  <2> QED BY <1>2, <2>1, OthersInv DEF Prepared, IInv, OperationType
<1>3. CASE ServerDrains
  <2>1. BusyInv' /\ EndInv' /\ JobInv'
    BY <1>3 DEF ServerDrains, IInv, JobInv, JobType, NoneLeftRunning
  <2> QED BY <1>3, <2>1, OthersInv DEF ServerDrains, IInv, OperationType
<1>4. CASE FinalStop
  <2>1. worker' = None /\ JobInv'
    BY <1>4, StopFacts DEF FinalStop
  <2>2. BusyInv' /\ EndInv'
    BY <1>4, <2>1 DEF FinalStop, IInv
  <2> QED BY <1>4, <2>1, <2>2, OthersInv DEF FinalStop, IInv, OperationType
<1>5. CASE Closed
  <2>1. BusyInv' /\ EndInv' /\ JobInv'
    BY <1>5 DEF Closed, IInv, JobInv, JobType, NoneLeftRunning
  <2> QED BY <1>5, <2>1, OthersInv DEF Closed, IInv, OperationType
<1> QED BY <1>1, <1>2, <1>3, <1>4, <1>5

------------------------------------------------------------------------------
(* The maintenance requests.                                               *)

\* While an operation is busy the application has not drained.
LEMMA BusyFacts ==
  ASSUME IInv, NEW o \in Requests, Busy(o)
  PROVE  /\ maintenance /\ app \notin {"final", "closing", "down"}
         /\ \A q \in Requests \ {o} : ~Busy(q)
         /\ op[o] # "stop" => worker = None
BY DEF IInv, BusyInv, EndInv, Busy, Working

\* A step of a busy operation that keeps it busy, with what it has read.
LEMMA AdvanceInv ==
  ASSUME IInv, NEW o \in Requests, Busy(o), NEW stage \in Working \ {"stop"},
         UNCHANGED <<uploadVars, maintenance, startVars, runtime, app>>,
         op' = [op EXCEPT ![o] = stage], pending' \in BOOLEAN,
         worker' = None, JobInv',
         archive' \in [rows : SUBSET Documents, names : SUBSET Paths, sums : Sums, texts : Sums,
                       published : BOOLEAN, quiet : {archive.quiet}],
         stage # "end" => ~archive'.published,
         archive.quiet =>
           /\ stage \in {"list", "hash", "write"} => archive'.rows = rows
           /\ stage \in {"hash", "write"} => archive'.names = Present
           /\ stage = "write" => archive'.sums = Copy'
           /\ archive'.published => /\ archive'.rows = rows /\ archive'.names = Present
                                    /\ archive'.sums = Copy' /\ archive'.texts = Copy'
  PROVE  IInv'
<1>1. UploadsInv'
  BY UploadsFrame DEF IInv, UploadsInv, UploadsType, uploadVars
<1>2. OperationType'
  BY DEF IInv, OperationType, uploadVars, Working, startVars
<1>3. op'[o] = stage /\ \A q \in Requests : q # o => op'[q] = op[q]
  BY DEF IInv, OperationType
<1>4. \A q \in Requests : Busy(q)' <=> q = o
  BY <1>3, BusyFacts DEF Busy
<1>5. BusyInv'
  BY <1>3, <1>4, BusyFacts DEF BusyInv
<1>6. EndInv'
  BY BusyFacts DEF IInv, EndInv
<1>7. Present' = Present
  BY DEF Present, uploadVars
<1>8. ArchiveInv'
  <2>1. archive'.quiet = archive.quiet
    OBVIOUS
  <2>2. archive.quiet => Quiet'
    BY DEF IInv, ArchiveInv, Quiet, InFlight, uploadVars
  <2>3. maintenance' /\ rows' = rows
    BY BusyFacts DEF uploadVars
  <2>4. \A q \in Requests : q # o => op'[q] \notin {"list", "hash", "write"}
    BY <1>4 DEF Busy, Working
  <2> QED BY <1>3, <1>4, <1>7, <2>1, <2>2, <2>3, <2>4 DEF ArchiveInv
<1> QED BY <1>1, <1>2, <1>5, <1>6, <1>8 DEF IInv

\* A request that passes the middleware, and one that finds the flag set.
LEMMA WaitInv ==
  ASSUME IInv, NEW o \in Requests, ~Busy(o), NEW stage \in {"received", "done"}, stage = "received" => Admits,
         op' = [op EXCEPT ![o] = stage],
         UNCHANGED <<uploadVars, maintenance, archive, pending, startVars, workerVars, runtime, app>>
  PROVE  IInv'
<1>1. UploadsInv'
  BY UploadsFrame DEF IInv, UploadsInv, UploadsType, uploadVars
<1>2. OperationType'
  BY DEF IInv, OperationType, uploadVars, startVars, workerVars
<1>3. op'[o] = stage /\ \A q \in Requests : q # o => op'[q] = op[q]
  BY DEF IInv, OperationType
<1>4. \A q \in Requests : /\ Busy(q)' <=> Busy(q)
                          /\ Busy(q)' => op'[q] = op[q]
  BY <1>3 DEF Busy, Working
<1>5. BusyInv'
  BY <1>4 DEF IInv, BusyInv, startVars, workerVars
<1>6. EndInv'
  BY <1>3 DEF IInv, EndInv, Admits, Quiet, InFlight, uploadVars, startVars, workerVars
<1>7. ArchiveInv'
  BY <1>3, <1>4 DEF IInv, ArchiveInv, Quiet, InFlight, Present, Copy, Busy, uploadVars
<1>8. JobInv'
  BY JobsFrame DEF IInv, uploadVars
<1> QED BY <1>1, <1>2, <1>5, <1>6, <1>7, <1>8 DEF IInv

\* The flag was clear, so no other operation is busy; whether anything is in
\* progress is noted with it.
LEMMA EnterInv ==
  ASSUME IInv, NEW o \in Requests, Enter(o)
  PROVE  IInv'
<1>1. op[o] = "received" /\ UNCHANGED <<uploadVars, pending, startVars, workerVars, runtime, app>>
  BY DEF Enter
<1>2. CASE ~MayOperate
  <2>1. op' = [op EXCEPT ![o] = "done"] /\ UNCHANGED <<maintenance, archive>>
    BY <1>2 DEF Enter
  <2> QED BY <1>1, <2>1, WaitInv DEF Busy, Working
<1>3. CASE MayOperate
  <2>1. /\ ~maintenance /\ op' = [op EXCEPT ![o] = "stop"] /\ maintenance' = TRUE
        /\ archive' = [archive EXCEPT !.quiet = Quiet]
    BY <1>3 DEF Enter, MayOperate, Quiet
  <2>2. archive' = [NoArchive EXCEPT !.quiet = Quiet]
    BY <2>1 DEF IInv, ArchiveInv
  <2>3. archive' = [rows |-> {}, names |-> {}, sums |-> << >>, texts |-> << >>,
                    published |-> FALSE, quiet |-> Quiet]
    BY <2>2 DEF NoArchive
  <2>4. op'[o] = "stop" /\ \A q \in Requests : q # o => op'[q] = op[q]
    BY <2>1 DEF IInv, OperationType
  <2>5. \A q \in Requests : Busy(q)' <=> q = o
    BY <2>1, <2>4 DEF IInv, BusyInv, Busy, Working
  <2>6. UploadsInv'
    BY <1>1, UploadsFrame DEF IInv, UploadsInv, UploadsType, uploadVars
  <2>7. OperationType'
    <3>1. archive' \in [rows : SUBSET Documents, names : SUBSET Paths, sums : Sums, texts : Sums,
                        published : BOOLEAN, quiet : BOOLEAN]
      BY <2>3 DEF Sums, Quiet
    <3> QED BY <1>1, <2>1, <3>1 DEF IInv, OperationType, uploadVars, Working, startVars, workerVars
  <2>8. BusyInv'
    BY <1>1, <2>1, <2>4, <2>5 DEF BusyInv, IInv
  <2>9. app \notin {"final", "closing", "down"}
    BY <1>1 DEF IInv, EndInv
  <2>10. EndInv'
    BY <1>1, <2>9 DEF IInv, EndInv, startVars, workerVars
  <2>11. ArchiveInv'
    <3>1. archive'.quiet = Quiet /\ archive'.published = FALSE
      BY <2>3
    <3>2. Quiet' <=> Quiet
      BY <1>1 DEF Quiet, InFlight, uploadVars
    <3>3. archive'.quiet => Quiet'
      BY <3>1, <3>2
    <3>4. \A q \in Requests : op'[q] \notin {"list", "hash", "write"}
      BY <2>4, <2>5 DEF Busy, Working
    <3> QED BY <2>1, <3>1, <3>3, <3>4 DEF ArchiveInv
  <2>12. JobInv'
    BY <1>1, JobsFrame DEF IInv, uploadVars
  <2> QED BY <2>6, <2>7, <2>8, <2>10, <2>11, <2>12 DEF IInv
<1> QED BY <1>2, <1>3

\* The worker is stopped before the thread begins.
LEMMA StopFirstInv ==
  ASSUME IInv, NEW o \in Requests, StopFirst(o)
  PROVE  IInv'
<1>1. op[o] = "stop" /\ Busy(o) /\ StopWorker
      /\ UNCHANGED <<uploadVars, maintenance, archive, pending, startVars, runtime, app>>
  BY DEF StopFirst, Busy, Working
<1>2. PICK stage \in {"snapshot", "stage"} : op' = [op EXCEPT ![o] = stage]
  BY DEF StopFirst
<1>3. worker' = None /\ JobInv'
  BY <1>1, StopFacts DEF uploadVars
<1>4. archive \in [rows : SUBSET Documents, names : SUBSET Paths, sums : Sums, texts : Sums,
                   published : BOOLEAN, quiet : {archive.quiet}] /\ ~archive.published
  BY <1>1 DEF IInv, OperationType, ArchiveInv
<1>5. pending' \in BOOLEAN
  BY <1>1 DEF IInv, OperationType
<1> QED BY <1>1, <1>2, <1>3, <1>4, <1>5, AdvanceInv DEF Working

\* A step of the thread: the worker is stopped, the uploads and documents stay.
LEMMA ThreadInv ==
  ASSUME IInv, NEW o \in Requests, Busy(o), op[o] # "stop", NEW stage \in Working \ {"stop"}, NEW contents,
         Advance(o, stage, contents),
         contents \in [rows : SUBSET Documents, names : SUBSET Paths, sums : Sums, texts : Sums,
                       published : BOOLEAN, quiet : {archive.quiet}],
         stage # "end" => ~contents.published,
         archive.quiet =>
           /\ stage \in {"list", "hash", "write"} => contents.rows = rows
           /\ stage \in {"hash", "write"} => contents.names = Present
           /\ stage = "write" => contents.sums = [p \in contents.names |-> disk[p]]
           /\ contents.published =>
                /\ contents.rows = rows /\ contents.names = Present
                /\ contents.sums = [p \in contents.names |-> disk[p]]
                /\ contents.texts = [p \in contents.names |-> disk[p]]
  PROVE  IInv'
<1>1. /\ archive' = contents /\ op' = [op EXCEPT ![o] = stage]
      /\ UNCHANGED <<uploadVars, maintenance, pending, startVars, workerVars, runtime, app>>
  BY DEF Advance
<1>2. worker' = None /\ rows' = rows
  BY <1>1, BusyFacts DEF uploadVars, workerVars
<1>3. JobInv' /\ pending' \in BOOLEAN
  BY <1>1, JobsFrame DEF IInv, OperationType, uploadVars
<1>4. Copy' = [p \in contents.names |-> disk[p]]
  BY <1>1 DEF Copy, uploadVars
<1> QED BY <1>1, <1>2, <1>3, <1>4, AdvanceInv

\* The hashes, or the contents, of files that are there.
LEMMA CopyType ==
  ASSUME IInv
  PROVE  Copy \in Sums
<1>1. archive.names \in SUBSET Paths /\ disk \in [Paths -> Contents]
  BY DEF IInv, OperationType, UploadsInv, UploadsType
<1>2. Copy \in [archive.names -> Contents]
  BY <1>1 DEF Copy
<1> QED BY <1>1, <1>2 DEF Sums

\* The steps of a backup and of a staging, in their thread.
LEMMA InThreadInv ==
  ASSUME IInv, NEW o \in Requests,
         \/ Snapshot(o) \/ List(o) \/ Hash(o) \/ WriteArchive(o) \/ OperationFails(o) \/ Validate(o)
  PROVE  IInv'
<1>1. op[o] \in {"snapshot", "list", "hash", "write", "stage", "publish"}
  BY DEF Snapshot, List, Hash, WriteArchive, OperationFails, Validate, InThread
<1>2. Busy(o) /\ op[o] # "stop" /\ ~archive.published
  BY <1>1 DEF IInv, ArchiveInv, Busy, Working
<1>3. archive \in [rows : SUBSET Documents, names : SUBSET Paths, sums : Sums, texts : Sums,
                   published : BOOLEAN, quiet : {archive.quiet}]
  BY DEF IInv, OperationType
<1>4. rows \in SUBSET Documents /\ Present \in SUBSET Paths
  BY DEF IInv, UploadsInv, UploadsType, Present
<1>5. archive.quiet => /\ op[o] \in {"list", "hash", "write"} => archive.rows = rows
                       /\ op[o] \in {"hash", "write"} => archive.names = Present
                       /\ op[o] = "write" => archive.sums = Copy
  BY DEF IInv, ArchiveInv
<1>6. ASSUME NEW stage \in {"publish", "end"}, Advance(o, stage, archive) PROVE IInv'
  BY <1>2, <1>3, <1>6, ThreadInv DEF Working
<1>7. CASE Snapshot(o)
  <2> DEFINE c == [archive EXCEPT !.rows = rows]
  <2>1. Advance(o, "list", c)
    BY <1>7 DEF Snapshot
  <2>2. c \in [rows : SUBSET Documents, names : SUBSET Paths, sums : Sums, texts : Sums,
               published : BOOLEAN, quiet : {archive.quiet}] /\ c.rows = rows /\ ~c.published
    BY <1>2, <1>3, <1>4
  <2> QED BY <1>2, <2>1, <2>2, ThreadInv DEF Working
<1>8. CASE List(o)
  <2> DEFINE c == [archive EXCEPT !.names = Present]
  <2>1. Advance(o, "hash", c) /\ op[o] = "list"
    BY <1>8 DEF List
  <2>2. c \in [rows : SUBSET Documents, names : SUBSET Paths, sums : Sums, texts : Sums,
               published : BOOLEAN, quiet : {archive.quiet}]
        /\ c.rows = archive.rows /\ c.names = Present /\ ~c.published
    BY <1>2, <1>3, <1>4
  <2> QED BY <1>2, <1>5, <2>1, <2>2, ThreadInv DEF Working
<1>9. CASE Hash(o)
  <2> DEFINE c == [archive EXCEPT !.sums = Copy]
  <2>1. Advance(o, "end", archive) \/ (Advance(o, "write", c) /\ op[o] = "hash")
    BY <1>9 DEF Hash, Copy
  <2>2. c \in [rows : SUBSET Documents, names : SUBSET Paths, sums : Sums, texts : Sums,
               published : BOOLEAN, quiet : {archive.quiet}]
        /\ c.rows = archive.rows /\ c.names = archive.names /\ c.sums = Copy /\ ~c.published
    BY <1>2, <1>3, CopyType
  <2>3. c.sums = [p \in c.names |-> disk[p]]
    BY <2>2 DEF Copy
  <2> QED BY <1>2, <1>5, <1>6, <2>1, <2>2, <2>3, ThreadInv DEF Working
<1>10. CASE WriteArchive(o)
  <2> DEFINE c == [archive EXCEPT !.texts = Copy, !.published = TRUE]
  <2>1. Advance(o, "end", archive) \/ (Advance(o, "end", c) /\ op[o] = "write")
    BY <1>10 DEF WriteArchive, Copy
  <2>2. c \in [rows : SUBSET Documents, names : SUBSET Paths, sums : Sums, texts : Sums,
               published : BOOLEAN, quiet : {archive.quiet}]
        /\ c.rows = archive.rows /\ c.names = archive.names /\ c.sums = archive.sums /\ c.texts = Copy
    BY <1>3, CopyType
  <2>3. Copy = [p \in c.names |-> disk[p]]
    BY <2>2 DEF Copy
  <2> QED BY <1>2, <1>5, <1>6, <2>1, <2>2, <2>3, ThreadInv DEF Working
<1>11. CASE OperationFails(o)
  BY <1>6, <1>11 DEF OperationFails
<1>12. CASE Validate(o)
  BY <1>6, <1>12 DEF Validate
<1> QED BY <1>7, <1>8, <1>9, <1>10, <1>11, <1>12

\* The checked archive is put where the next start finds it.
LEMMA StageInv ==
  ASSUME IInv, NEW o \in Requests, StageRestore(o)
  PROVE  IInv'
<1>1. /\ op[o] = "publish" /\ Busy(o) /\ op' = [op EXCEPT ![o] = "end"] /\ pending' \in BOOLEAN
      /\ UNCHANGED <<uploadVars, maintenance, archive, startVars, workerVars, runtime, app>>
  BY DEF StageRestore, Busy, Working
<1>2. worker' = None
  BY <1>1, BusyFacts DEF workerVars
<1>3. JobInv'
  BY <1>1, JobsFrame DEF IInv, OperationType, uploadVars
<1>4. archive \in [rows : SUBSET Documents, names : SUBSET Paths, sums : Sums, texts : Sums,
                   published : BOOLEAN, quiet : {archive.quiet}] /\ ~archive.published
  BY <1>1 DEF IInv, OperationType, ArchiveInv
<1> QED BY <1>1, <1>2, <1>3, <1>4, AdvanceInv DEF Working

\* A start of the worker: every job that did not end waits again, or nothing
\* changed and there is no worker.
LEMMA StartFacts ==
  ASSUME IInv, worker = None, StartWorker, rows' = rows
  PROVE  /\ JobInv'
         /\ \/ worker' = Idle /\ unstarted' = FALSE /\ revived' = (revived \/ app # "up")
            \/ worker' = None /\ unstarted' = TRUE /\ revived' = revived
<1>1. CASE lock # None /\ Unended # {}
  <2>1. unstarted' = TRUE /\ UNCHANGED <<workerVars, revived>>
    BY <1>1 DEF StartWorker
  <2>2. JobInv'
    BY <2>1, JobsFrame DEF IInv
  <2> QED BY <2>1, <2>2 DEF workerVars
<1>2. CASE ~(lock # None /\ Unended # {})
  <2>1. /\ worker' = Idle /\ left' = {} /\ unstarted' = FALSE /\ revived' = (revived \/ app # "up")
        /\ job' = [d \in rows |-> IF d \in Unended THEN "pending" ELSE job[d]]
    BY <1>2 DEF StartWorker
  <2>2. job \in [rows -> {"pending", "interrupted", "running", "ended"}]
    BY DEF IInv, JobInv, JobType
  <2>3. \A d \in rows : job'[d] # "running"
    BY <2>1 DEF Unended
  <2>4. NoneLeftRunning'
    BY <2>1, <2>3 DEF NoneLeftRunning
  <2>5. JobType'
    BY <2>1, <2>2 DEF JobType
  <2> QED BY <2>1, <2>4, <2>5 DEF JobInv
<1> QED BY <1>1, <1>2

\* The finally clause: nobody is busy any more, and the worker is there again
\* or could not be started.
LEMMA LeaveInv ==
  ASSUME IInv, NEW o \in Requests, Leave(o)
  PROVE  IInv'
<1>1. /\ op[o] = "end" /\ Busy(o) /\ op' = [op EXCEPT ![o] = "done"]
      /\ maintenance' = FALSE /\ archive' = NoArchive
      /\ StartWorker /\ UNCHANGED <<uploadVars, pending, runtime, app>>
  BY DEF Leave, Busy, Working
<1>2. UploadsInv' /\ rows' = rows
  BY <1>1, UploadsFrame DEF IInv, UploadsInv, UploadsType, uploadVars
<1>3. /\ worker = None /\ Idle # None /\ JobInv'
      /\ \/ worker' = Idle /\ unstarted' = FALSE /\ revived' = (revived \/ app # "up")
         \/ worker' = None /\ unstarted' = TRUE /\ revived' = revived
  BY <1>1, <1>2, BusyFacts, StartFacts, IdleAssumption
<1>4. OperationType'
  <2>1. NoArchive \in [rows : SUBSET Documents, names : SUBSET Paths, sums : Sums, texts : Sums,
                       published : BOOLEAN, quiet : BOOLEAN]
    BY DEF NoArchive, Sums
  <2> QED BY <1>1, <1>2, <1>3, <2>1 DEF IInv, OperationType
<1>5. op'[o] = "done" /\ \A q \in Requests : q # o => op'[q] = op[q]
  BY <1>1 DEF IInv, OperationType
<1>6. \A q \in Requests : ~Busy(q)'
  BY <1>1, <1>5, BusyFacts DEF Busy, Working
<1>7. BusyInv'
  BY <1>1, <1>3, <1>6 DEF BusyInv
<1>8. EndInv'
  BY <1>1, <1>3, BusyFacts DEF IInv, EndInv
<1>9. ArchiveInv'
  BY <1>1, <1>6 DEF ArchiveInv, NoArchive, Busy
<1> QED BY <1>2, <1>3, <1>4, <1>7, <1>8, <1>9 DEF IInv

------------------------------------------------------------------------------
(* The theorems.                                                           *)

\* The invariant holds when the application starts ...
LEMMA InitInv ==
  ASSUME Init
  PROVE  IInv
<1>1. UploadsInv /\ rows = {}
  BY UploadsInitInv DEF Init, UploadsInit
<1>2. OperationType
  <2>1. NoArchive \in [rows : SUBSET Documents, names : SUBSET Paths, sums : Sums, texts : Sums,
                       published : BOOLEAN, quiet : BOOLEAN]
    BY DEF NoArchive, Sums
  <2> QED BY <2>1 DEF Init, OperationType
<1>3. BusyInv /\ EndInv
  BY IdleAssumption DEF Init, BusyInv, EndInv, Busy, Working
<1>4. ArchiveInv
  BY <1>1 DEF Init, ArchiveInv, NoArchive, Busy, Working
<1>5. JobInv
  BY <1>1 DEF Init, JobInv, JobType, NoneLeftRunning
<1> QED BY <1>1, <1>2, <1>3, <1>4, <1>5 DEF IInv

\* ... and every step keeps it.
LEMMA NextInv ==
  ASSUME IInv, [Next]_vars
  PROVE  IInv'
<1>1. CASE \/ \E u \in Uploads : UploadReceived(u) \/ UploadGoesOn(u)
           \/ DeleteReceived \/ DeleteGoesOn
  BY <1>1, KnowledgeInv
<1>2. CASE Claim \/ Work
  BY <1>2, WorkerInv
<1>3. ASSUME NEW o \in Requests, OperationReceived(o) \/ OperationStep(o) \/ OperationFails(o)
      PROVE  IInv'
  <2>1. CASE OperationReceived(o)
    BY <2>1, WaitInv DEF OperationReceived, Busy, Working
  <2>2. CASE Enter(o)
    BY <2>2, EnterInv
  <2>3. CASE StopFirst(o)
    BY <2>3, StopFirstInv
  <2>4. CASE Snapshot(o) \/ List(o) \/ Hash(o) \/ WriteArchive(o) \/ OperationFails(o) \/ Validate(o)
    BY <2>4, InThreadInv
  <2>5. CASE StageRestore(o)
    BY <2>5, StageInv
  <2>6. CASE Leave(o)
    BY <2>6, LeaveInv
  <2> QED BY <1>3, <2>1, <2>2, <2>3, <2>4, <2>5, <2>6 DEF OperationStep
<1>4. CASE Prepare \/ Prepared \/ ServerDrains \/ FinalStop \/ Closed
  BY <1>4, ShutdownInv
<1>5. CASE UNCHANGED vars
  <2>1. UNCHANGED uploadVars /\ UNCHANGED opVars /\ UNCHANGED workerVars
        /\ runtime' = runtime /\ app' = app
    BY <1>5 DEF vars, opVars
  <2>2. worker' = worker /\ BusyInv' /\ EndInv'
    BY <2>1 DEF IInv, BusyInv, EndInv, Busy, Quiet, InFlight, uploadVars, opVars, startVars, workerVars
  <2>3. JobInv'
    BY <2>1, JobsFrame DEF IInv, uploadVars
  <2> QED BY <2>1, <2>2, <2>3, OthersInv DEF IInv, OperationType
<1> QED BY <1>1, <1>2, <1>3, <1>4, <1>5 DEF Next

\* In every reachable state a path that never clashed has one owner, an
\* operation is alone, and a backup that began in quiet has read what is there.
THEOREM Invariance == Spec => []IInv
<1>1. Init => IInv
  BY InitInv
<1>2. IInv /\ [Next]_vars => IInv'
  BY NextInv
<1> QED BY <1>1, <1>2, PTL DEF Spec

\* Every variable stays in its type.
THEOREM TypeCorrect == Spec => []TypeOK
<1>1. IInv => TypeOK
  BY DEF IInv, UploadsInv, JobInv, TypeOK
<1> QED BY <1>1, Invariance, PTL

\* upload_documents, delete_document: a document has the file it was made
\* from, unless two requests chose its name before either created the file.
THEOREM SourceKept == Spec => []SourceUnlessClash
<1>1. IInv => SourceUnlessClash
  BY SourceFollows DEF IInv
<1> QED BY <1>1, Invariance, PTL

\* upload_documents: two documents of one text come from two requests, one of
\* which selected several files.
THEOREM NoTwinsOfOneRequest == Spec => []NoTwins
<1>1. IInv => NoTwins
  BY DEF IInv, UploadsInv
<1> QED BY <1>1, Invariance, PTL

\* _operate: in the thread of a backup or a staging there is no worker, no
\* other operation and no admission of requests.
THEOREM OperationsAlone == Spec => []ThreadIsAlone
<1>1. IInv => ThreadIsAlone
  <2> SUFFICES ASSUME IInv, NEW o \in Requests, InThread(o)
               PROVE  /\ worker = None /\ maintenance
                      /\ \A q \in Requests \ {o} : op[q] \in {"idle", "received", "done"}
    BY DEF ThreadIsAlone
  <2>1. Busy(o) /\ op[o] # "stop"
    BY DEF InThread, Busy, Working
  <2> QED BY <2>1, BusyFacts DEF IInv, OperationType, Busy
<1> QED BY <1>1, Invariance, PTL

\* create_backup: an archive that began with nothing in flight holds every
\* document's file as the manifest and the document say.
THEOREM BackupWhole == Spec => []BackupIsWhole
<1>1. IInv => BackupIsWhole
  <2> SUFFICES ASSUME IInv, archive.published, archive.quiet
               PROVE  /\ archive.texts = archive.sums
                      /\ \A d \in archive.rows : d.path \notin clashed =>
                           d.path \in archive.names /\ archive.texts[d.path] = d.hash
    BY DEF BackupIsWhole
  <2>1. /\ archive.rows = rows /\ archive.names = Present
        /\ archive.sums = Copy /\ archive.texts = Copy
    BY DEF IInv, ArchiveInv
  <2>2. ASSUME NEW d \in rows, d.path \notin clashed
        PROVE  d.path \in Present /\ Copy[d.path] = d.hash
    <3>1. disk[d.path] = d.hash /\ d.path \in Paths /\ d.hash # None
      BY <2>2, SourceFollows, MarksAssumption
         DEF IInv, SourceUnlessClash, UploadsInv, UploadsType, Documents
    <3> QED BY <2>1, <3>1 DEF Present, Copy
  <2> QED BY <2>1, <2>2
<1> QED BY <1>1, Invariance, PTL

\* _process_locked, stop and start: the jobs that say they are running are the
\* worker's and those whose end a locked database refused.
THEOREM RunningAccounted == Spec => []NoneLeftRunning
<1>1. IInv => NoneLeftRunning
  BY DEF IInv, JobInv
<1> QED BY <1>1, Invariance, PTL

\* lifespan, _operate: there is a worker whenever requests are taken, unless it
\* was to be started in a locked database, and none with a closed runtime, unless
\* an operation started it when the end had begun; nothing works on the profile
\* once the application is down.
THEOREM WorkerFollows == Spec => []WorkerFollowsApp
<1>1. IInv => WorkerFollowsApp
  BY DEF IInv, BusyInv, EndInv, WorkerFollowsApp, Busy, Working, Quiet
<1> QED BY <1>1, Invariance, PTL


------------------------------------------------------------------------------
(* TextPipeline: the inductive invariant.                                  *)

Pieces == [from : Int, to : Int]
Tasks == [piece : Pieces, depth : Nat, most : Int]
Chunks == [tokens : Seq(Nat) \ {<< >>}, start : Nat, end : Nat]

TextType ==
  /\ text \in Sources /\ config \in Configs
  /\ seg \in 1..(Len(text.segs) + 1) /\ read \in Nat
  /\ current \in Seq(Nat) /\ fresh \in BOOLEAN
  /\ pages \in [start : Nat, end : Nat]
  /\ chunks \in Seq(Chunks) /\ work \in Seq(Tasks) /\ embedded \in Seq(Tasks)
  /\ pc \in {"segment", "marks", "take", "done", "embed", "failed"}
  /\ next \in {"segment", "marks", "take", "done"}

\* Where the iteration is, or will be when the chunk is embedded.
Stage == IF pc \in {"embed", "failed"} THEN next ELSE pc

\* The current tokens are the last ones read; without new ones among them they
\* are no more than the overlap.
ReadInv ==
  /\ Stage \in {"segment", "marks", "done"} => read = Start(seg)
  /\ Stage \in {"marks", "take"} => seg <= Len(text.segs)
  /\ Stage = "take" => Start(seg) <= read /\ read <= End(seg)
  /\ Stage = "done" => seg > Len(text.segs)
  /\ Len(current) <= read /\ Len(current) < chunkSize
  /\ \A i \in DOMAIN current : current[i] = read - Len(current) + i
  /\ ~fresh => Len(current) <= overlapSize

\* How far the chunks reach.
Reach == IF chunks = << >> THEN 0 ELSE Final(chunks[Len(chunks)])

\* What was read after the last chunk is in the current tokens, or blank.
GapInv ==
  /\ Reach \in 0..read
  /\ read - Len(current) >= Reach - AtMost(overlapSize, Reach)
  /\ \A t \in (Reach + 1)..(read - Len(current)) : ~IsWord(t)
  /\ ~fresh \/ Stage = "done" => \A t \in (Reach + 1)..read : ~IsWord(t)
  /\ fresh => read > Reach

\* The pages of the current tokens.
PageInv ==
  /\ pages.start <= pages.end
  /\ Stage \in {"segment", "marks"} => pages.end = 1 + MarksTo(seg - 1)
  /\ Stage = "take" => pages.end = 1 + MarksTo(seg)
  /\ \A t \in (Reach + 1)..read : t > read - Len(current) /\ IsWord(t) => PageOf(t) \in pages.start..pages.end

ChunkInv == \A i \in DOMAIN chunks : Covers(chunks[i], IF i = 1 THEN 0 ELSE Final(chunks[i - 1]))

IterInv == TextType /\ ReadInv /\ GapInv /\ PageInv /\ ChunkInv

\* The pieces of the last chunk.
PieceInv == pc \in {"embed", "failed"} => chunks # << >> /\ PiecesCover

TextInv == IterInv /\ PieceInv

------------------------------------------------------------------------------
(* Lemmas about texts and configurations.                                  *)

\* An element of a sequence.
LEMMA Element ==
  ASSUME NEW T, NEW s \in Seq(T), NEW i \in 1..Len(s)
  PROVE  s[i] \in T
OBVIOUS

\* The segments of a text follow each other and end with the text.
LEMMA SegmentFacts ==
  ASSUME TextType
  PROVE  /\ Len(text.segs) \in Nat \ {0} /\ Len(text.words) \in Nat
         /\ DOMAIN text.segs = 1..Len(text.segs) /\ DOMAIN text.words = 1..Len(text.words)
         /\ \A i \in 1..Len(text.segs) :
              /\ End(i) \in Nat /\ Start(i) \in Nat /\ Start(i) <= End(i) /\ Start(i + 1) = End(i)
              /\ \A j \in 1..Len(text.segs) : i < j => End(i) <= Start(j)
         /\ Start(1) = 0 /\ Start(Len(text.segs) + 1) = Len(text.words)
<1>1. /\ text.words \in Seq(BOOLEAN)
      /\ text.segs \in Seq([end : Nat, lineStart : BOOLEAN, page : BOOLEAN]) \ {<<>>}
      /\ \A i, j \in DOMAIN text.segs : i <= j => text.segs[i].end <= text.segs[j].end
      /\ text.segs[Len(text.segs)].end = Len(text.words)
  BY SourcesAssumption DEF TextType
<1>2. Len(text.segs) \in Nat \ {0} /\ DOMAIN text.segs = 1..Len(text.segs)
  BY <1>1
<1>3. ASSUME NEW i \in 1..Len(text.segs) PROVE End(i) \in Nat
  <2>1. text.segs[i] \in [end : Nat, lineStart : BOOLEAN, page : BOOLEAN]
    BY <1>1, Element
  <2> QED BY <2>1 DEF End
<1>4. ASSUME NEW i \in 1..Len(text.segs)
      PROVE  Start(i) \in Nat /\ Start(i) <= End(i) /\ Start(i + 1) = End(i)
  <2>1. Start(i + 1) = End(i)
    BY <1>2 DEF Start, End
  <2>2. CASE i = 1
    BY <1>3, <2>1, <2>2 DEF Start
  <2>3. CASE i # 1
    <3>1. i - 1 \in 1..Len(text.segs) /\ i - 1 <= i
      BY <1>2, <2>3
    <3>2. Start(i) = End(i - 1) /\ End(i - 1) \in Nat
      BY <1>3, <2>3, <3>1 DEF Start, End
    <3> QED BY <1>1, <1>2, <2>1, <3>1, <3>2 DEF End
  <2> QED BY <2>2, <2>3
<1>5. ASSUME NEW i \in 1..Len(text.segs), NEW j \in 1..Len(text.segs), i < j
      PROVE  End(i) <= Start(j)
  <2>1. j # 1 /\ j - 1 \in 1..Len(text.segs) /\ i <= j - 1
    BY <1>2, <1>5
  <2> QED BY <1>1, <1>2, <2>1 DEF Start, End
<1> QED BY <1>1, <1>2, <1>3, <1>4, <1>5 DEF Start

\* The limits of a configuration, brought into their ranges.
LEMMA ConfigFacts ==
  ASSUME TextType
  PROVE  /\ chunkSize \in Nat \ {0} /\ overlapSize \in 0..(chunkSize - 1)
         /\ minChunkSize \in 1..chunkSize
<1>1. config.chunk_size \in Int /\ config.chunk_overlap \in Int /\ config.min_chunk_size \in Int
  BY ConfigsAssumption DEF TextType
<1> QED BY <1>1 DEF chunkSize, overlapSize, minChunkSize, AtMost, AtLeast

\* The marks up to a segment are those before it and its own.
LEMMA MarksFacts ==
  /\ MarksTo(0) = 0
  /\ \A i \in Nat : MarksTo(i) \in Nat
  /\ \A i \in Nat \ {0} : MarksTo(i) = MarksTo(i - 1) + (IF Marked(i) THEN 1 ELSE 0)
<1>1. ASSUME NEW i \in Nat PROVE IsFiniteSet({j \in 1..i : Marked(j)})
  <2>1. IsFiniteSet(1..i)
    BY FS_Interval
  <2> QED BY <2>1, FS_Subset
<1>2. \A i \in Nat : MarksTo(i) \in Nat
  BY <1>1, FS_CardinalityType DEF MarksTo
<1>3. MarksTo(0) = 0
  <2>1. {j \in 1..0 : Marked(j)} = {}
    OBVIOUS
  <2> QED BY <2>1, FS_EmptySet DEF MarksTo
<1>4. ASSUME NEW i \in Nat \ {0}
      PROVE  MarksTo(i) = MarksTo(i - 1) + (IF Marked(i) THEN 1 ELSE 0)
  <2> DEFINE M(k) == {j \in 1..k : Marked(j)}
  <2>1. IsFiniteSet(M(i - 1)) /\ i \notin M(i - 1)
    BY <1>1
  <2>2. CASE Marked(i)
    <3>1. M(i) = M(i - 1) \cup {i}
      BY <2>2
    <3>2. Cardinality(M(i)) = Cardinality(M(i - 1)) + 1
      BY <2>1, <3>1, FS_AddElement
    <3> QED BY <2>2, <3>2 DEF MarksTo
  <2>3. CASE ~Marked(i)
    <3>1. M(i) = M(i - 1)
      BY <2>3
    <3> QED BY <1>2, <2>3, <3>1 DEF MarksTo
  <2> QED BY <2>2, <2>3
<1> QED BY <1>2, <1>3, <1>4

\* A token has the page of the segment it is in.
LEMMA PageOfSegment ==
  ASSUME TextType, NEW i \in 1..Len(text.segs), NEW t \in Int, Start(i) < t, t <= End(i)
  PROVE  PageOf(t) = 1 + MarksTo(i)
<1>1. ASSUME NEW j \in DOMAIN text.segs, Start(j) < t, t <= End(j) PROVE j = i
  <2>1. j \in 1..Len(text.segs) /\ Len(text.segs) \in Nat
    BY SegmentFacts
  <2>2. /\ i < j => End(i) <= Start(j)
        /\ j < i => End(j) <= Start(i)
    BY <2>1, SegmentFacts
  <2>3. End(i) \in Nat /\ Start(i) \in Nat /\ End(j) \in Nat /\ Start(j) \in Nat
    BY <2>1, SegmentFacts
  <2> QED BY <1>1, <2>1, <2>2, <2>3
<1>2. i \in DOMAIN text.segs
  BY SegmentFacts
<1>3. (CHOOSE j \in DOMAIN text.segs : Start(j) < t /\ t <= End(j)) = i
  BY <1>1, <1>2
<1> QED BY <1>3 DEF PageOf

\* A step that leaves the text and the configuration leaves what is told by them.
LEMMA Frame ==
  ASSUME text' = text, config' = config
  PROVE  /\ chunkSize' = chunkSize /\ overlapSize' = overlapSize /\ minChunkSize' = minChunkSize
         /\ \A t : IsWord(t)' = IsWord(t) /\ PageOf(t)' = PageOf(t)
         /\ \A i : Start(i)' = Start(i) /\ End(i)' = End(i) /\ MarksTo(i)' = MarksTo(i)
<1>1. \A i : Marked(i)' = Marked(i) /\ Start(i)' = Start(i) /\ End(i)' = End(i)
  BY DEF Marked, Start, End
<1>2. ASSUME NEW i PROVE MarksTo(i)' = MarksTo(i)
  <2>1. {j \in 1..i : Marked(j)}' = {j \in 1..i : Marked(j)}
    BY <1>1
  <2> QED BY <2>1 DEF MarksTo
<1>3. ASSUME NEW t PROVE PageOf(t)' = PageOf(t)
  <2> DEFINE here == CHOOSE i \in DOMAIN text.segs : Start(i) < t /\ t <= End(i)
  <2>1. here' = here
    BY DEF Start, End
  <2>2. MarksTo(here)' = MarksTo(here)
    <3> HIDE DEF here
    <3> QED BY <2>1 DEF MarksTo, Marked
  <2> QED BY <2>2 DEF PageOf
<1>4. \A t : IsWord(t)' = IsWord(t)
  BY DEF IsWord
<1>5. chunkSize' = chunkSize /\ overlapSize' = overlapSize /\ minChunkSize' = minChunkSize
  BY DEF chunkSize, overlapSize, minChunkSize
<1> QED BY <1>1, <1>2, <1>3, <1>4, <1>5

\* A chunk joins the others.
LEMMA AppendChunk ==
  ASSUME ChunkInv, chunks \in Seq(Chunks), NEW c \in Chunks, chunks' = Append(chunks, c),
         text' = text, config' = config, Covers(c, Reach)
  PROVE  ChunkInv' /\ Reach' = Final(c) /\ chunks' \in Seq(Chunks) /\ chunks' # << >>
         /\ chunks'[Len(chunks')] = c
<1>1. /\ Len(chunks') = Len(chunks) + 1 /\ chunks' \in Seq(Chunks) /\ Len(chunks) \in Nat
      /\ chunks'[Len(chunks) + 1] = c /\ DOMAIN chunks' = 1..(Len(chunks) + 1)
      /\ \A i \in 1..Len(chunks) : chunks'[i] = chunks[i]
  OBVIOUS
<1>2. Reach' = Final(c) /\ chunks' # << >>
  BY <1>1 DEF Reach, Final
<1>3. ASSUME NEW i \in DOMAIN chunks'
      PROVE  Covers(chunks'[i], IF i = 1 THEN 0 ELSE Final(chunks'[i - 1]))
  <2>1. CASE i = Len(chunks) + 1
    <3>1. (IF i = 1 THEN 0 ELSE Final(chunks'[i - 1])) = Reach
      <4>1. CASE i = 1
        BY <1>1, <2>1, <4>1 DEF Reach
      <4>2. CASE i # 1
        <5>1. i - 1 = Len(chunks) /\ i - 1 \in 1..Len(chunks) /\ chunks # << >>
          BY <1>1, <2>1, <4>2
        <5> QED BY <1>1, <4>2, <5>1 DEF Reach
      <4> QED BY <4>1, <4>2
    <3>2. chunks'[i] = c
      BY <1>1, <2>1
    <3> HIDE DEF Reach
    <3> QED BY <3>1, <3>2
  <2>2. CASE i # Len(chunks) + 1
    <3>1. i \in 1..Len(chunks) /\ (i # 1 => i - 1 \in 1..Len(chunks)) /\ i \in DOMAIN chunks
      BY <1>1, <2>2
    <3>2. chunks'[i] = chunks[i] /\ (i # 1 => chunks'[i - 1] = chunks[i - 1])
      BY <1>1, <3>1
    <3>3. Covers(chunks[i], IF i = 1 THEN 0 ELSE Final(chunks[i - 1]))
      BY <3>1 DEF ChunkInv
    <3> QED BY <3>2, <3>3
  <2> QED BY <2>1, <2>2
<1>4. ASSUME NEW i \in DOMAIN chunks'
      PROVE  Covers(chunks[i], IF i = 1 THEN 0 ELSE Final(chunks[i - 1]))'
  <2>1. /\ chunkSize' = chunkSize /\ overlapSize' = overlapSize /\ minChunkSize' = minChunkSize
        /\ \A t : IsWord(t)' = IsWord(t) /\ PageOf(t)' = PageOf(t)
    BY Frame
  <2> DEFINE d == chunks'[i]
             o == IF i = 1 THEN 0 ELSE Final(chunks'[i - 1])
  <2>2. Covers(d, o)
    BY <1>3
  <2> HIDE DEF d, o
  <2>3. /\ Len(d.tokens) <= chunkSize'
        /\ Final(d) - First(d) + 1 = Len(d.tokens)
        /\ First(d) > o - AtMost(overlapSize', o)
        /\ \A t \in (o + 1)..(First(d) - 1) : ~IsWord(t)'
        /\ \A t \in AtLeast(First(d), o + 1)..Final(d) : IsWord(t)' => PageOf(t)' \in d.start..d.end
        /\ overlapSize' < minChunkSize' => Final(d) > o
    BY <2>1, <2>2, Zenon DEF Covers
  <2> QED BY <2>3, Zenon DEF Covers, First, Final, d, o
<1> QED BY <1>1, <1>2, <1>4 DEF ChunkInv

\* Stripping takes off no word and leaves something.
LEMMA StripFacts ==
  ASSUME NEW p \in Pieces, NEW q \in Strip(p)
  PROVE  /\ q \in Pieces /\ p.from <= q.from /\ q.from <= q.to /\ q.to <= p.to
         /\ \A t \in p.from..p.to : IsWord(t) => t \in q.from..q.to
<1>1. /\ q \in [from : p.from..p.to, to : p.from..p.to]
      /\ IsWord(q.from)
      /\ Blank(Slice(p.from, q.from - 1)) /\ Blank(Slice(q.to + 1, p.to))
  BY DEF Strip
<1>2. /\ q.from \in p.from..p.to /\ q.to \in p.from..p.to
      /\ p.from \in Int /\ p.to \in Int
  BY <1>1 DEF Pieces
<1>3. q \in Pieces /\ p.from <= q.from /\ q.to <= p.to /\ q.from <= p.to
  BY <1>1, <1>2 DEF Pieces
<1>4. /\ \A t \in p.from..(q.from - 1) : ~IsWord(t)
      /\ \A t \in (q.to + 1)..p.to : ~IsWord(t)
  BY <1>1 DEF Blank, Slice
<1>5. q.from <= q.to
  BY <1>1, <1>2, <1>4
<1> QED BY <1>1, <1>2, <1>3, <1>4, <1>5

\* The smaller of two numbers.
LEMMA AtMostFacts ==
  /\ \A a, b \in Nat : AtMost(a, b) \in Nat /\ AtMost(a, b) <= a /\ AtMost(a, b) <= b
  /\ \A a, n, r, u \in Nat : n <= u /\ r <= u => u - AtMost(a, n) >= r - AtMost(a, r)
BY DEF AtMost

\* What emit_chunk needs to know of the tokens: they are the last ones read, and
\* hold every word the chunks so far left out.
Ready(tokens, upto) ==
  /\ tokens \in Seq(Nat) /\ 1 <= Len(tokens) /\ Len(tokens) <= chunkSize
  /\ upto \in Nat /\ Len(tokens) <= upto
  /\ \A i \in DOMAIN tokens : tokens[i] = upto - Len(tokens) + i
  /\ Reach \in 0..upto
  /\ upto - Len(tokens) >= Reach - AtMost(overlapSize, Reach)
  /\ \A t \in (Reach + 1)..(upto - Len(tokens)) : ~IsWord(t)
  /\ \A t \in (Reach + 1)..upto : t > upto - Len(tokens) /\ IsWord(t) => PageOf(t) \in pages.start..pages.end
  /\ overlapSize < minChunkSize => upto > Reach

\* A part at the end of a sequence.
LEMMA LastElements ==
  ASSUME NEW s \in Seq(Nat), NEW f \in Nat, NEW v \in Nat, 1 <= f, Len(s) - f + 1 = v, NEW t,
         t = SubSeq(s, f, Len(s))
  PROVE  Len(t) = v /\ t \in Seq(Nat) /\ \A i \in 1..v : t[i] = s[f + i - 1]
<1>1. Len(t) = v /\ t \in Seq(Nat)
  OBVIOUS
<1>2. \A i \in 1..v : t[i] = s[f + i - 1]
  BY SMTT(30)
<1> QED BY <1>1, <1>2

\* What emit_chunk leaves: the overlap, and no word that is in no chunk.
LEMMA EmitFacts ==
  ASSUME IterInv, text' = text, config' = config, read' \in Nat, NEW tokens, Ready(tokens, read'),
         NEW then \in {"segment", "marks", "take", "done"}, Emit(tokens, then)
  PROVE  /\ fresh' = FALSE /\ current' \in Seq(Nat) /\ pages' = [start |-> pages.end, end |-> pages.end]
         /\ chunks' \in Seq(Chunks) /\ work' \in Seq(Tasks) /\ embedded' \in Seq(Tasks)
         /\ pc' \in {"segment", "marks", "take", "done", "embed"} /\ next' = then /\ Stage' = then
         /\ Len(current') <= read' /\ Len(current') <= overlapSize
         /\ \A i \in DOMAIN current' : current'[i] = read' - Len(current') + i
         /\ GapInv' /\ \A t \in (Reach' + 1)..read' : ~IsWord(t)
         /\ ChunkInv' /\ PieceInv'
<1> DEFINE n == Len(tokens)
           content == Slice(tokens[1], tokens[n])
           c == [tokens |-> tokens, start |-> pages.start, end |-> pages.end]
<1>1. /\ chunkSize \in Nat \ {0} /\ overlapSize \in 0..(chunkSize - 1) /\ minChunkSize \in 1..chunkSize
      /\ n \in Nat /\ 1 <= n /\ n <= chunkSize /\ n <= read' /\ DOMAIN tokens = 1..n
      /\ Reach \in Nat /\ Reach <= read' /\ overlapSize \in Nat
  BY ConfigFacts DEF Ready, IterInv
<1>3. tokens[1] = read' - n + 1 /\ tokens[n] = read' /\ tokens[1] \in Nat
  <2>1. 1 \in DOMAIN tokens /\ n \in DOMAIN tokens
    BY <1>1
  <2>2. tokens[1] = read' - n + 1 /\ tokens[n] = read' - n + n
    BY <2>1 DEF Ready
  <2> QED BY <1>1, <2>2
<1>4. /\ current' \in Seq(Nat) /\ Len(current') = AtMost(overlapSize, n)
      /\ Len(current') \in Nat /\ Len(current') <= n /\ Len(current') <= overlapSize
      /\ \A i \in DOMAIN current' : current'[i] = read' - Len(current') + i
  <2> DEFINE v == AtMost(overlapSize, n)
  <2>1. v \in Nat /\ v <= n /\ v <= overlapSize
    BY <1>1, AtMostFacts
  <2>2. current' = SubSeq(tokens, n - v + 1, n)
    BY DEF Emit
  <2>3. Len(current') = v /\ current' \in Seq(Nat) /\ \A i \in 1..v : current'[i] = tokens[n - v + i]
    <3>1. n - v + 1 \in 1..(n + 1) /\ n - (n - v + 1) + 1 = v /\ tokens \in Seq(Nat) /\ Len(tokens) = n
      BY <1>1, <2>1, SMTT(30) DEF Ready
    <3> HIDE DEF n, v
    <3>2. \A i \in 1..v : (n - v + 1) + i - 1 = n - v + i
      BY <1>1, <2>1
    <3>3. Len(current') = v /\ current' \in Seq(Nat) /\ \A i \in 1..v : current'[i] = tokens[(n - v + 1) + i - 1]
      BY <1>1, <2>1, <2>2, <3>1, LastElements
    <3> QED BY <3>2, <3>3
  <2>4. \A i \in 1..v : n - v + i \in DOMAIN tokens
    BY <1>1, <2>1
  <2>5. \A i \in 1..v : tokens[n - v + i] = read' - n + (n - v + i)
    BY <2>4 DEF Ready
  <2>6. DOMAIN current' = 1..v
    BY <2>1, <2>3
  <2>7. \A i \in 1..v : read' - n + (n - v + i) = read' - v + i
    BY <1>1, <2>1
  <2> QED BY <2>1, <2>3, <2>5, <2>6, <2>7
<1>5. /\ fresh' = FALSE /\ next' = then
      /\ pages' = [start |-> pages.end, end |-> pages.end]
  BY DEF Emit, IterInv, TextType
<1>6. c \in Chunks
  BY DEF Chunks, Ready, IterInv, TextType
<1>7. Covers(c, Reach)
  <2>1. Len(c.tokens) = n /\ First(c) = read' - n + 1 /\ Final(c) = read'
    BY <1>3 DEF First, Final
  <2>2. /\ read' - n >= Reach - AtMost(overlapSize, Reach) /\ AtMost(overlapSize, Reach) \in Nat
        /\ \A t \in (Reach + 1)..(read' - n) : ~IsWord(t)
        /\ \A t \in (Reach + 1)..read' : t > read' - n /\ IsWord(t) => PageOf(t) \in c.start..c.end
        /\ overlapSize < minChunkSize => read' > Reach
    BY <1>1, AtMostFacts DEF Ready
  <2>3. \A t \in AtLeast(First(c), Reach + 1)..Final(c) : IsWord(t) => PageOf(t) \in c.start..c.end
    <3>1. ASSUME NEW t \in AtLeast(First(c), Reach + 1)..Final(c)
          PROVE  t \in (Reach + 1)..read' /\ t > read' - n
      BY <1>1, <2>1, <3>1 DEF AtLeast
    <3> QED BY <2>2, <3>1
  <2>4. First(c) > Reach - AtMost(overlapSize, Reach) /\ Final(c) - First(c) + 1 = Len(c.tokens)
    BY <1>1, <2>1, <2>2, SMTT(30)
  <2>5. \A t \in (Reach + 1)..(First(c) - 1) : ~IsWord(t)
    BY <1>1, <2>1, <2>2
  <2> QED BY <1>1, <2>1, <2>2, <2>3, <2>4, <2>5 DEF Covers
<1> HIDE DEF c, content
<1>8. CASE Blank(content)
  <2>1. chunks' = chunks /\ work' = work /\ embedded' = embedded /\ pc' = then
    BY <1>8 DEF Emit, content
  <2>2. \A t \in (Reach + 1)..read' : ~IsWord(t)
    <3>1. \A t \in (read' - n + 1)..read' : ~IsWord(t)
      BY <1>3, <1>8 DEF Blank, Slice, content
    <3> QED BY <1>1, <3>1 DEF Ready
  <2>3. Reach' = Reach
    BY <2>1 DEF Reach, Final
  <2>4. GapInv'
    <3>1. read' - AtMost(overlapSize, n) >= Reach - AtMost(overlapSize, Reach)
      BY <1>1, AtMostFacts
    <3>2. Reach' \in 0..read' /\ read' - Len(current') >= Reach' - AtMost(overlapSize', Reach')
      BY <1>1, <1>4, <2>3, <3>1, Frame
    <3>3. \A t \in (Reach' + 1)..read' : ~IsWord(t)'
      BY <2>2, <2>3, Frame
    <3>4. (Reach' + 1)..(read' - Len(current')) \subseteq (Reach' + 1)..read'
      BY <1>1, <1>4, <2>3
    <3> QED BY <1>5, <3>2, <3>3, <3>4 DEF GapInv, AtMost
  <2>5. ChunkInv'
    BY <2>1, Frame DEF ChunkInv, IterInv, Covers, First, Final
  <2>6. Stage' = then /\ PieceInv'
    BY <2>1 DEF Stage, PieceInv
  <2> QED BY <1>1, <1>4, <1>5, <2>1, <2>2, <2>3, <2>4, <2>5, <2>6, Frame, SMTT(30) DEF IterInv, TextType
<1>9. CASE ~Blank(content)
  <2>1. /\ chunks' = Append(chunks, c) /\ embedded' = << >> /\ pc' = "embed"
        /\ \E p \in Strip(content) : work' = <<[piece |-> p, depth |-> 0, most |-> Size(p)]>>
    BY <1>9 DEF Emit, content, c
  <2>2. ChunkInv' /\ Reach' = read' /\ chunks' \in Seq(Chunks) /\ chunks' # << >> /\ chunks'[Len(chunks')] = c
    BY <1>3, <1>6, <1>7, <2>1, AppendChunk DEF IterInv, TextType, Final, c
  <2>0. (Reach' + 1)..read' = {}
    <3>1. \A k \in Int : (k + 1)..k = {}
      OBVIOUS
    <3>2. Reach' \in Int /\ Reach' = read'
      BY <2>2
    <3> QED BY <3>1, <3>2
  <2>3. GapInv'
    <3>1. Reach' \in 0..read' /\ (Reach' + 1)..(read' - Len(current')) \subseteq (Reach' + 1)..read'
      BY <1>1, <1>4, <2>2
    <3>2. read' - AtMost(overlapSize, n) >= read' - AtMost(overlapSize, read')
      BY <1>1, AtMostFacts
    <3>3. read' - Len(current') >= Reach' - AtMost(overlapSize', Reach')
      BY <1>4, <2>2, <3>2, Frame
    <3> QED BY <1>5, <2>0, <3>1, <3>3 DEF GapInv
  <2>4. PICK p \in Strip(content) : work' = <<[piece |-> p, depth |-> 0, most |-> Size(p)]>>
    BY <2>1
  <2>5. /\ p \in Pieces /\ tokens[1] <= p.from /\ p.from <= p.to /\ p.to <= tokens[n]
        /\ \A t \in tokens[1]..tokens[n] : IsWord(t) => t \in p.from..p.to
    <3>1. content \in Pieces
      BY <1>1, <1>3 DEF Slice, Pieces, content
    <3> QED BY <3>1, StripFacts DEF Slice, content
  <2>6. work' \in Seq(Tasks)
    BY <2>4, <2>5 DEF Tasks, Pieces, Size
  <2>7. PiecesCover'
    <3> DEFINE task == [piece |-> p, depth |-> 0, most |-> Size(p)]
    <3>1. (embedded \o work)' = <<task>>
      BY <2>1, <2>4
    <3>2. First(c) = tokens[1] /\ Final(c) = tokens[n]
      BY DEF First, Final, c
    <3>3. DOMAIN <<task>> = {1} /\ <<task>>[1] = task
      OBVIOUS
    <3>4. Size(p) <= task.most /\ task.piece = p
      BY <2>5 DEF Size, Pieces
    <3> HIDE DEF task
    <3>5. /\ p.from \in First(c)..Final(c) /\ p.to \in First(c)..Final(c) /\ p.from <= p.to
          /\ \A t \in First(c)..Final(c) : IsWord(t)' => t \in p.from..p.to
      BY <1>1, <1>3, <2>5, <3>2, Frame DEF Pieces
    <3> QED BY <2>2, <3>1, <3>3, <3>4, <3>5, SMTT(30) DEF PiecesCover, First, Final, Size
  <2>8. Stage' = then /\ PieceInv'
    BY <1>5, <2>1, <2>2, <2>7 DEF Stage, PieceInv
  <2>9. \A t \in (Reach' + 1)..read' : ~IsWord(t)
    BY <2>0, <2>2
  <2>10. Len(current') <= read'
    BY <1>1, <1>4
  <2>11. embedded' \in Seq(Tasks) /\ pc' \in {"segment", "marks", "take", "done", "embed"}
    BY <2>1
  <2> QED BY <1>4, <1>5, <2>2, <2>3, <2>6, <2>8, <2>9, <2>10, <2>11
<1> QED BY <1>8, <1>9

------------------------------------------------------------------------------
(* Each step of the iteration keeps the invariant.                         *)

\* A step that leaves the chunks leaves how far they reach.
LEMMA ChunksKept ==
  ASSUME ChunkInv, text' = text, config' = config, chunks' = chunks
  PROVE  Reach' = Reach /\ ChunkInv'
BY Frame DEF Reach, ChunkInv, Covers, First, Final

LEMMA BeginSegmentInv ==
  ASSUME TextInv, BeginSegment
  PROVE  TextInv'
<1>1. /\ pc = "segment" /\ seg <= Len(text.segs) /\ Stage = "segment" /\ IterInv
      /\ text' = text /\ config' = config /\ seg' = seg /\ read' = read
  BY DEF BeginSegment, place, Stage, TextInv
<1>2. /\ chunkSize \in Nat /\ overlapSize \in 0..(chunkSize - 1) /\ minChunkSize \in 1..chunkSize
      /\ Len(current) \in Nat /\ current \in Seq(Nat) /\ read \in Nat
  BY <1>1, ConfigFacts DEF IterInv, TextType
<1>3. CASE BreaksBefore(seg)
  <2>1. Emit(current, "marks") /\ current # << >> /\ Len(current) >= minChunkSize
    BY <1>3 DEF BeginSegment, BreaksBefore
  <2>2. overlapSize < minChunkSize => read > Reach
    <3>1. overlapSize < minChunkSize => fresh
      BY <1>1, <1>2, <2>1 DEF IterInv, ReadInv, TextType
    <3> QED BY <1>1, <3>1 DEF IterInv, GapInv
  <2>3. Ready(current, read')
    BY <1>1, <1>2, <2>1, <2>2 DEF Ready, IterInv, ReadInv, GapInv, PageInv
  <2>4. /\ fresh' = FALSE /\ current' \in Seq(Nat) /\ pages' = [start |-> pages.end, end |-> pages.end]
        /\ chunks' \in Seq(Chunks) /\ work' \in Seq(Tasks) /\ embedded' \in Seq(Tasks)
        /\ pc' \in {"segment", "marks", "take", "done", "embed"} /\ next' = "marks" /\ Stage' = "marks"
        /\ Len(current') <= read' /\ Len(current') <= overlapSize
        /\ \A i \in DOMAIN current' : current'[i] = read' - Len(current') + i
        /\ GapInv' /\ \A t \in (Reach' + 1)..read' : ~IsWord(t)
        /\ ChunkInv' /\ PieceInv'
    BY <1>1, <1>2, <2>1, <2>3, EmitFacts
  <2>5. pages.end \in Nat /\ pages.end = 1 + MarksTo(seg - 1)
    BY <1>1 DEF IterInv, TextType, PageInv
  <2>6. TextType'
    BY <1>1, <2>4, <2>5 DEF TextType, IterInv
  <2>7. ReadInv'
    <3>1. read = Start(seg)
      BY <1>1 DEF IterInv, ReadInv
    <3>2. Len(current') < chunkSize /\ Len(current') \in Nat
      BY <1>2, <2>4
    <3> QED BY <1>1, <2>4, <3>1, <3>2, Frame DEF ReadInv
  <2>8. PageInv'
    BY <1>1, <2>4, <2>5, Frame DEF PageInv
  <2> QED BY <2>4, <2>6, <2>7, <2>8 DEF TextInv, IterInv
<1>4. CASE ~BreaksBefore(seg)
  <2>1. pc' = "marks" /\ UNCHANGED <<current, pages, fresh, chunks, work, embedded, next>>
    BY <1>4 DEF BeginSegment
  <2>2. Reach' = Reach /\ ChunkInv' /\ Stage' = "marks"
    BY <1>1, <2>1, ChunksKept DEF IterInv, Stage
  <2>3. TextType'
    BY <1>1, <2>1 DEF TextType, IterInv
  <2>4. ReadInv'
    BY <1>1, <2>1, <2>2, Frame DEF ReadInv, IterInv
  <2>5. GapInv' /\ PageInv'
    BY <1>1, <2>1, <2>2, Frame DEF GapInv, PageInv, IterInv
  <2>6. PieceInv'
    BY <2>1 DEF PieceInv
  <2> QED BY <2>2, <2>3, <2>4, <2>5, <2>6 DEF TextInv, IterInv
<1> QED BY <1>3, <1>4

LEMMA MarksInv ==
  ASSUME TextInv, Marks
  PROVE  TextInv'
<1>1. /\ pc = "marks" /\ Stage = "marks" /\ Stage' = "take" /\ IterInv /\ pc' = "take"
      /\ UNCHANGED <<text, config, seg, read, current, fresh, chunks, work, embedded, next>>
      /\ pages' = IF Marked(seg)
                  THEN [start |-> StartPage(pages.end + 1), end |-> pages.end + 1]
                  ELSE pages
  BY DEF Marks, Stage, TextInv
<1>2. /\ pages \in [start : Nat, end : Nat] /\ pages.start <= pages.end /\ pages.end = 1 + MarksTo(seg - 1)
      /\ seg \in Nat \ {0} /\ seg <= Len(text.segs) /\ seg \in 1..Len(text.segs)
      /\ MarksTo(seg) = MarksTo(seg - 1) + (IF Marked(seg) THEN 1 ELSE 0) /\ MarksTo(seg - 1) \in Nat
      /\ current \in Seq(Nat) /\ read \in Nat
  <2>1. seg \in Nat \ {0} /\ seg <= Len(text.segs) /\ seg \in 1..Len(text.segs)
    BY <1>1, SegmentFacts DEF IterInv, TextType, ReadInv
  <2> QED BY <1>1, <2>1, MarksFacts DEF IterInv, TextType, PageInv
<1>3. /\ pages' \in [start : Nat, end : Nat] /\ pages'.start <= pages'.end
      /\ pages'.end = 1 + MarksTo(seg)
      /\ current # << >> => pages'.start = pages.start /\ pages.end <= pages'.end
  BY <1>1, <1>2 DEF StartPage
<1>4. Reach' = Reach /\ ChunkInv'
  BY <1>1, ChunksKept DEF IterInv
<1>5. TextType'
  BY <1>1, <1>3 DEF TextType, IterInv
<1>6. ReadInv'
  <2>1. read = Start(seg) /\ Start(seg) <= End(seg)
    BY <1>1, <1>2, SegmentFacts DEF IterInv, ReadInv
  <2> QED BY <1>1, <1>2, <2>1, Frame DEF ReadInv, IterInv, TextType
<1>7. GapInv'
  BY <1>1, <1>4, Frame DEF GapInv, IterInv
<1>8. PageInv'
  <2>1. ASSUME NEW t \in (Reach + 1)..read, t > read - Len(current), IsWord(t)
        PROVE  PageOf(t) \in pages'.start..pages'.end
    <3>1. current # << >> /\ PageOf(t) \in pages.start..pages.end
      BY <1>1, <1>2, <2>1 DEF IterInv, PageInv
    <3> QED BY <1>2, <1>3, <3>1
  <2> QED BY <1>1, <1>3, <1>4, <2>1, Frame DEF PageInv
<1>9. PieceInv'
  BY <1>1 DEF PieceInv
<1> QED BY <1>4, <1>5, <1>6, <1>7, <1>8, <1>9 DEF TextInv, IterInv

\* A concatenation.
LEMMA Concatenation ==
  ASSUME NEW T, NEW s \in Seq(T), NEW m \in Seq(T)
  PROVE  /\ s \o m \in Seq(T) /\ Len(s \o m) = Len(s) + Len(m) /\ DOMAIN (s \o m) = 1..(Len(s) + Len(m))
         /\ \A i \in 1..Len(s) : (s \o m)[i] = s[i]
         /\ \A i \in 1..Len(m) : (s \o m)[Len(s) + i] = m[i]
OBVIOUS

\* w is m appended to s, element by element.
Joined(s, m, w) ==
  /\ w \in Seq(Nat) /\ Len(w) = Len(s) + Len(m)
  /\ \A i \in 1..Len(s) : w[i] = s[i]
  /\ \A i \in 1..Len(m) : w[Len(s) + i] = m[i]

LEMMA Concatenated ==
  ASSUME NEW s \in Seq(Nat), NEW m \in Seq(Nat), NEW w, w = s \o m
  PROVE  Joined(s, m, w)
BY DEF Joined

\* The last tokens up to r with the next k are the last tokens up to r + k.
LEMMA ContinuedAt ==
  ASSUME NEW s \in Seq(Nat), NEW r \in Nat, NEW k \in Nat, NEW m \in Seq(Nat), NEW w,
         \A i \in 1..Len(s) : s[i] = r - Len(s) + i,
         Len(m) = k, \A i \in 1..k : m[i] = r + i,
         Joined(s, m, w)
  PROVE  \A i \in 1..Len(w) : w[i] = (r + k) - Len(w) + i
<1>1. /\ w \in Seq(Nat) /\ Len(w) = Len(s) + k /\ Len(s) \in Nat
      /\ \A i \in 1..Len(s) : w[i] = s[i]
      /\ \A i \in 1..k : w[Len(s) + i] = m[i]
  BY DEF Joined
<1>2. ASSUME NEW i \in 1..(Len(s) + k) PROVE w[i] = (r + k) - (Len(s) + k) + i
  <2>1. CASE i <= Len(s)
    <3>1. i \in 1..Len(s)
      BY <1>1, <2>1
    <3>2. w[i] = r - Len(s) + i
      BY <1>1, <3>1
    <3> QED BY <1>1, <3>2
  <2>2. CASE i > Len(s)
    <3>1. i - Len(s) \in 1..k /\ Len(s) + (i - Len(s)) = i
      BY <1>1, <2>2
    <3>2. w[i] = r + (i - Len(s))
      BY <1>1, <3>1
    <3> QED BY <1>1, <3>2
  <2> QED BY <1>1, <2>1, <2>2
<1> QED BY <1>1, <1>2

LEMMA Continued ==
  ASSUME NEW s \in Seq(Nat), NEW r \in Nat, NEW k \in Nat, NEW w, NEW m,
         m = [i \in 1..k |-> r + i],
         \A i \in 1..Len(s) : s[i] = r - Len(s) + i,
         w = s \o m
  PROVE  /\ w \in Seq(Nat) /\ Len(w) = Len(s) + k /\ DOMAIN w = 1..(Len(s) + k)
         /\ \A i \in DOMAIN w : w[i] = (r + k) - Len(w) + i
<1>1. m \in Seq(Nat) /\ Len(m) = k /\ (\A i \in 1..k : m[i] = r + i)
  OBVIOUS
<1>2. Joined(s, m, w)
  BY <1>1, Concatenated
<1>3. \A i \in 1..Len(w) : w[i] = (r + k) - Len(w) + i
  BY <1>1, <1>2, ContinuedAt
<1> QED BY <1>1, <1>2, <1>3 DEF Joined

\* The tokens with the next ones of the segment.
Taken == AtMost(chunkSize - Len(current), End(seg) - read)
Longer == current \o [i \in 1..Taken |-> read + i]

LEMMA TakeTokens ==
  ASSUME TextInv, Stage = "take", read < End(seg), text' = text, config' = config, read' = read + Taken
  PROVE  /\ Taken \in Nat \ {0} /\ read' \in Nat /\ read' <= End(seg)
         /\ Len(Longer) = Len(current) + Taken /\ Ready(Longer, read')
<1>1. /\ IterInv /\ seg \in 1..Len(text.segs) /\ End(seg) \in Nat /\ Start(seg) \in Nat /\ Start(seg) <= read
      /\ chunkSize \in Nat /\ overlapSize \in Nat /\ current \in Seq(Nat) /\ read \in Nat
      /\ Len(current) \in Nat /\ Len(current) < chunkSize /\ Len(current) <= read
      /\ \A i \in DOMAIN current : current[i] = read - Len(current) + i
      /\ Reach \in 0..read /\ pages \in [start : Nat, end : Nat] /\ pages.start <= pages.end
      /\ pages.end = 1 + MarksTo(seg)
  <2>1. IterInv /\ seg \in 1..Len(text.segs)
    BY SegmentFacts DEF TextInv, IterInv, TextType, ReadInv
  <2> QED BY <2>1, SegmentFacts, ConfigFacts, SMTT(30) DEF IterInv, TextType, ReadInv, GapInv, PageInv
<1>2. /\ Taken \in Nat \ {0} /\ Len(current) + Taken <= chunkSize /\ read + Taken <= End(seg)
  BY <1>1, SMTT(30) DEF AtMost, Taken
<1>3. /\ Longer \in Seq(Nat) /\ Len(Longer) = Len(current) + Taken
      /\ \A i \in DOMAIN Longer : Longer[i] = read' - Len(Longer) + i
  <2>1. /\ current \in Seq(Nat) /\ read \in Nat /\ Taken \in Nat
        /\ \A i \in 1..Len(current) : current[i] = read - Len(current) + i
    BY <1>1, <1>2, SMTT(30)
  <2> DEFINE m == [i \in 1..Taken |-> read + i]
  <2>2. m = [i \in 1..Taken |-> read + i] /\ Longer = current \o m
    BY DEF Longer
  <2> HIDE DEF m, Longer, Taken
  <2>3. /\ Longer \in Seq(Nat) /\ Len(Longer) = Len(current) + Taken
        /\ \A i \in DOMAIN Longer : Longer[i] = (read + Taken) - Len(Longer) + i
    BY <2>1, <2>2, Continued, SMTT(30)
  <2> QED BY <2>3
<1>4. \A t \in (Reach + 1)..read' : t > read' - Len(Longer) /\ IsWord(t) => PageOf(t) \in pages.start..pages.end
  <2>1. ASSUME NEW t \in (Reach + 1)..read', t > read' - Len(Longer), IsWord(t)
        PROVE  PageOf(t) \in pages.start..pages.end
    <3>1. CASE t <= read
      BY <1>1, <1>2, <1>3, <2>1, <3>1 DEF IterInv, PageInv
    <3>2. CASE t > read
      <4>1. t \in Int /\ Start(seg) < t /\ t <= End(seg)
        BY <1>1, <1>2, <3>2
      <4>2. PageOf(t) = 1 + MarksTo(seg)
        BY <1>1, <4>1, PageOfSegment DEF IterInv
      <4> QED BY <1>1, <4>2
    <3> QED BY <1>1, <1>2, <3>1, <3>2
  <2> QED BY <2>1
<1>5. /\ Reach \in 0..read' /\ read' - Len(Longer) = read - Len(current) /\ read' > Reach
      /\ 1 <= Len(Longer) /\ Len(Longer) <= chunkSize /\ Len(Longer) <= read' /\ read' \in Nat
  BY <1>1, <1>2, <1>3, SMTT(30)
<1>6. /\ read' - Len(Longer) >= Reach - AtMost(overlapSize, Reach)
      /\ \A t \in (Reach + 1)..(read' - Len(Longer)) : ~IsWord(t)
  BY <1>1, <1>5 DEF IterInv, GapInv
<1> QED BY <1>1, <1>2, <1>3, <1>4, <1>5, <1>6 DEF Ready

LEMMA TakeInv ==
  ASSUME TextInv, Take
  PROVE  TextInv'
<1>1. /\ pc = "take" /\ Stage = "take" /\ read < End(seg) /\ IterInv
      /\ text' = text /\ config' = config /\ seg' = seg /\ read' = read + Taken
  BY DEF Take, Stage, TextInv, Taken
<1>2. /\ Taken \in Nat \ {0} /\ read' \in Nat /\ read' <= End(seg)
      /\ Len(Longer) = Len(current) + Taken /\ Ready(Longer, read')
  BY <1>1, TakeTokens
<1>3. IF Len(Longer) = chunkSize THEN Emit(Longer, "take")
      ELSE /\ current' = Longer /\ fresh' = TRUE
           /\ UNCHANGED <<pages, chunks, work, embedded, pc, next>>
  BY DEF Take, Longer, Taken
<1>4. /\ chunkSize \in Nat /\ overlapSize \in 0..(chunkSize - 1) /\ read \in Nat
      /\ Start(seg) \in Nat /\ Start(seg) <= read' /\ seg <= Len(text.segs) /\ seg \in 1..Len(text.segs)
      /\ pages.end \in Nat /\ pages.end = 1 + MarksTo(seg) /\ pages \in [start : Nat, end : Nat]
  <2>1. seg <= Len(text.segs) /\ seg \in 1..Len(text.segs) /\ read \in Nat /\ Start(seg) <= read
    BY <1>1, SegmentFacts DEF IterInv, TextType, ReadInv
  <2>2. chunkSize \in Nat /\ overlapSize \in 0..(chunkSize - 1) /\ Start(seg) \in Nat
    BY <1>1, <2>1, ConfigFacts, SegmentFacts DEF IterInv, TextType
  <2>3. pages.end \in Nat /\ pages.end = 1 + MarksTo(seg) /\ pages \in [start : Nat, end : Nat]
    BY <1>1 DEF IterInv, TextType, PageInv
  <2> QED BY <1>1, <1>2, <2>1, <2>2, <2>3
<1>5. CASE Len(Longer) = chunkSize
  <2>1. Emit(Longer, "take")
    BY <1>3, <1>5
  <2>2. /\ fresh' = FALSE /\ current' \in Seq(Nat) /\ pages' = [start |-> pages.end, end |-> pages.end]
        /\ chunks' \in Seq(Chunks) /\ work' \in Seq(Tasks) /\ embedded' \in Seq(Tasks)
        /\ pc' \in {"segment", "marks", "take", "done", "embed"} /\ next' = "take" /\ Stage' = "take"
        /\ Len(current') <= read' /\ Len(current') <= overlapSize
        /\ \A i \in DOMAIN current' : current'[i] = read' - Len(current') + i
        /\ GapInv' /\ \A t \in (Reach' + 1)..read' : ~IsWord(t)
        /\ ChunkInv' /\ PieceInv'
    BY <1>1, <1>2, <2>1, EmitFacts
  <2>3. TextType'
    BY <1>1, <1>2, <1>4, <2>2 DEF TextType, IterInv
  <2>4. ReadInv'
    <3>1. Len(current') < chunkSize /\ Len(current') \in Nat
      BY <1>4, <2>2
    <3> QED BY <1>1, <1>2, <1>4, <2>2, <3>1, Frame DEF ReadInv
  <2>5. PageInv'
    BY <1>1, <1>4, <2>2, Frame, SMTT(30) DEF PageInv
  <2> QED BY <2>2, <2>3, <2>4, <2>5 DEF TextInv, IterInv
<1>6. CASE Len(Longer) # chunkSize
  <2>1. /\ current' = Longer /\ fresh' = TRUE
        /\ UNCHANGED <<pages, chunks, work, embedded, pc, next>>
    BY <1>3, <1>6
  <2>2. Reach' = Reach /\ ChunkInv' /\ Stage' = "take"
    BY <1>1, <2>1, ChunksKept DEF IterInv, Stage
  <2>3. TextType'
    BY <1>1, <1>2, <1>4, <2>1 DEF TextType, IterInv, Ready
  <2>4. ReadInv'
    <3>1. Len(current') < chunkSize /\ Len(current') <= read'
      <4>1. Len(Longer) <= chunkSize /\ Len(Longer) <= read' /\ Longer \in Seq(Nat)
        BY <1>2 DEF Ready
      <4>2. Len(Longer) \in Nat
        BY <4>1
      <4> QED BY <1>4, <1>6, <2>1, <4>1, <4>2
    <3>2. \A i \in DOMAIN current' : current'[i] = read' - Len(current') + i
      BY <1>2, <2>1 DEF Ready
    <3> QED BY <1>1, <1>2, <1>4, <2>1, <2>2, <3>1, <3>2, Frame DEF ReadInv
  <2>5. GapInv'
    <3>1. read' > Reach
      BY <1>1, <1>2, <1>4 DEF IterInv, GapInv
    <3> QED BY <1>1, <1>2, <2>1, <2>2, <3>1, Frame DEF GapInv, Ready
  <2>6. PageInv'
    <3>1. pages.start <= pages.end
      BY <1>1 DEF IterInv, PageInv
    <3> QED BY <1>1, <1>2, <1>4, <2>1, <2>2, <3>1, Frame DEF PageInv, Ready
  <2>7. PieceInv'
    BY <1>1, <2>1 DEF PieceInv
  <2> QED BY <2>2, <2>3, <2>4, <2>5, <2>6, <2>7 DEF TextInv, IterInv
<1> QED BY <1>5, <1>6

LEMMA EndSegmentInv ==
  ASSUME TextInv, EndSegment
  PROVE  TextInv'
<1>1. /\ pc = "take" /\ Stage = "take" /\ Stage' = "segment" /\ pc' = "segment" /\ IterInv
      /\ read = End(seg) /\ seg' = seg + 1
      /\ UNCHANGED <<text, config, read, current, fresh, pages, chunks, work, embedded, next>>
  BY DEF EndSegment, Stage, TextInv
<1>2. seg \in 1..Len(text.segs) /\ Len(text.segs) \in Nat /\ Start(seg + 1) = End(seg)
  <2>1. seg \in 1..Len(text.segs) /\ Len(text.segs) \in Nat
    BY <1>1, SegmentFacts DEF IterInv, TextType, ReadInv
  <2> QED BY <1>1, <2>1, SegmentFacts DEF IterInv
<1>3. Reach' = Reach /\ ChunkInv'
  BY <1>1, ChunksKept DEF IterInv
<1>4. TextType'
  BY <1>1, <1>2 DEF TextType, IterInv
<1>5. ReadInv'
  <2>1. read' = Start(seg)'
    <3>1. Start(seg)' = Start(seg + 1)
      BY <1>1 DEF Start
    <3> QED BY <1>1, <1>2, <3>1
  <2> QED BY <1>1, <2>1, Frame DEF ReadInv, IterInv
<1>6. GapInv'
  BY <1>1, <1>3, Frame DEF GapInv, IterInv
<1>7. PageInv'
  <2>1. pages.end = 1 + MarksTo(seg) /\ seg' - 1 = seg
    BY <1>1, <1>2 DEF IterInv, PageInv
  <2>2. MarksTo(seg - 1)' = MarksTo(seg)
    BY <1>1, <2>1 DEF MarksTo, Marked
  <2> QED BY <1>1, <1>3, <2>1, <2>2, Frame DEF PageInv, IterInv
<1>8. PieceInv'
  BY <1>1 DEF PieceInv
<1> QED BY <1>3, <1>4, <1>5, <1>6, <1>7, <1>8 DEF TextInv, IterInv

LEMMA FinishInv ==
  ASSUME TextInv, Finish
  PROVE  TextInv'
<1>1. /\ pc = "segment" /\ seg > Len(text.segs) /\ Stage = "segment" /\ IterInv
      /\ text' = text /\ config' = config /\ seg' = seg /\ read' = read
  BY DEF Finish, place, Stage, TextInv
<1>2. /\ chunkSize \in Nat /\ overlapSize \in 0..(chunkSize - 1) /\ Len(current) \in Nat
      /\ current \in Seq(Nat) /\ read \in Nat /\ read = Start(seg) /\ Reach \in 0..read
      /\ pages.end \in Nat
  BY <1>1, ConfigFacts DEF IterInv, TextType, ReadInv, GapInv
<1>3. CASE TailIsUseful
  <2>1. Emit(current, "done") /\ current # << >> /\ fresh
    BY <1>3 DEF Finish, TailIsUseful
  <2>2. Ready(current, read')
    BY <1>1, <1>2, <2>1 DEF Ready, IterInv, ReadInv, GapInv, PageInv
  <2>3. /\ fresh' = FALSE /\ current' \in Seq(Nat) /\ pages' = [start |-> pages.end, end |-> pages.end]
        /\ chunks' \in Seq(Chunks) /\ work' \in Seq(Tasks) /\ embedded' \in Seq(Tasks)
        /\ pc' \in {"segment", "marks", "take", "done", "embed"} /\ next' = "done" /\ Stage' = "done"
        /\ Len(current') <= read' /\ Len(current') <= overlapSize
        /\ \A i \in DOMAIN current' : current'[i] = read' - Len(current') + i
        /\ GapInv' /\ \A t \in (Reach' + 1)..read' : ~IsWord(t)
        /\ ChunkInv' /\ PieceInv'
    BY <1>1, <1>2, <2>2, <2>1, EmitFacts
  <2>4. TextType'
    BY <1>1, <1>2, <2>3 DEF TextType, IterInv
  <2>5. ReadInv'
    <3>1. Len(current') < chunkSize /\ Len(current') \in Nat
      BY <1>2, <2>3
    <3> QED BY <1>1, <1>2, <2>3, <3>1, Frame DEF ReadInv
  <2>6. PageInv'
    BY <1>1, <1>2, <2>3, Frame DEF PageInv
  <2> QED BY <2>3, <2>4, <2>5, <2>6 DEF TextInv, IterInv
<1>4. CASE ~TailIsUseful
  <2>1. pc' = "done" /\ UNCHANGED <<current, pages, fresh, chunks, work, embedded, next>>
    BY <1>4 DEF Finish
  <2>2. Reach' = Reach /\ ChunkInv' /\ Stage' = "done"
    BY <1>1, <2>1, ChunksKept DEF IterInv, Stage
  <2>3. TextType'
    BY <1>1, <2>1 DEF TextType, IterInv
  <2>4. ReadInv'
    BY <1>1, <1>2, <2>1, <2>2, Frame DEF ReadInv, IterInv
  <2>5. \A t \in (Reach + 1)..read : ~IsWord(t)
    <3>1. CASE ~fresh
      BY <1>1, <3>1 DEF IterInv, GapInv
    <3>2. CASE current = << >>
      BY <1>1, <1>2, <3>2 DEF IterInv, GapInv
    <3> QED BY <1>4, <3>1, <3>2 DEF TailIsUseful
  <2>6. GapInv'
    BY <1>1, <2>1, <2>2, <2>5, Frame DEF GapInv, IterInv
  <2>7. PageInv'
    BY <1>1, <2>1, <2>2, Frame DEF PageInv, IterInv
  <2>8. PieceInv'
    BY <2>1 DEF PieceInv
  <2> QED BY <2>2, <2>3, <2>4, <2>6, <2>7, <2>8 DEF TextInv, IterInv
<1> QED BY <1>3, <1>4

------------------------------------------------------------------------------
(* Splitting and embedding the pieces of a chunk.                          *)

\* A split point is inside the piece, away from its ends, and leaves at most
\* Shorter of its length on either side.
LEMMA SplitFacts ==
  ASSUME NEW p \in Pieces, Size(p) >= 2, NEW n \in SplitPoint(p) \cup {Middle(p)}, NEW most \in Int, Size(p) <= most
  PROVE  /\ n \in 1..(Size(p) - 1)
         /\ n <= Shorter(most) /\ Size(p) - n <= Shorter(most)
<1> DEFINE N == Size(p)
<1>1. N \in Nat
  BY DEF Size, Pieces
<1>2. /\ N \div 4 \in Nat /\ 4 * (N \div 4) <= N /\ N < 4 * (N \div 4) + 4
      /\ N \div 2 \in Nat /\ 2 * (N \div 2) <= N /\ N < 2 * (N \div 2) + 2
      /\ (N * 3) \div 4 \in Nat /\ 4 * ((N * 3) \div 4) <= N * 3
      /\ most \div 4 \in Nat /\ 4 * (most \div 4) <= most /\ most < 4 * (most \div 4) + 4
  <2> HIDE DEF N
  <2>1. N >= 2 /\ most >= 2
    BY <1>1 DEF N
  <2> QED BY <1>1, <2>1
<1>3. n = Middle(p) \/ (Lower(p) <= n /\ n <= Middle(p)) \/ (Middle(p) <= n /\ n <= Upper(p) - 1)
  <2>1. n = Middle(p) \/ n \in Spaces(p)
    BY DEF SplitPoint
  <2>2. Middle(p) \in Nat /\ Lower(p) \in Nat /\ Upper(p) \in Int
    BY <1>1, <1>2 DEF Middle, Lower, Upper, AtLeast, AtMost
  <2>3. n \in Spaces(p) => n \in Lower(p)..Middle(p) \/ n \in Middle(p)..(Upper(p) - 1)
    BY DEF Spaces
  <2> QED BY <2>1, <2>2, <2>3
<1>4. n \in Int
  <2>1. Middle(p) \in Int
    BY <1>2 DEF Middle
  <2>2. Spaces(p) \subseteq Int
    BY <1>1, <1>2 DEF Spaces, Middle, Lower, Upper, AtLeast, AtMost
  <2> QED BY <2>1, <2>2 DEF SplitPoint
<1>5. /\ Middle(p) = N \div 2
      /\ Lower(p) = AtLeast(1, N \div 4)
      /\ Upper(p) = AtMost(N - 1, (N * 3) \div 4)
  BY DEF Middle, Lower, Upper
<1>6. Shorter(N) <= Shorter(most)
  <2> HIDE DEF N
  <2>1. N <= most
    BY DEF N
  <2> QED BY <1>1, <1>2, <2>1 DEF Shorter, AtLeast
<1>7. n \in 1..(N - 1) /\ n <= Shorter(N) /\ N - n <= Shorter(N)
  <2> HIDE DEF N
  <2>1. N >= 2
    BY DEF N
  <2>2. CASE n = Middle(p)
    BY <1>1, <1>2, <1>5, <2>1, <2>2 DEF Shorter, AtLeast
  <2>3. CASE Lower(p) <= n /\ n <= Middle(p)
    BY <1>1, <1>2, <1>4, <1>5, <2>1, <2>3 DEF Shorter, AtLeast
  <2>4. CASE Middle(p) <= n /\ n <= Upper(p) - 1
    BY <1>1, <1>2, <1>4, <1>5, <2>1, <2>4 DEF Shorter, AtLeast, AtMost
  <2> QED BY <1>3, <2>2, <2>3, <2>4
<1>8. Shorter(N) \in Int /\ Shorter(most) \in Int
  BY <1>1, <1>2 DEF Shorter, AtLeast
<1> HIDE DEF N
<1>9. n <= Shorter(most) /\ N - n <= Shorter(most)
  BY <1>1, <1>4, <1>6, <1>7, <1>8
<1> QED BY <1>7, <1>9 DEF N

\* The halves are in the piece, in order and apart, and hold its words.
LEMMA HalvesFacts ==
  ASSUME NEW p \in Pieces, Size(p) >= 2, NEW n \in SplitPoint(p), NEW h \in Halves(p, n),
         NEW most \in Int, Size(p) <= most
  PROVE  /\ h[1] \in Pieces /\ h[2] \in Pieces
         /\ p.from <= h[1].from /\ h[1].from <= h[1].to /\ h[1].to < h[2].from
         /\ h[2].from <= h[2].to /\ h[2].to <= p.to
         /\ Size(h[1]) <= Shorter(most) /\ Size(h[2]) <= Shorter(most)
         /\ \A t \in p.from..p.to : IsWord(t) => t \in h[1].from..h[1].to \/ t \in h[2].from..h[2].to
<1>1. Shorter(most) \in Int /\ p.from \in Int /\ p.to \in Int /\ Size(p) = p.to - p.from + 1
  BY DEF Shorter, AtLeast, Size, Pieces
<1>2. ASSUME NEW m \in 1..(Size(p) - 1), m <= Shorter(most), Size(p) - m <= Shorter(most)
      PROVE  LET a == Before(p, m)
                 b == After(p, m) IN
             /\ a \in Pieces /\ b \in Pieces /\ a.from = p.from /\ a.from <= a.to /\ a.to + 1 = b.from
             /\ b.from <= b.to /\ b.to = p.to
             /\ a.to - a.from + 1 <= Shorter(most) /\ b.to - b.from + 1 <= Shorter(most)
  BY <1>1, <1>2 DEF Before, After, Slice, Pieces
<1>3. CASE Blank(Before(p, n)) \/ Blank(After(p, n))
  <2> DEFINE m == Middle(p)
             a == Before(p, m)
             b == After(p, m)
  <2>1. m \in 1..(Size(p) - 1) /\ m <= Shorter(most) /\ Size(p) - m <= Shorter(most)
    BY SplitFacts
  <2>2. h[1] = a /\ h[2] = b
    BY <1>3 DEF Halves
  <2>3. /\ a \in Pieces /\ b \in Pieces /\ a.from = p.from /\ a.from <= a.to /\ a.to + 1 = b.from
        /\ b.from <= b.to /\ b.to = p.to
        /\ a.to - a.from + 1 <= Shorter(most) /\ b.to - b.from + 1 <= Shorter(most)
    BY <1>2, <2>1
  <2> HIDE DEF m, a, b
  <2> QED BY <1>1, <2>2, <2>3 DEF Pieces, Size
<1>4. CASE ~(Blank(Before(p, n)) \/ Blank(After(p, n)))
  <2> DEFINE a == Before(p, n)
             b == After(p, n)
  <2>1. n \in 1..(Size(p) - 1) /\ n <= Shorter(most) /\ Size(p) - n <= Shorter(most)
    BY SplitFacts
  <2>2. h[1] \in Strip(a) /\ h[2] \in Strip(b)
    BY <1>4 DEF Halves
  <2>3. /\ a \in Pieces /\ b \in Pieces /\ a.from = p.from /\ a.from <= a.to /\ a.to + 1 = b.from
        /\ b.from <= b.to /\ b.to = p.to
        /\ a.to - a.from + 1 <= Shorter(most) /\ b.to - b.from + 1 <= Shorter(most)
    BY <1>2, <2>1
  <2> HIDE DEF a, b
  <2>4. /\ h[1] \in Pieces /\ a.from <= h[1].from /\ h[1].from <= h[1].to /\ h[1].to <= a.to
        /\ \A t \in a.from..a.to : IsWord(t) => t \in h[1].from..h[1].to
    BY <2>2, <2>3, StripFacts
  <2>5. /\ h[2] \in Pieces /\ b.from <= h[2].from /\ h[2].from <= h[2].to /\ h[2].to <= b.to
        /\ \A t \in b.from..b.to : IsWord(t) => t \in h[2].from..h[2].to
    BY <2>2, <2>3, StripFacts
  <2>6. a.from \in Int /\ a.to \in Int /\ b.from \in Int /\ b.to \in Int
    BY <2>3 DEF Pieces
  <2>7. h[1].from \in Int /\ h[1].to \in Int /\ h[2].from \in Int /\ h[2].to \in Int
    BY <2>4, <2>5 DEF Pieces
  <2>8. \A t \in p.from..p.to : t \in a.from..a.to \/ t \in b.from..b.to
    BY <1>1, <2>3, <2>6
  <2>9. Size(h[1]) <= Shorter(most) /\ Size(h[2]) <= Shorter(most)
    BY <1>1, <2>3, <2>4, <2>5, <2>6, <2>7 DEF Size
  <2> QED BY <1>1, <2>3, <2>4, <2>5, <2>6, <2>7, <2>8, <2>9
<1> QED BY <1>3, <1>4

\* Sequences of one length with the same elements.
LEMMA SameElements ==
  ASSUME NEW T, NEW x \in Seq(T), NEW y \in Seq(T), Len(x) = Len(y), \A i \in 1..Len(y) : x[i] = y[i]
  PROVE  x = y
OBVIOUS

\* Two ways to cut one sequence, one element apart.
LEMMA SameConcatenation ==
  ASSUME NEW T, NEW e \in Seq(T), NEW w \in Seq(T), NEW f \in Seq(T), NEW t \in Seq(T),
         w # << >>, Len(f) = Len(e) + 1, Len(t) = Len(w) - 1, f[Len(e) + 1] = w[1],
         \A i \in 1..Len(e) : f[i] = e[i], \A i \in 1..Len(t) : t[i] = w[i + 1]
  PROVE  f \o t = e \o w
<1>1. Len(w) \in Nat \ {0} /\ Len(e) \in Nat
  OBVIOUS
<1>2. /\ f \o t \in Seq(T) /\ Len(f \o t) = Len(f) + Len(t)
      /\ \A i \in 1..Len(f) : (f \o t)[i] = f[i]
      /\ \A i \in 1..Len(t) : (f \o t)[Len(f) + i] = t[i]
  <2>1. f \o t \in Seq(T)
    BY Concatenation
  <2>2. Len(f \o t) = Len(f) + Len(t)
    BY Concatenation
  <2>3. \A i \in 1..Len(f) : (f \o t)[i] = f[i]
    BY Concatenation
  <2>4. \A i \in 1..Len(t) : (f \o t)[Len(f) + i] = t[i]
    BY Concatenation, SMTT(30)
  <2> QED BY <2>1, <2>2, <2>3, <2>4
<1>3. /\ e \o w \in Seq(T) /\ Len(e \o w) = Len(e) + Len(w)
      /\ \A i \in 1..Len(e) : (e \o w)[i] = e[i]
      /\ \A i \in 1..Len(w) : (e \o w)[Len(e) + i] = w[i]
  BY Concatenation
<1>4. Len(f \o t) = Len(e \o w) /\ Len(e \o w) \in Nat
  BY <1>1, <1>2, <1>3
<1>5. ASSUME NEW i \in 1..Len(e \o w) PROVE (f \o t)[i] = (e \o w)[i]
  <2>1. CASE i <= Len(e)
    <3>1. i \in 1..Len(e) /\ i \in 1..Len(f)
      BY <1>1, <2>1
    <3> QED BY <1>2, <1>3, <3>1
  <2>2. CASE i = Len(e) + 1
    <3>1. 1 \in 1..Len(w) /\ Len(e) + 1 \in 1..Len(f)
      BY <1>1
    <3> QED BY <1>2, <1>3, <2>2, <3>1
  <2>3. CASE i > Len(e) + 1
    <3>1. /\ i - Len(e) \in 1..Len(w) /\ i - Len(e) - 1 \in 1..Len(t)
          /\ Len(f) + (i - Len(e) - 1) = i /\ Len(e) + (i - Len(e)) = i /\ (i - Len(e) - 1) + 1 = i - Len(e)
      BY <1>1, <1>3, <2>3
    <3>2. (f \o t)[i] = t[i - Len(e) - 1] /\ (e \o w)[i] = w[i - Len(e)]
      BY <1>2, <1>3, <3>1, SMTT(30)
    <3> QED BY <3>1, <3>2
  <2> QED BY <1>1, <1>4, <2>1, <2>2, <2>3
<1>6. f \o t \in Seq(T) /\ e \o w \in Seq(T)
  BY <1>2, <1>3
<1> QED BY <1>4, <1>5, <1>6, SameElements

\* Taking the first of the waiting to the end of the done leaves their order.
LEMMA HeadMoved ==
  ASSUME NEW T, NEW e \in Seq(T), NEW w \in Seq(T), w # << >>
  PROVE  /\ Append(e, Head(w)) \in Seq(T) /\ Tail(w) \in Seq(T)
         /\ Append(e, Head(w)) \o Tail(w) = e \o w
<1>1. /\ Head(w) \in T /\ Head(w) = w[1] /\ Tail(w) \in Seq(T) /\ Len(Tail(w)) = Len(w) - 1
      /\ \A i \in 1..Len(Tail(w)) : Tail(w)[i] = w[i + 1]
  OBVIOUS
<1>2. /\ Append(e, Head(w)) \in Seq(T) /\ Len(Append(e, Head(w))) = Len(e) + 1
      /\ Append(e, Head(w))[Len(e) + 1] = w[1] /\ \A i \in 1..Len(e) : Append(e, Head(w))[i] = e[i]
  BY <1>1
<1> QED BY <1>1, <1>2, SameConcatenation

\* Element k gives way to the two of d.
Replaces(old, new, k, d) ==
  /\ Len(new) = Len(old) + 1 /\ new[k] = d[1] /\ new[k + 1] = d[2]
  /\ \A i \in 1..(k - 1) : new[i] = old[i]
  /\ \A i \in (k + 1)..Len(old) : new[i + 1] = old[i]

\* Replacing the first of the waiting by two.
TailOf(t, w) == Len(t) = Len(w) - 1 /\ \A i \in 1..Len(t) : t[i] = w[i + 1]
TwoBefore(x, d, t) ==
  Len(x) = 2 + Len(t) /\ x[1] = d[1] /\ x[2] = d[2] /\ \A i \in 1..Len(t) : x[2 + i] = t[i]

LEMMA HeadReplaced ==
  ASSUME NEW T, NEW e \in Seq(T), NEW w \in Seq(T), w # << >>, NEW d \in Seq(T), Len(d) = 2,
         NEW t \in Seq(T), TailOf(t, w), NEW x \in Seq(T), TwoBefore(x, d, t),
         NEW k \in Nat, k = Len(e) + 1
  PROVE  LET old == e \o w
             new == e \o x IN
         /\ old \in Seq(T) /\ new \in Seq(T)
         /\ Replaces(old, new, k, d)
<1>1. Len(w) \in Nat \ {0} /\ Len(e) \in Nat /\ Len(t) = Len(w) - 1 /\ Len(x) = 2 + Len(t)
  BY DEF TailOf, TwoBefore
<1>2. /\ e \o x \in Seq(T) /\ Len(e \o x) = Len(e) + Len(x)
      /\ \A i \in 1..Len(e) : (e \o x)[i] = e[i]
      /\ \A i \in 1..Len(x) : (e \o x)[Len(e) + i] = x[i]
  <2>1. e \o x \in Seq(T)
    BY Concatenation
  <2>2. Len(e \o x) = Len(e) + Len(x)
    BY Concatenation
  <2>3. \A i \in 1..Len(e) : (e \o x)[i] = e[i]
    BY Concatenation
  <2>4. \A i \in 1..Len(x) : (e \o x)[Len(e) + i] = x[i]
    BY Concatenation
  <2> QED BY <2>1, <2>2, <2>3, <2>4
<1>3. /\ e \o w \in Seq(T) /\ Len(e \o w) = Len(e) + Len(w)
      /\ \A i \in 1..Len(e) : (e \o w)[i] = e[i]
      /\ \A i \in 1..Len(w) : (e \o w)[Len(e) + i] = w[i]
  BY Concatenation
<1>4. /\ k \in 1..Len(e \o w) /\ Len(e \o x) = Len(e \o w) + 1 /\ Len(e \o w) \in Nat
      /\ 1 \in 1..Len(w) /\ 1 \in 1..Len(x) /\ 2 \in 1..Len(x) /\ k + 1 = Len(e) + 2
  BY <1>1, <1>2, <1>3
<1>5. (e \o x)[k] = d[1] /\ (e \o x)[k + 1] = d[2]
  BY <1>2, <1>4 DEF TwoBefore
<1>6. ASSUME NEW i \in 1..(k - 1) PROVE (e \o x)[i] = (e \o w)[i]
  <2>1. i \in 1..Len(e)
    BY <1>1
  <2> QED BY <1>2, <1>3, <2>1
<1>7. ASSUME NEW i \in (k + 1)..Len(e \o w) PROVE (e \o x)[i + 1] = (e \o w)[i]
  <2>1. /\ i - Len(e) \in 1..Len(w) /\ i - Len(e) - 1 \in 1..Len(t)
        /\ i - Len(e) + 1 \in 1..Len(x) /\ 2 + (i - Len(e) - 1) = i - Len(e) + 1
        /\ Len(e) + (i - Len(e)) = i /\ Len(e) + (i - Len(e) + 1) = i + 1 /\ (i - Len(e) - 1) + 1 = i - Len(e)
    <3>1. i \in Int /\ Len(e) + 2 <= i /\ i <= Len(e) + Len(w)
      BY <1>1, <1>3
    <3>2. Len(x) = Len(w) + 1 /\ Len(t) = Len(w) - 1
      BY <1>1
    <3> QED BY <1>1, <3>1, <3>2
  <2>2. (e \o w)[i] = w[i - Len(e)] /\ (e \o x)[i + 1] = x[i - Len(e) + 1]
    <3>1. (e \o w)[Len(e) + (i - Len(e))] = w[i - Len(e)]
      BY <1>3, <2>1
    <3>2. (e \o x)[Len(e) + (i - Len(e) + 1)] = x[i - Len(e) + 1]
      BY <1>2, <2>1
    <3> QED BY <2>1, <3>1, <3>2
  <2>3. x[2 + (i - Len(e) - 1)] = t[i - Len(e) - 1] /\ t[i - Len(e) - 1] = w[(i - Len(e) - 1) + 1]
    BY <2>1 DEF TailOf, TwoBefore
  <2> QED BY <2>1, <2>2, <2>3
<1> QED BY <1>2, <1>3, <1>4, <1>5, <1>6, <1>7 DEF Replaces

\* PiecesCover for the pieces of one chunk.
Covered(pieces, c) ==
  /\ \A i \in DOMAIN pieces : LET p == pieces[i].piece IN
       /\ p.from <= p.to /\ p.from \in First(c)..Final(c) /\ p.to \in First(c)..Final(c)
       /\ Size(p) <= pieces[i].most
  /\ \A i, j \in DOMAIN pieces : i < j => pieces[i].piece.to < pieces[j].piece.from
  /\ \A t \in First(c)..Final(c) : IsWord(t) =>
       \E i \in DOMAIN pieces : t \in pieces[i].piece.from..pieces[i].piece.to

\* The second half begins, and the first one ends, within the piece.
LEMMA HalvesWithin ==
  ASSUME NEW p \in Pieces, NEW a \in Pieces, NEW b \in Pieces,
         p.from <= a.from, a.from <= a.to, a.to < b.from, b.from <= b.to, b.to <= p.to
  PROVE  p.from <= b.from /\ a.to <= p.to
BY DEF Pieces

\* A piece that gives way to its halves.
LEMMA CoveredHalves ==
  ASSUME NEW c, First(c) \in Int, Final(c) \in Int,
         NEW old \in Seq(Tasks), NEW new \in Seq(Tasks), Covered(old, c),
         NEW k \in 1..Len(old), NEW d, Replaces(old, new, k, d),
         NEW p, p = old[k].piece, NEW a \in Pieces, NEW b \in Pieces, NEW m \in Int,
         d[1].piece = a, d[2].piece = b, d[1].most = m, d[2].most = m,
         p.from <= a.from, a.from <= a.to, a.to < b.from, b.from <= b.to, b.to <= p.to,
         Size(a) <= m, Size(b) <= m,
         \A t \in p.from..p.to : IsWord(t) => t \in a.from..a.to \/ t \in b.from..b.to
  PROVE  Covered(new, c)
<1>1. /\ DOMAIN old = 1..Len(old) /\ DOMAIN new = 1..(Len(old) + 1) /\ Len(old) \in Nat
      /\ k \in Nat /\ k \in DOMAIN old /\ Len(new) = Len(old) + 1 /\ new[k] = d[1] /\ new[k + 1] = d[2]
  BY DEF Replaces
<1>2. /\ \A i \in DOMAIN old : old[i].piece \in Pieces
      /\ \A i \in DOMAIN new : new[i].piece \in Pieces
  <2>1. \A i \in 1..Len(old) : old[i] \in Tasks
    BY Element
  <2>2. \A i \in 1..Len(new) : new[i] \in Tasks
    BY Element
  <2> QED BY <1>1, <2>1, <2>2 DEF Tasks
<1>3. /\ p \in Pieces /\ p.from \in Int /\ p.to \in Int /\ a.from \in Int /\ a.to \in Int
      /\ b.from \in Int /\ b.to \in Int
      /\ p.from \in First(c)..Final(c) /\ p.to \in First(c)..Final(c)
  BY <1>1, <1>2 DEF Covered, Pieces
<1>10. p.from <= b.from /\ a.to <= p.to
  BY <1>3, HalvesWithin, Zenon
<1> DEFINE Of(i) == IF i <= k THEN i ELSE i - 1
<1>4. ASSUME NEW i \in DOMAIN new
      PROVE  /\ Of(i) \in DOMAIN old
             /\ i # k /\ i # k + 1 => new[i] = old[Of(i)]
             /\ i = k \/ i = k + 1 => Of(i) = k
  <2>1. CASE i < k
    BY <1>1, <2>1 DEF Replaces
  <2>2. CASE i = k
    BY <1>1, <2>2
  <2>3. CASE i = k + 1
    BY <1>1, <2>3
  <2>4. CASE i > k + 1
    <3>1. i - 1 \in (k + 1)..Len(old) /\ (i - 1) + 1 = i
      BY <1>1, <2>4
    <3>2. new[(i - 1) + 1] = old[i - 1]
      BY <3>1 DEF Replaces
    <3> QED BY <1>1, <2>4, <3>1, <3>2, SMTT(30)
  <2> QED BY <1>1, <2>1, <2>2, <2>3, <2>4
<1>5. \A i, j \in DOMAIN new : i < j => Of(i) < Of(j) \/ (i = k /\ j = k + 1)
  BY <1>1, SMTT(30)
<1> HIDE DEF Of
<1>6. ASSUME NEW i \in DOMAIN new
      PROVE  /\ new[i].piece.from <= new[i].piece.to
             /\ old[Of(i)].piece.from <= new[i].piece.from /\ new[i].piece.to <= old[Of(i)].piece.to
             /\ Size(new[i].piece) <= new[i].most
  <2>1. CASE i = k
    <3>1. new[i].piece = a /\ new[i].most = m
      BY <1>1, <2>1
    <3>2. old[Of(i)].piece = p
      BY <1>4, <2>1
    <3>3. p.from <= a.from /\ a.from <= a.to /\ a.to <= p.to /\ Size(a) <= m
      BY <1>10, Zenon
    <3>4. Size(new[i].piece) <= new[i].most
      BY <3>1, <3>3
    <3> QED BY <3>1, <3>2, <3>3, <3>4
  <2>2. CASE i = k + 1
    <3>1. new[i].piece = b /\ new[i].most = m
      BY <1>1, <2>2
    <3>2. old[Of(i)].piece = p
      BY <1>4, <2>2
    <3>3. p.from <= b.from /\ b.from <= b.to /\ b.to <= p.to /\ Size(b) <= m
      BY <1>10, Zenon
    <3>4. Size(new[i].piece) <= new[i].most
      BY <3>1, <3>3
    <3> QED BY <3>1, <3>2, <3>3, <3>4
  <2>3. CASE i # k /\ i # k + 1
    <3>1. new[i] = old[Of(i)] /\ Of(i) \in DOMAIN old
      BY <1>4, <2>3
    <3>2. /\ old[Of(i)].piece.from \in Int /\ old[Of(i)].piece.to \in Int
          /\ old[Of(i)].piece.from <= old[Of(i)].piece.to
          /\ Size(old[Of(i)].piece) <= old[Of(i)].most
      BY <1>2, <3>1 DEF Pieces, Covered
    <3> QED BY <3>1, <3>2
  <2> QED BY <2>1, <2>2, <2>3
<1>7. ASSUME NEW i \in DOMAIN new
      PROVE  LET q == new[i].piece IN
             /\ q.from <= q.to /\ q.from \in First(c)..Final(c) /\ q.to \in First(c)..Final(c)
             /\ Size(q) <= new[i].most
  <2>1. Of(i) \in DOMAIN old
    BY <1>4
  <2>2. old[Of(i)].piece.from \in First(c)..Final(c) /\ old[Of(i)].piece.to \in First(c)..Final(c)
    BY <2>1 DEF Covered
  <2>3. /\ new[i].piece.from \in Int /\ new[i].piece.to \in Int
        /\ old[Of(i)].piece.from \in Int /\ old[Of(i)].piece.to \in Int
    <3>1. \A x \in Pieces : x.from \in Int /\ x.to \in Int
      BY DEF Pieces
    <3> QED BY <1>2, <2>1, <3>1
  <2>4. new[i].piece.from \in First(c)..Final(c) /\ new[i].piece.to \in First(c)..Final(c)
    <3>1. /\ new[i].piece.from <= new[i].piece.to
          /\ old[Of(i)].piece.from <= new[i].piece.from /\ new[i].piece.to <= old[Of(i)].piece.to
      BY <1>6
    <3>2. First(c) <= old[Of(i)].piece.from /\ old[Of(i)].piece.to <= Final(c)
      BY <2>2, SMTT(30)
    <3>3. First(c) <= new[i].piece.from
      BY <2>3, <3>1, <3>2, SMTT(30)
    <3>4. new[i].piece.to <= Final(c)
      BY <2>3, <3>1, <3>2, SMTT(30)
    <3>5. First(c) <= new[i].piece.to
      BY <2>3, <3>1, <3>3
    <3>6. new[i].piece.from <= Final(c)
      BY <2>3, <3>1, <3>4
    <3> QED BY <2>3, <3>3, <3>4, <3>5, <3>6, SMTT(30)
  <2>5. new[i].piece.from <= new[i].piece.to /\ Size(new[i].piece) <= new[i].most
    BY <1>6
  <2> QED BY <2>4, <2>5
<1>8. ASSUME NEW i \in DOMAIN new, NEW j \in DOMAIN new, i < j
      PROVE  new[i].piece.to < new[j].piece.from
  <2>1. CASE i = k /\ j = k + 1
    BY <1>1, <2>1
  <2>2. CASE Of(i) < Of(j)
    <3>1. Of(i) \in DOMAIN old /\ Of(j) \in DOMAIN old
      BY <1>4
    <3>2. old[Of(i)].piece.to < old[Of(j)].piece.from
      BY <2>2, <3>1 DEF Covered
    <3>3. /\ old[Of(i)].piece.to \in Int /\ old[Of(j)].piece.from \in Int
          /\ new[i].piece.to \in Int /\ new[j].piece.from \in Int
      BY <1>2, <3>1 DEF Pieces
    <3>4. new[i].piece.to <= old[Of(i)].piece.to /\ old[Of(j)].piece.from <= new[j].piece.from
      BY <1>6
    <3>5. \A x, u, v, y \in Int : x <= u /\ u < v /\ v <= y => x < y
      OBVIOUS
    <3> QED BY <3>2, <3>3, <3>4, <3>5, ZenonT(60)
  <2> QED BY <1>5, <1>8, <2>1, <2>2
<1>9. ASSUME NEW t \in First(c)..Final(c), IsWord(t)
      PROVE  \E i \in DOMAIN new : t \in new[i].piece.from..new[i].piece.to
  <2>1. PICK i \in DOMAIN old : t \in old[i].piece.from..old[i].piece.to
    BY <1>9 DEF Covered
  <2>2. CASE i < k
    <3>1. new[i] = old[i] /\ i \in DOMAIN new
      BY <1>1, <2>2 DEF Replaces
    <3> QED BY <2>1, <3>1
  <2>3. CASE i = k
    <3>1. k \in DOMAIN new /\ k + 1 \in DOMAIN new
      BY <1>1
    <3>2. t \in a.from..a.to \/ t \in b.from..b.to
      BY <1>9, <2>1, <2>3
    <3> QED BY <1>1, <3>1, <3>2
  <2>4. CASE i > k
    <3>1. new[i + 1] = old[i] /\ i + 1 \in DOMAIN new
      BY <1>1, <2>4 DEF Replaces
    <3> QED BY <2>1, <3>1
  <2> QED BY <1>1, <2>2, <2>3, <2>4
<1> QED BY <1>7, <1>8, <1>9 DEF Covered

LEMMA EmbedInv ==
  ASSUME TextInv, Embed
  PROVE  TextInv'
<1> DEFINE w == Head(work)
           c == chunks[Len(chunks)]
<1>1. /\ pc = "embed" /\ work # << >> /\ IterInv /\ chunks # << >> /\ Covered(embedded \o work, c)
      /\ UNCHANGED <<text, config, seg, read, current, fresh, pages, chunks, next>>
      /\ work \in Seq(Tasks) /\ embedded \in Seq(Tasks)
  BY DEF Embed, place, TextInv, IterInv, TextType, PieceInv, PiecesCover, Covered
<1>2. w \in Tasks /\ w = work[1] /\ Len(work) \in Nat \ {0}
  BY <1>1
<1>3. ASSUME pc' \in {"embed", "failed"}, work' \in Seq(Tasks), embedded' \in Seq(Tasks),
             Covered(embedded' \o work', c)
      PROVE  TextInv'
  <2>1. Stage' = Stage /\ Reach' = Reach /\ ChunkInv'
    BY <1>1, <1>3, ChunksKept DEF Stage, IterInv
  <2>2. TextType'
    BY <1>1, <1>3 DEF IterInv, TextType
  <2>3. ReadInv' /\ GapInv' /\ PageInv'
    BY <1>1, <2>1, Frame, SMTT(30) DEF IterInv, ReadInv, GapInv, PageInv
  <2>4. PieceInv'
    <3>1. chunks' = chunks
      BY <1>1
    <3> QED BY <1>1, <1>3, <3>1, Frame DEF PieceInv, PiecesCover, Covered, First, Final, Size
  <2> QED BY <2>1, <2>2, <2>3, <2>4 DEF TextInv, IterInv
<1>4. CASE /\ embedded' = Append(embedded, w) /\ work' = Tail(work) /\ pc' = pc
  <2>1. work' \in Seq(Tasks) /\ embedded' \in Seq(Tasks) /\ embedded' \o work' = embedded \o work
    BY <1>1, <1>4, HeadMoved, SMTT(30)
  <2> QED BY <1>1, <1>3, <1>4, <2>1
<1>5. CASE /\ ~Fits(w.piece) /\ w.depth < MaxDepth /\ Size(w.piece) >= 2
           /\ \E n \in SplitPoint(w.piece) : \E h \in Halves(w.piece, n) :
                work' = [i \in 1..2 |-> [piece |-> h[i], depth |-> w.depth + 1, most |-> Shorter(w.most)]]
                           \o Tail(work)
           /\ UNCHANGED <<embedded, pc>>
  <2>0. PICK n \in SplitPoint(w.piece) : \E h \in Halves(w.piece, n) :
               work' = [i \in 1..2 |-> [piece |-> h[i], depth |-> w.depth + 1, most |-> Shorter(w.most)]]
                          \o Tail(work)
    BY <1>5
  <2>1. PICK h \in Halves(w.piece, n) :
               work' = [i \in 1..2 |-> [piece |-> h[i], depth |-> w.depth + 1, most |-> Shorter(w.most)]]
                          \o Tail(work)
    BY <2>0
  <2> DEFINE k == Len(embedded) + 1
             m == Shorter(w.most)
             d == [i \in 1..2 |-> [piece |-> h[i], depth |-> w.depth + 1, most |-> m]]
  <2>2. k \in Nat /\ k \in 1..Len(embedded \o work) /\ (embedded \o work)[k] = w
    <3>1. 1 \in 1..Len(work) /\ Len(embedded) \in Nat
      BY <1>1, <1>2
    <3>2. /\ Len(embedded \o work) = Len(embedded) + Len(work)
          /\ (embedded \o work)[Len(embedded) + 1] = work[1]
      BY <1>1, <3>1, Concatenation
    <3> QED BY <1>2, <3>1, <3>2
  <2>3. w.piece \in Pieces /\ w.depth \in Nat /\ w.most \in Int /\ Size(w.piece) <= w.most
    <3>1. k \in DOMAIN (embedded \o work)
      BY <1>1, <2>2
    <3>2. Size(w.piece) <= w.most
      BY <1>1, <2>2, <3>1 DEF Covered
    <3> QED BY <1>2, <3>2 DEF Tasks
  <2>4. m \in Int
    BY <2>3 DEF Shorter, AtLeast
  <2>5. /\ h[1] \in Pieces /\ h[2] \in Pieces
        /\ w.piece.from <= h[1].from /\ h[1].from <= h[1].to /\ h[1].to < h[2].from
        /\ h[2].from <= h[2].to /\ h[2].to <= w.piece.to
        /\ Size(h[1]) <= m /\ Size(h[2]) <= m
        /\ \A t \in w.piece.from..w.piece.to : IsWord(t) => t \in h[1].from..h[1].to \/ t \in h[2].from..h[2].to
    BY <1>5, <2>3, HalvesFacts
  <2>6. /\ d \in Seq(Tasks) /\ Len(d) = 2 /\ d[1].piece = h[1] /\ d[2].piece = h[2]
        /\ d[1].most = m /\ d[2].most = m
    <3> HIDE DEF m, w
    <3>1. \A i \in 1..2 : [piece |-> h[i], depth |-> w.depth + 1, most |-> m] \in Tasks
      BY <2>3, <2>4, <2>5 DEF Tasks
    <3> QED BY <3>1
  <2>7. /\ Tail(work) \in Seq(Tasks) /\ Len(Tail(work)) = Len(work) - 1
        /\ \A i \in 1..Len(Tail(work)) : Tail(work)[i] = work[i + 1]
    BY <1>1, <1>2
  <2>8. work' = d \o Tail(work)
    BY <2>1
  <2> HIDE DEF d, m
  <2>9. /\ work' \in Seq(Tasks) /\ Len(work') = 2 + Len(Tail(work))
        /\ work'[1] = d[1] /\ work'[2] = d[2] /\ \A i \in 1..Len(Tail(work)) : work'[2 + i] = Tail(work)[i]
    <3>1. 1 \in 1..Len(d) /\ 2 \in 1..Len(d)
      BY <2>6
    <3>2. /\ d \o Tail(work) \in Seq(Tasks) /\ Len(d \o Tail(work)) = Len(d) + Len(Tail(work))
          /\ \A i \in 1..Len(d) : (d \o Tail(work))[i] = d[i]
          /\ \A i \in 1..Len(Tail(work)) : (d \o Tail(work))[Len(d) + i] = Tail(work)[i]
      BY <2>6, <2>7, Concatenation, SMTT(30)
    <3> QED BY <2>6, <2>8, <3>1, <3>2
  <2>10. /\ embedded \o work \in Seq(Tasks) /\ embedded \o work' \in Seq(Tasks)
         /\ Replaces(embedded \o work, embedded \o work', k, d)
    <3>1. TailOf(Tail(work), work) /\ TwoBefore(work', d, Tail(work))
      BY <2>7, <2>9 DEF TailOf, TwoBefore
    <3>2. Tail(work) \in Seq(Tasks) /\ work' \in Seq(Tasks) /\ work # << >> /\ embedded \in Seq(Tasks) /\ work \in Seq(Tasks)
      BY <1>1, <2>7, <2>9
    <3>3. k \in Nat /\ k = Len(embedded) + 1
      BY <2>2
    <3>4. d \in Seq(Tasks) /\ Len(d) = 2
      BY <2>6
    <3> HIDE DEF k
    <3>5. embedded \o work \in Seq(Tasks) /\ embedded \o work' \in Seq(Tasks)
      BY <3>2, Concatenation
    <3>6. Replaces(embedded \o work, embedded \o work', k, d)
      BY <3>1, <3>2, <3>3, <3>4, HeadReplaced
    <3> QED BY <3>5, <3>6
  <2>11. First(c) \in Int /\ Final(c) \in Int
    <3>1. c \in Chunks /\ Len(chunks) \in 1..Len(chunks) /\ Len(chunks) \in DOMAIN chunks
      BY <1>1 DEF IterInv, TextType
    <3>2. c.tokens \in Seq(Nat) \ {<< >>}
      BY <3>1 DEF Chunks
    <3> QED BY <3>2, SMTT(30) DEF First, Final
  <2>12. Covered(embedded \o work', c)
    <3> HIDE DEF k, c, w
    <3>1. w.piece = (embedded \o work)[k].piece /\ Covered(embedded \o work, c)
      BY <1>1, <2>2 DEF c
    <3> QED BY <2>2, <2>4, <2>5, <2>6, <2>10, <2>11, <3>1, CoveredHalves, Zenon
  <2> QED BY <1>1, <1>3, <1>5, <2>9, <2>12
<1>6. CASE pc' = "failed" /\ UNCHANGED <<work, embedded>>
  BY <1>1, <1>3, <1>6
<1> QED BY <1>4, <1>5, <1>6 DEF Embed

LEMMA EmbeddedInv ==
  ASSUME TextInv, Embedded
  PROVE  TextInv'
<1>1. /\ pc = "embed" /\ pc' = next /\ IterInv /\ next \in {"segment", "marks", "take", "done"}
      /\ UNCHANGED <<text, config, seg, read, current, fresh, pages, chunks, work, embedded, next>>
  BY DEF Embedded, place, TextInv, IterInv, TextType
<1>2. Stage' = Stage /\ Reach' = Reach /\ ChunkInv'
  BY <1>1, ChunksKept DEF Stage, IterInv
<1>3. TextType'
  BY <1>1 DEF IterInv, TextType
<1>4. ReadInv' /\ GapInv' /\ PageInv'
  BY <1>1, <1>2, Frame DEF IterInv, ReadInv, GapInv, PageInv
<1>5. PieceInv'
  BY <1>1 DEF PieceInv
<1> QED BY <1>2, <1>3, <1>4, <1>5 DEF TextInv, IterInv

------------------------------------------------------------------------------
(* The theorems.                                                           *)

LEMMA TextInitInv ==
  ASSUME TextInit
  PROVE  TextInv
<1>1. TextType
  <2>1. text \in Sources /\ Len(text.segs) \in Nat
    BY SourcesAssumption DEF TextInit
  <2>2. seg \in 1..(Len(text.segs) + 1) /\ read \in Nat
    BY <2>1 DEF TextInit
  <2>3. pages \in [start : Nat, end : Nat] /\ fresh \in BOOLEAN
    BY DEF TextInit
  <2>4. current \in Seq(Nat) /\ chunks \in Seq(Chunks) /\ work \in Seq(Tasks) /\ embedded \in Seq(Tasks)
    BY DEF TextInit
  <2> QED BY <2>1, <2>2, <2>3, <2>4 DEF TextInit, TextType
<1>2. Stage = "segment" /\ Reach = 0 /\ Start(1) = 0 /\ MarksTo(0) = 0
  BY MarksFacts DEF TextInit, Stage, Reach, Start
<1>3. ReadInv
  BY <1>1, <1>2, ConfigFacts DEF TextInit, ReadInv
<1>4. GapInv
  BY <1>1, <1>2, ConfigFacts DEF TextInit, GapInv, AtMost
<1>5. PageInv
  BY <1>2 DEF TextInit, PageInv
<1>6. ChunkInv /\ PieceInv
  BY DEF TextInit, ChunkInv, PieceInv
<1> QED BY <1>1, <1>3, <1>4, <1>5, <1>6 DEF TextInv, IterInv

\* The invariant holds throughout the iteration and the embedding of its chunks.
THEOREM TextInvariance == TextSpec => []TextInv
<1>1. TextInit => TextInv
  BY TextInitInv
<1>2. TextInv /\ [TextNext]_textVars => TextInv'
  <2> SUFFICES ASSUME TextInv, [TextNext]_textVars PROVE TextInv'
    OBVIOUS
  <2>1. CASE BeginSegment
    BY <2>1, BeginSegmentInv
  <2>2. CASE Marks
    BY <2>2, MarksInv
  <2>3. CASE Take
    BY <2>3, TakeInv
  <2>4. CASE EndSegment
    BY <2>4, EndSegmentInv
  <2>5. CASE Finish
    BY <2>5, FinishInv
  <2>6. CASE Embed
    BY <2>6, EmbedInv
  <2>7. CASE Embedded
    BY <2>7, EmbeddedInv
  <2>8. CASE UNCHANGED textVars
    <3>1. UNCHANGED <<text, config, seg, read, current, fresh, pages, chunks, work, embedded, pc, next>>
      BY <2>8 DEF textVars
    <3>2. Stage' = Stage /\ Reach' = Reach /\ ChunkInv'
      BY <3>1, ChunksKept DEF Stage, TextInv, IterInv
    <3>3. TextType' /\ ReadInv' /\ GapInv' /\ PageInv'
      BY <3>1, <3>2, Frame, SMTT(30) DEF TextInv, IterInv, TextType, ReadInv, GapInv, PageInv
    <3>4. PieceInv'
      BY <3>1, Frame DEF TextInv, PieceInv, PiecesCover, First, Final, Size
    <3> QED BY <3>2, <3>3, <3>4 DEF TextInv, IterInv
  <2> QED BY <2>1, <2>2, <2>3, <2>4, <2>5, <2>6, <2>7, <2>8 DEF TextNext
<1> QED BY <1>1, <1>2, PTL DEF TextSpec

\* iter_text_chunks loses no word: every chunk is a bounded, unbroken part of the
\* text on the pages it names, and the chunks together hold every word.
THEOREM ChunksCovered == TextSpec => []ChunksCover
<1>1. ASSUME TextInv PROVE ChunksCover
  <2>1. TextType /\ ChunkInv
    BY <1>1 DEF TextInv, IterInv
  <2>2. ASSUME pc = "done", NEW t \in DOMAIN text.words, IsWord(t)
        PROVE  chunks # << >> /\ t <= Final(chunks[Len(chunks)])
    <3>1. Stage = "done" /\ seg > Len(text.segs) /\ read = Start(seg) /\ Reach \in 0..read
      BY <1>1, <2>2 DEF Stage, TextInv, IterInv, ReadInv, GapInv
    <3>2. seg = Len(text.segs) + 1
      BY <2>1, <3>1, SegmentFacts DEF TextType
    <3>3. read = Len(text.words) /\ t \in 1..read
      BY <2>1, <3>1, <3>2, SegmentFacts
    <3>4. t \notin (Reach + 1)..read
      BY <1>1, <2>2, <3>1 DEF TextInv, IterInv, GapInv
    <3>5. t <= Reach
      BY <2>1, <3>1, <3>3, <3>4 DEF TextType
    <3> QED BY <3>1, <3>3, <3>5 DEF Reach
  <2> QED BY <2>1, <2>2 DEF ChunksCover, ChunkInv
<1> QED BY <1>1, TextInvariance, PTL

\* _embed_with_splitting loses no word of a chunk: the pieces are in the order of
\* the text, apart and in the chunk, and each split is at a quarter at least.
THEOREM PiecesCovered == TextSpec => []PiecesCover
<1>1. TextInv => PiecesCover
  BY DEF TextInv, PieceInv, PiecesCover
<1> QED BY <1>1, TextInvariance, PTL

\* The iteration never meets a chunk that has no room left: the check for it in
\* its inner loop is never true.
THEOREM RoomLeft == TextSpec => [](Len(current) < chunkSize)
<1>1. TextInv => Len(current) < chunkSize
  BY DEF TextInv, IterInv, ReadInv
<1> QED BY <1>1, TextInvariance, PTL

\* A document fails only for a piece that is too long after the last split it
\* is granted, never because a piece is too short to be split.
FailsDeep ==
  pc = "failed" => work # << >> /\ ~Fits(Head(work).piece) /\ Head(work).depth >= MaxDepth

LEMMA FirstPiece ==
  ASSUME TextInv, pc = "embed", work # << >>
  PROVE  Head(work).depth \in Nat /\ Size(Head(work).piece) \in Nat \ {0}
<1>1. work \in Seq(Tasks) /\ embedded \in Seq(Tasks) /\ PiecesCover
  BY DEF TextInv, IterInv, TextType, PieceInv
<1>2. /\ Head(work) \in Tasks /\ Head(work) = work[1] /\ 1 \in 1..Len(work)
      /\ Len(embedded) \in Nat /\ Len(work) \in Nat
  BY <1>1
<1>3. /\ (embedded \o work)[Len(embedded) + 1] = work[1]
      /\ DOMAIN (embedded \o work) = 1..(Len(embedded) + Len(work))
  BY <1>1, <1>2, Concatenation
<1>4. Len(embedded) + 1 \in DOMAIN (embedded \o work)
  BY <1>2, <1>3
<1>5. Head(work).piece.from <= Head(work).piece.to
  BY <1>1, <1>2, <1>3, <1>4 DEF PiecesCover
<1>6. Head(work).piece \in Pieces /\ Head(work).depth \in Nat
  BY <1>2 DEF Tasks
<1> QED BY <1>5, <1>6 DEF Pieces, Size

THEOREM FailsOnlyDeep == TextSpec => []FailsDeep
<1>1. TextInit => FailsDeep
  BY DEF TextInit, FailsDeep
<1>2. ASSUME TextInv, FailsDeep, [TextNext]_textVars PROVE FailsDeep'
  <2>1. CASE Embed
    <3> DEFINE w == Head(work)
    <3>1. /\ pc = "embed" /\ work # << >>
          /\ \/ pc' = "embed"
             \/ /\ ~Fits(w.piece) /\ (w.depth >= MaxDepth \/ Size(w.piece) < 2) /\ work' = work
      BY <2>1 DEF Embed
    <3>2. w.depth \in Nat /\ Size(w.piece) \in Nat \ {0}
      BY <1>2, <3>1, FirstPiece
    <3>3. ~Fits(w.piece) => Size(w.piece) >= 2
      BY <3>2, PipelineAssumption DEF Fits
    <3>4. work' = work => Fits(Head(work).piece)' = Fits(w.piece)
      BY DEF Fits, Size
    <3> QED BY <3>1, <3>2, <3>3, <3>4 DEF FailsDeep
  <2>2. CASE UNCHANGED textVars
    BY <1>2, <2>2 DEF FailsDeep, textVars, Fits, Size
  <2>3. CASE BeginSegment \/ Marks \/ Take \/ EndSegment \/ Finish \/ Embedded
    <3>1. pc' # "failed"
      BY <1>2, <2>3
         DEF BeginSegment, Marks, Take, EndSegment, Finish, Embedded, Emit, TextInv, IterInv, TextType
    <3> QED BY <3>1, SMTT(30) DEF FailsDeep
  <2> QED BY <1>2, <2>1, <2>2, <2>3 DEF TextNext
<1> QED BY <1>1, <1>2, TextInvariance, PTL DEF TextSpec

\* A waiting piece begins and ends with a word.
WordEnds == \A i \in 1..Len(work) : IsWord(work[i].piece.from) /\ IsWord(work[i].piece.to)

\* No half of a split is blank: the fallback to the bare halves is never taken.
NoBlankHalf ==
  pc = "embed" /\ work # << >> /\ Size(Head(work).piece) >= 2 =>
    \A n \in SplitPoint(Head(work).piece) :
      ~Blank(Before(Head(work).piece, n)) /\ ~Blank(After(Head(work).piece, n))

\* Both ends of a piece are words, so either side of a split has one.
LEMMA HalvesHaveWords ==
  ASSUME NEW p \in Pieces, Size(p) >= 2, NEW n \in SplitPoint(p), IsWord(p.from), IsWord(p.to)
  PROVE  ~Blank(Before(p, n)) /\ ~Blank(After(p, n))
<1>1. n \in 1..(Size(p) - 1)
  <2>1. Size(p) \in Int /\ Size(p) <= Size(p)
    BY DEF Size, Pieces
  <2> QED BY <2>1, SplitFacts
<1>2. p.from \in Int /\ p.to \in Int /\ Size(p) = p.to - p.from + 1
  BY DEF Size, Pieces
<1>3. p.from \in p.from..(p.from + n - 1) /\ p.to \in (p.from + n)..p.to
  BY <1>1, <1>2
<1> QED BY <1>3 DEF Blank, Before, After, Slice

LEMMA HeadHasWords ==
  ASSUME TextInv, WordEnds, pc = "embed", work # << >>, Size(Head(work).piece) >= 2,
         NEW n \in SplitPoint(Head(work).piece)
  PROVE  ~Blank(Before(Head(work).piece, n)) /\ ~Blank(After(Head(work).piece, n))
<1>1. work \in Seq(Tasks)
  BY DEF TextInv, IterInv, TextType
<1>2. Head(work) \in Tasks /\ Head(work) = work[1] /\ 1 \in 1..Len(work)
  BY <1>1
<1>3. Head(work).piece \in Pieces
  BY <1>2 DEF Tasks
<1>4. IsWord(Head(work).piece.from) /\ IsWord(Head(work).piece.to)
  BY <1>2 DEF WordEnds
<1> QED BY <1>3, <1>4, HalvesHaveWords

LEMMA WordEndsKept ==
  ASSUME TextInv, WordEnds, [TextNext]_textVars
  PROVE  WordEnds'
<1>1. text' = text /\ \A t : IsWord(t)' = IsWord(t)
  BY DEF TextNext, BeginSegment, Marks, Take, EndSegment, Finish, Embed, Embedded, place, textVars, IsWord
<1>2. CASE work' = work
  BY <1>1, <1>2 DEF WordEnds
<1>3. ASSUME NEW content, NEW q \in Strip(content),
             work' = <<[piece |-> q, depth |-> 0, most |-> Size(q)]>>
      PROVE  WordEnds'
  <2>1. IsWord(q.from) /\ IsWord(q.to)
    BY DEF Strip
  <2> QED BY <1>1, <1>3, <2>1 DEF WordEnds
<1>4. ASSUME NEW tokens, NEW then, Emit(tokens, then) PROVE WordEnds'
  <2>1. \/ work' = work
        \/ \E q \in Strip(Slice(tokens[1], tokens[Len(tokens)])) :
             work' = <<[piece |-> q, depth |-> 0, most |-> Size(q)]>>
    BY <1>4 DEF Emit
  <2> QED BY <1>2, <1>3, <2>1
<1>5. CASE Embed
  <2> DEFINE w == Head(work)
  <2>1. /\ pc = "embed" /\ work # << >> /\ work \in Seq(Tasks)
    BY <1>5 DEF Embed, TextInv, IterInv, TextType
  <2>2. /\ Len(work) \in Nat \ {0} /\ Tail(work) \in Seq(Tasks) /\ Len(Tail(work)) = Len(work) - 1
        /\ \A i \in 1..Len(Tail(work)) : Tail(work)[i] = work[i + 1]
    BY <2>1
  <2>3. \A i \in 1..Len(Tail(work)) :
          IsWord(Tail(work)[i].piece.from) /\ IsWord(Tail(work)[i].piece.to)
    BY <1>1, <2>2 DEF WordEnds
  <2>4. CASE work' = Tail(work)
    BY <1>1, <2>3, <2>4 DEF WordEnds
  <2>5. CASE /\ Size(w.piece) >= 2
             /\ \E n \in SplitPoint(w.piece) : \E h \in Halves(w.piece, n) :
                  work' = [i \in 1..2 |-> [piece |-> h[i], depth |-> w.depth + 1, most |-> Shorter(w.most)]]
                             \o Tail(work)
    <3>1. PICK n \in SplitPoint(w.piece) : \E h \in Halves(w.piece, n) :
                  work' = [i \in 1..2 |-> [piece |-> h[i], depth |-> w.depth + 1, most |-> Shorter(w.most)]]
                             \o Tail(work)
      BY <2>5
    <3>2. PICK h \in Halves(w.piece, n) :
                  work' = [i \in 1..2 |-> [piece |-> h[i], depth |-> w.depth + 1, most |-> Shorter(w.most)]]
                             \o Tail(work)
      BY <3>1
    <3>3. h[1] \in Strip(Before(w.piece, n)) /\ h[2] \in Strip(After(w.piece, n))
      <4>1. ~Blank(Before(w.piece, n)) /\ ~Blank(After(w.piece, n))
        BY <2>1, <2>5, HeadHasWords
      <4> QED BY <4>1 DEF Halves
    <3>4. /\ IsWord(h[1].from) /\ IsWord(h[1].to)
          /\ IsWord(h[2].from) /\ IsWord(h[2].to)
      BY <3>3 DEF Strip
    <3> DEFINE d == [i \in 1..2 |-> [piece |-> h[i], depth |-> w.depth + 1, most |-> Shorter(w.most)]]
    <3>5. d[1].piece = h[1] /\ d[2].piece = h[2] /\ d \in Seq({d[1], d[2]}) /\ Len(d) = 2
      OBVIOUS
    <3>6. work' = d \o Tail(work)
      BY <3>2
    <3> HIDE DEF d
    <3> DEFINE T == {d[1], d[2]} \cup Tasks
    <3>7. d \in Seq(T) /\ Tail(work) \in Seq(T)
      BY <2>2, <3>5
    <3>8. /\ Len(work') = 2 + Len(Tail(work))
          /\ work'[1] = d[1] /\ work'[2] = d[2]
          /\ \A i \in 1..Len(Tail(work)) : work'[2 + i] = Tail(work)[i]
      <4> HIDE DEF T
      <4>1. 1 \in 1..Len(d) /\ 2 \in 1..Len(d)
        BY <3>5
      <4>2. /\ Len(d \o Tail(work)) = Len(d) + Len(Tail(work))
            /\ \A i \in 1..Len(d) : (d \o Tail(work))[i] = d[i]
            /\ \A i \in 1..Len(Tail(work)) : (d \o Tail(work))[Len(d) + i] = Tail(work)[i]
        BY <3>7, Concatenation
      <4> QED BY <3>5, <3>6, <4>1, <4>2
    <3>9. ASSUME NEW i \in 1..Len(work')
          PROVE  IsWord(work'[i].piece.from) /\ IsWord(work'[i].piece.to)
      <4>1. i = 1 \/ i = 2 \/ (i - 2 \in 1..Len(Tail(work)) /\ 2 + (i - 2) = i)
        BY <2>2, <3>8
      <4>2. CASE i \in {1, 2}
        BY <3>4, <3>5, <3>8, <4>2
      <4>3. CASE i - 2 \in 1..Len(Tail(work)) /\ 2 + (i - 2) = i
        <5>1. work'[i] = Tail(work)[i - 2]
          BY <3>8, <4>3
        <5> QED BY <2>3, <4>3, <5>1
      <4> QED BY <4>1, <4>2, <4>3
    <3> QED BY <1>1, <3>9 DEF WordEnds
  <2> QED BY <1>2, <1>5, <2>4, <2>5 DEF Embed
<1> QED BY <1>2, <1>4, <1>5
     DEF TextNext, BeginSegment, Marks, Take, EndSegment, Finish, Embedded, textVars

THEOREM HalvesNeverBlank == TextSpec => []NoBlankHalf
<1>1. TextInit => WordEnds
  BY DEF TextInit, WordEnds
<1>2. TextInv /\ WordEnds /\ [TextNext]_textVars => WordEnds'
  BY WordEndsKept
<1>3. TextInv /\ WordEnds => NoBlankHalf
  BY HeadHasWords DEF NoBlankHalf
<1> QED BY <1>1, <1>2, <1>3, TextInvariance, PTL DEF TextSpec

==============================================================================
