------------------------------ MODULE Ingestion ------------------------------
(***************************************************************************)
(* Document ingestion: the durable job table, the single background worker *)
(* of IngestionCoordinator, and the HTTP handlers that share its tables,   *)
(* its wake-up queue and its mutation lock.                                *)
(*                                                                         *)
(* The backend is one asyncio event loop.  Code interleaves only where a   *)
(* coroutine really suspends; between two suspension points only a crash   *)
(* can intervene.  The worker's pc names the suspension points (YieldPoint)*)
(* and, between them, every commit: chunk rows live in one SQLite          *)
(* connection, their vectors in another, so a crash can separate the two.  *)
(*                                                                         *)
(* A chunk stands for one embedding batch of one attempt at one job.       *)
(***************************************************************************)
EXTENDS Naturals, Sequences, FiniteSets, SequencesExt

CONSTANTS
  Docs,         \* documents of one collection
  Jobs,         \* job rows; their numeric order is the order of created_at
  Batches,      \* Batches[d]: how many embedding batches d's text yields
  QueueCap,     \* capacity of the wake-up queue (256 in the code)
  Worker,       \* the worker, as a holder of the mutation lock
  Collection,   \* delete_collection, as a holder of the mutation lock
  NoDoc,        \* the document of a job row that does not exist yet
  Ops,          \* which of the exceptional operations below may happen
  MaxOps,       \* bound on how many of them happen
  MaxRuns,      \* bound on the attempts at one job (MaxOps + 1 bounds nothing)
  Faults        \* "runtime": parsing or embedding may raise; "vectors": the vector store may

ASSUME DocsAssumption == IsFiniteSet(Docs) /\ {Worker, Collection, NoDoc} \cap Docs = {}
ASSUME LockAssumption == Worker # Collection
ASSUME JobsAssumption == IsFiniteSet(Jobs) /\ Jobs \subseteq Nat
ASSUME BatchesAssumption == Batches \in [Docs -> Nat]
ASSUME BoundsAssumption == QueueCap \in Nat \ {0} /\ MaxRuns \in Nat \ {0} /\ MaxOps \in Nat

VARIABLES
  \* the database file
  docStatus, docErr,                   \* documents.status, .error_message
  jobStatus, jobDoc, jobPrio,          \* ingestion_jobs.status, .document_id, .priority
  rows, vecs,                          \* rows of chunks and of chunks_vec
  collection,                          \* whether the collection row exists
  \* the backend process
  up, queue, w, lockq, seen, writeLock,
  \* bookkeeping of the model
  runs, spent

docVars == <<docStatus, docErr>>
jobVars == <<jobStatus, jobDoc, jobPrio>>
tables == <<docVars, jobStatus, rows, vecs>>
procVars == <<up, queue, w, lockq, seen, writeLock>>
vars == <<docVars, jobVars, rows, vecs, collection, procVars, runs, spent>>

DocStates == {"absent", "queued", "parsing", "chunking", "embedding", "indexing",
              "ready", "failed", "cancelled", "deleted"}
Unsettled == {"queued", "parsing", "chunking", "embedding", "indexing"}
JobStates == {"none", "pending", "running", "completed", "failed", "cancelled", "gone"}
Chunk == [job : Jobs, run : 0..MaxRuns, batch : Nat \ {0}]

YieldPoint == {"off", "loop", "lock", "parse", "load", "batch", "embed"}
Working == {"clean", "cleanRows", "parse", "load", "batch", "embed", "store", "undo",
            "finish", "supersede", "fail", "failRows"}

\* The worker task does not exist: before start(), after stop(), after a crash.
NoTask == [pc |-> "off", job |-> 0, n |-> 0, old |-> {}, err |-> "none"]

------------------------------------------------------------------------------
(* Helpers over the tables, the queue and the lock.                        *)

RowsOf(d) == {c \in rows : jobDoc[c.job] = d}
Live == {j \in Jobs : jobStatus[j] \in {"pending", "running"}}
LiveFor(d) == {j \in Live : jobDoc[j] = d}
Exists(d) == docStatus[d] \notin {"absent", "deleted"}

\* The chunks the current attempt has committed rows for: staged_vector_ids.
Staged == {[job |-> w.job, run |-> runs[w.job], batch |-> b] : b \in 1..w.n}

\* delete_chunks / delete_collection on the vector store's own connection.
VecsWithout(S) == {vecs \ S} \cup (IF "vectors" \in Faults THEN {vecs} ELSE {})

\* enqueue(): skip a job already queued, drop it when the queue is full (the
\* database stays the backlog).  EnqueuedAll is a loop of enqueue() over s,
\* whose jobs are distinct and not in the queue.
EnqueuedOne(j) ==
  IF j \in Range(queue) \/ Len(queue) >= QueueCap THEN queue ELSE Append(queue, j)
EnqueuedAll(s) ==
  IF Len(queue \o s) <= QueueCap THEN queue \o s ELSE SubSeq(queue \o s, 1, QueueCap)

\* Job rows not created yet, and the next n of them; Orders(S) enumerates S.
Fresh == {j \in Jobs : jobStatus[j] = "none"}
NewJobs(n) == {j \in Fresh : Cardinality({i \in Fresh : i < j}) < n}
Orders(S) == Bijection(1..Cardinality(S), S)

\* The function g with f's values on f's domain, and with v on S.
Over(f, g) == [x \in DOMAIN g |-> IF x \in DOMAIN f THEN f[x] ELSE g[x]]
OnSet(v, S, g) == [x \in DOMAIN g |-> IF x \in S THEN v ELSE g[x]]

\* Mutant: waiting for the lock is enough.
Waits(x) == x \in Range(lockq)
Holds(x) == lockq # <<>> /\ Head(lockq) = x
\* A delete between its two commits: rows gone, vectors not yet.
DeleteHot ==
  /\ lockq # <<>>
  /\ \/ Head(lockq) \in Docs /\ docStatus[Head(lockq)] = "deleted"
     \/ Head(lockq) = Collection /\ collection = "deleted"
\* The event loop is free to resume a coroutine that was suspended.
LoopFree == up /\ w.pc \in YieldPoint /\ ~DeleteHot

Spend(op) == op \in Ops /\ spent < MaxOps /\ spent' = spent + 1

------------------------------------------------------------------------------
Init ==
  /\ docStatus = [d \in Docs |-> "absent"] /\ docErr = [d \in Docs |-> "none"]
  /\ jobStatus = [j \in Jobs |-> "none"]
  /\ jobDoc = [j \in Jobs |-> NoDoc] /\ jobPrio = [j \in Jobs |-> 4]
  /\ rows = {} /\ vecs = {} /\ collection = "live"
  /\ up = FALSE /\ queue = <<>> /\ w = NoTask /\ lockq = <<>>
  /\ seen = [d \in Docs |-> {}] /\ writeLock = FALSE
  /\ runs = [j \in Jobs |-> 0] /\ spent = 0

------------------------------------------------------------------------------
(* Start and stop of the worker, and the death of the process.             *)

\* Mutant: nothing is repaired.
NoOrphans == {}
Orphans == {d \in Docs : docStatus[d] \in Unsettled /\ LiveFor(d) = {}}

\* start(): orphaned documents get a job, every interrupted job and its
\* document go back to the queue.  With the write lock held elsewhere it can
\* only succeed if it has nothing to write.
Start ==
  /\ w.pc = "off" /\ ~DeleteHot
  /\ \E f \in Bijection(NewJobs(Cardinality(Orphans)), Orphans) :
       LET all == DOMAIN f \cup Live
       IN /\ jobDoc' = Over(f, jobDoc)
          /\ jobPrio' = OnSet(4, DOMAIN f, jobPrio)
          /\ jobStatus' = OnSet("pending", all, jobStatus)
          /\ docStatus' = OnSet("queued", {jobDoc'[j] : j \in all}, docStatus)
          /\ \E s \in Orders(all \ Range(queue)) : queue' = EnqueuedAll(s)
  /\ writeLock => UNCHANGED <<jobVars, docStatus>>
  /\ up' = TRUE /\ w' = [NoTask EXCEPT !.pc = "loop"]
  /\ UNCHANGED <<docErr, rows, vecs, collection, lockq, seen, writeLock, runs, spent>>

\* start() raising on its commit: the jobs are in the queue, nothing in the
\* database changed and no worker runs.  A job that ran before may have the
\* traces of an interruption to clear.
StartFails ==
  /\ up /\ w.pc = "off" /\ ~DeleteHot /\ writeLock /\ Orphans = {}
  /\ \E j \in Live : jobStatus[j] = "running" \/ docStatus[jobDoc[j]] # "queued" \/ runs[j] > 0
  /\ \E s \in Orders(Live \ Range(queue)) : queue' = EnqueuedAll(s)
  /\ UNCHANGED <<docVars, jobVars, rows, vecs, collection, up, w, lockq, seen,
                 writeLock, runs, spent>>

\* A cancelled worker puts a running job back to pending, unless the commit in
\* its CancelledError handler fails.
Requeue ==
  IF w.pc \in Working /\ jobStatus[w.job] = "running" /\ ~writeLock
  THEN /\ jobStatus' = [jobStatus EXCEPT ![w.job] = "pending"]
       /\ docStatus' = [docStatus EXCEPT ![jobDoc[w.job]] = "queued"]
  ELSE UNCHANGED <<jobStatus, docStatus>>

\* stop() cancels the worker where it is suspended.
Stop ==
  /\ LoopFree /\ w.pc # "off" /\ Spend("stop")
  /\ Requeue
  /\ IF w.pc = "loop"
     THEN lockq' = lockq
     ELSE \E i \in DOMAIN lockq : lockq[i] = Worker /\ lockq' = RemoveAt(lockq, i)
  /\ w' = NoTask
  /\ UNCHANGED <<docErr, jobDoc, jobPrio, rows, vecs, collection, up, queue, seen,
                 writeLock, runs>>

\* The process dies between any two commits; only the database survives.
Crash ==
  /\ up /\ Spend("crash")
  /\ up' = FALSE /\ queue' = <<>> /\ w' = NoTask /\ lockq' = <<>>
  /\ seen' = [d \in Docs |-> {}] /\ writeLock' = FALSE
  /\ UNCHANGED <<docVars, jobVars, rows, vecs, collection, runs>>

------------------------------------------------------------------------------
(* The worker: _run, _process and _process_locked.                         *)

Pending == {j \in Jobs : jobStatus[j] = "pending"}
Precedes(i, j) == jobPrio[i] < jobPrio[j] \/ (jobPrio[i] = jobPrio[j] /\ i < j)

\* An empty queue is refilled with the first pending jobs of the database.
Refill ==
  /\ w.pc = "loop" /\ queue = <<>>
  /\ Pending # {}
  /\ LET size == Cardinality(Pending)
         n == IF size < QueueCap THEN size ELSE QueueCap
     IN \E s \in [1..n -> Pending] :
          /\ \A i, k \in 1..n : i < k => Precedes(s[i], s[k])
          /\ \A j \in Pending \ Range(s) : \A k \in 1..n : Precedes(s[k], j)
          /\ queue' = s
  /\ UNCHANGED <<tables, w, lockq, runs>>

\* A job id is taken from the queue and the worker joins the lock's waiters.
Pop ==
  /\ w.pc = "loop" /\ queue # <<>>
  /\ w' = [w EXCEPT !.pc = "lock", !.job = Head(queue)]
  /\ queue' = Tail(queue)
  /\ lockq' = Append(lockq, Worker)
  /\ UNCHANGED <<tables, runs>>

BackToLoop ==
  /\ w' = [NoTask EXCEPT !.pc = "loop"]
  /\ lockq' = Tail(lockq)

\* The popped job is not pending any more, or its row is gone.
Skip ==
  /\ w.pc = "lock" /\ Holds(Worker) /\ jobStatus[w.job] # "pending"
  /\ BackToLoop
  /\ UNCHANGED <<tables, queue, runs>>

Begin ==
  /\ w.pc = "lock" /\ Holds(Worker) /\ jobStatus[w.job] = "pending" /\ ~writeLock
  /\ runs[w.job] < MaxRuns
  /\ jobStatus' = [jobStatus EXCEPT ![w.job] = "running"]
  /\ docStatus' = [docStatus EXCEPT ![jobDoc[w.job]] = "parsing"]
  /\ runs' = [runs EXCEPT ![w.job] = @ + 1]
  /\ w' = [w EXCEPT !.pc = "clean", !.err = docErr[jobDoc[w.job]]]
  /\ UNCHANGED <<docErr, rows, vecs, queue, lockq>>

\* Mutant: a new attempt first clears everything the document has.
AllStale(d) == RowsOf(d)
\* Chunks left by attempts that never completed, by their job marker.
Stale(d) == {c \in RowsOf(d) : jobStatus[c.job] # "completed"}

CleanVectors ==
  /\ w.pc = "clean"
  /\ LET d == jobDoc[w.job]
     IN /\ w' = [w EXCEPT !.old = RowsOf(d) \ Stale(d),
                          !.pc = IF Stale(d) = {} THEN "parse" ELSE "cleanRows"]
        /\ vecs' = vecs \ Stale(d)
  /\ UNCHANGED <<docVars, jobStatus, rows, queue, lockq, runs>>

CleanRows ==
  /\ w.pc = "cleanRows"
  /\ rows' = rows \ Stale(jobDoc[w.job])
  /\ w' = [w EXCEPT !.pc = "parse"]
  /\ UNCHANGED <<docVars, jobStatus, vecs, queue, lockq, runs>>

\* Parsing and loading the embedding model end with a stage commit.
Advance(from, stage, to) ==
  /\ w.pc = from /\ ~writeLock
  /\ docStatus' = [docStatus EXCEPT ![jobDoc[w.job]] = stage]
  /\ w' = [w EXCEPT !.pc = to]
  /\ UNCHANGED <<docErr, jobStatus, rows, vecs, queue, lockq, runs>>

Parsed == Advance("parse", "chunking", "load")
\* Mutant: the document is announced before its chunks are stored.
LoadedTooSoon == Advance("load", "ready", "batch")
Loaded == Advance("load", "embedding", "batch")

\* The next batch: the job row is refreshed and a cancellation noticed only
\* when there is a batch to embed.
\* Mutant: the last batch is forgotten.
HasNextBatch == w.n + 1 < Batches[jobDoc[w.job]]
HasBatch == w.n < Batches[jobDoc[w.job]]

TakeBatch ==
  /\ w.pc = "batch" /\ HasBatch /\ jobStatus[w.job] # "cancelled"
  /\ w' = [w EXCEPT !.pc = "embed"]
  /\ UNCHANGED <<tables, queue, lockq, runs>>

NoticeCancel ==
  /\ w.pc = "batch" /\ HasBatch /\ jobStatus[w.job] = "cancelled" /\ ~writeLock
  /\ vecs' = vecs \ Staged
  /\ w' = [w EXCEPT !.pc = "undo"]
  /\ UNCHANGED <<docVars, jobStatus, rows, queue, lockq, runs>>

Undo ==
  /\ w.pc = "undo"
  /\ rows' = rows \ Staged
  /\ docStatus' = [docStatus EXCEPT ![jobDoc[w.job]] = "cancelled"]
  /\ docErr' = [docErr EXCEPT ![jobDoc[w.job]] = "cancelled"]
  /\ BackToLoop
  /\ UNCHANGED <<jobStatus, vecs, queue, runs>>

\* Embeddings arrived: chunk rows are committed, then their vectors.
StoreRows ==
  /\ w.pc = "embed" /\ ~writeLock
  /\ rows' = rows \cup {[job |-> w.job, run |-> runs[w.job], batch |-> w.n + 1]}
  /\ w' = [w EXCEPT !.pc = "store", !.n = @ + 1]
  /\ UNCHANGED <<docVars, jobStatus, vecs, queue, lockq, runs>>

StoreVectors ==
  /\ w.pc = "store"
  /\ vecs' = vecs \cup {[job |-> w.job, run |-> runs[w.job], batch |-> w.n]}
  /\ w' = [w EXCEPT !.pc = "batch"]
  /\ UNCHANGED <<docVars, jobStatus, rows, queue, lockq, runs>>

Indexed ==
  /\ w.pc = "batch" /\ ~HasBatch /\ w.n > 0
  /\ Advance("batch", "indexing", "finish")

\* The replacement is committed at once: superseded rows out, document ready,
\* job completed.  The session wrote error_message = None over the value it
\* loaded at the start, which is no UPDATE if that value was None.
Finish ==
  /\ w.pc = "finish"
  /\ rows' = rows \ w.old
  /\ docStatus' = [docStatus EXCEPT ![jobDoc[w.job]] = "ready"]
  /\ docErr' = IF w.err = "none" THEN docErr ELSE [docErr EXCEPT ![jobDoc[w.job]] = "none"]
  /\ jobStatus' = [jobStatus EXCEPT ![w.job] = "completed"]
  /\ w' = [w EXCEPT !.pc = "supersede"]
  /\ UNCHANGED <<vecs, queue, lockq, runs>>

Supersede ==
  /\ w.pc = "supersede"
  /\ vecs' \in VecsWithout(w.old)
  /\ BackToLoop
  /\ UNCHANGED <<docVars, jobStatus, rows, queue, runs>>

\* An exception in the attempt: the runtime's (parse, load, embed), the vector
\* store's, or a text too short for a chunk.
Raise ==
  /\ \/ w.pc \in {"parse", "load", "embed"} /\ ~writeLock /\ "runtime" \in Faults
     \/ w.pc = "batch" /\ ~writeLock /\ ~HasBatch /\ w.n = 0
     \/ w.pc = "clean" /\ Stale(jobDoc[w.job]) # {} /\ "vectors" \in Faults
     \/ w.pc = "batch" /\ ~writeLock /\ HasBatch /\ jobStatus[w.job] = "cancelled"
          /\ w.n > 0 /\ "vectors" \in Faults
     \/ w.pc = "store" /\ "vectors" \in Faults
  /\ w' = [w EXCEPT !.pc = "fail"]
  /\ UNCHANGED <<tables, queue, lockq, runs>>

FailVectors ==
  /\ w.pc = "fail"
  /\ vecs' \in VecsWithout(Staged)
  /\ w' = [w EXCEPT !.pc = "failRows"]
  /\ UNCHANGED <<docVars, jobStatus, rows, queue, lockq, runs>>

FailRows ==
  /\ w.pc = "failRows"
  /\ rows' = rows \ Staged
  /\ jobStatus' = [jobStatus EXCEPT ![w.job] = "failed"]
  /\ docStatus' = [docStatus EXCEPT ![jobDoc[w.job]] = "failed"]
  /\ docErr' = [docErr EXCEPT ![jobDoc[w.job]] = "failed"]
  /\ BackToLoop
  /\ UNCHANGED <<vecs, queue, runs>>

\* Another connection holds SQLite's write lock: the worker's commit raises
\* after the busy timeout, and so does every statement of its exception
\* handler.  _run logs it; the job keeps the status it had.
Blocked ==
  /\ writeLock
  /\ \/ w.pc = "lock" /\ Holds(Worker) /\ jobStatus[w.job] = "pending"
     \/ w.pc \in {"parse", "load", "embed"}
     \/ w.pc = "batch" /\ (HasBatch => jobStatus[w.job] = "cancelled")
  /\ BackToLoop
  /\ UNCHANGED <<tables, queue, runs>>

WorkerStep ==
  /\ up /\ ~DeleteHot
  /\ \/ Refill \/ Pop \/ Skip \/ Begin \/ CleanVectors \/ CleanRows \/ Parsed \/ Loaded
     \/ TakeBatch \/ NoticeCancel \/ Undo \/ StoreRows \/ StoreVectors \/ Indexed
     \/ Finish \/ Supersede \/ Raise \/ FailVectors \/ FailRows \/ Blocked
  /\ UNCHANGED <<jobDoc, jobPrio, collection, up, seen, writeLock, spent>>

------------------------------------------------------------------------------
(* The HTTP handlers.  While another connection holds the write lock their *)
(* commit fails with a 500 and nothing changes, so they are not enabled.   *)

\* New pending jobs for the documents in S, enqueued in the order created.
Admit(S, prio) ==
  \E f \in Bijection(NewJobs(Cardinality(S)), S) :
    /\ jobStatus' = OnSet("pending", DOMAIN f, jobStatus)
    /\ jobDoc' = Over(f, jobDoc)
    /\ jobPrio' = OnSet(prio, DOMAIN f, jobPrio)
    /\ docStatus' = OnSet("queued", S, docStatus)
    /\ docErr' = OnSet("none", S, docErr)
    /\ \E s \in Orders(DOMAIN f) :
         /\ \A i, k \in DOMAIN s : i < k => s[i] < s[k]
         /\ queue' = EnqueuedAll(s)

Absent == {d \in Docs : docStatus[d] = "absent"}

\* One or two files: nothing is flushed before the last copy, so the rows
\* appear at once.
Upload ==
  /\ LoopFree /\ ~writeLock /\ collection = "live"
  /\ \E S \in SUBSET Absent : Cardinality(S) \in {1, 2} /\ Admit(S, 4)
  /\ UNCHANGED <<writeLock, spent>>

\* Three files or more: the duplicate query of a later file flushes the rows
\* of an earlier one, and the next copy is awaited inside that transaction.
BulkFlush ==
  /\ LoopFree /\ ~writeLock /\ collection = "live" /\ Absent # {} /\ Spend("bulk")
  /\ writeLock' = TRUE
  /\ UNCHANGED <<docVars, jobVars, queue>>

BulkCommit ==
  /\ LoopFree /\ writeLock /\ collection = "live"
  /\ \E S \in SUBSET Absent : S # {} /\ Admit(S, 4)
  /\ writeLock' = FALSE
  /\ spent' = spent

\* A copy fails: the transaction is rolled back with the session.
BulkAbort ==
  /\ LoopFree /\ writeLock
  /\ writeLock' = FALSE
  /\ UNCHANGED <<docVars, jobVars, queue, spent>>

\* enqueue_document returns the pending or running job if there is one.
Reprocess(d) ==
  /\ LoopFree /\ ~writeLock /\ Exists(d) /\ LiveFor(d) = {} /\ Spend("reprocess")
  /\ Admit({d}, 3)
  /\ writeLock' = writeLock

Retry(j) ==
  /\ LoopFree /\ ~writeLock /\ jobStatus[j] \in {"failed", "cancelled"} /\ Spend("retry")
  /\ jobStatus' = [jobStatus EXCEPT ![j] = "pending"]
  /\ docStatus' = [docStatus EXCEPT ![jobDoc[j]] = "queued"]
  /\ docErr' = [docErr EXCEPT ![jobDoc[j]] = "none"]
  /\ queue' = EnqueuedOne(j)
  /\ UNCHANGED <<jobDoc, jobPrio, writeLock>>

Cancel(j) ==
  /\ LoopFree /\ ~writeLock /\ j \in Live /\ Spend("cancel")
  /\ jobStatus' = [jobStatus EXCEPT ![j] = "cancelled"]
  /\ docStatus' = [docStatus EXCEPT ![jobDoc[j]] = "cancelled"]
  /\ docErr' = [docErr EXCEPT ![jobDoc[j]] = "cancelled"]
  /\ UNCHANGED <<jobDoc, jobPrio, queue, writeLock>>

\* delete_document reads the chunk ids, then waits for the mutation lock.
DeleteRequest(d) ==
  /\ LoopFree /\ Exists(d) /\ d \notin Range(lockq) /\ Spend("delete")
  /\ seen' = [seen EXCEPT ![d] = RowsOf(d)]
  /\ lockq' = Append(lockq, d)
  /\ UNCHANGED <<docVars, jobStatus, rows, vecs, collection>>

\* The rows of the documents in D go, with their chunks and jobs (cascade).
Erase(D) ==
  /\ docStatus' = OnSet("deleted", {d \in D : Exists(d)}, docStatus)
  /\ docErr' = OnSet("none", D, docErr)
  /\ jobStatus' = OnSet("gone", {j \in Jobs : jobDoc[j] \in D}, jobStatus)
  /\ rows' = {c \in rows : jobDoc[c.job] \notin D}

DeleteCommit(d) ==
  /\ LoopFree /\ Holds(d) /\ ~writeLock
  /\ Erase({d})
  /\ UNCHANGED <<vecs, collection, lockq, seen, spent>>

\* The vectors whose ids were read before the lock are removed.
DeleteVectors(d) ==
  /\ up /\ Holds(d) /\ docStatus[d] = "deleted"
  /\ vecs' \in VecsWithout(seen[d])
  /\ seen' = [seen EXCEPT ![d] = {}]
  /\ lockq' = Tail(lockq)
  /\ UNCHANGED <<docVars, jobStatus, rows, collection, spent>>

CollectionRequest ==
  /\ LoopFree /\ collection = "live" /\ Collection \notin Range(lockq)
  /\ Spend("deleteCollection")
  /\ lockq' = Append(lockq, Collection)
  /\ UNCHANGED <<docVars, jobStatus, rows, vecs, collection, seen>>

CollectionCommit ==
  /\ LoopFree /\ Holds(Collection) /\ ~writeLock
  /\ Erase(Docs)
  /\ collection' = "deleted"
  /\ UNCHANGED <<vecs, lockq, seen, spent>>

CollectionVectors ==
  /\ up /\ Holds(Collection) /\ collection = "deleted"
  /\ vecs' \in VecsWithout(vecs)
  /\ lockq' = Tail(lockq)
  /\ UNCHANGED <<docVars, jobStatus, rows, collection, seen, spent>>

\* Either deletion answers 500 when its commit fails, and gives the lock back.
DeleteFails ==
  /\ LoopFree /\ writeLock /\ lockq # <<>> /\ Head(lockq) # Worker
  /\ seen' = [d \in Docs |-> IF Holds(d) THEN {} ELSE seen[d]]
  /\ lockq' = Tail(lockq)
  /\ UNCHANGED <<docVars, jobStatus, rows, vecs, collection, spent>>

DeleteStep ==
  /\ \/ \E d \in Docs : DeleteCommit(d) \/ DeleteVectors(d)
     \/ CollectionCommit \/ CollectionVectors \/ DeleteFails
  /\ UNCHANGED <<jobDoc, jobPrio, up, queue, w, writeLock, runs>>

DeleteArrives ==
  /\ CollectionRequest \/ \E d \in Docs : DeleteRequest(d)
  /\ UNCHANGED <<jobDoc, jobPrio, up, queue, w, writeLock, runs>>

JobHandler ==
  /\ \/ Upload \/ BulkFlush \/ BulkCommit \/ BulkAbort
     \/ \E d \in Docs : Reprocess(d)
     \/ \E j \in Jobs : Retry(j) \/ Cancel(j)
  /\ UNCHANGED <<rows, vecs, collection, up, w, lockq, seen, runs>>

Next ==
  \/ Start \/ StartFails \/ Stop \/ Crash
  \/ WorkerStep \/ JobHandler \/ DeleteArrives \/ DeleteStep

Spec == Init /\ [][Next]_vars

\* The event loop keeps resuming the worker and the deletions, whose awaits
\* all end; Electron's supervisor or the next launch starts the backend again,
\* and every maintenance operation restarts the worker it stopped.
Fairness == WF_vars(WorkerStep) /\ WF_vars(DeleteStep) /\ WF_vars(Start)
FairSpec == Spec /\ Fairness

------------------------------------------------------------------------------
(* Properties.                                                             *)

\* Every variable keeps its shape.
TypeOK ==
  /\ docStatus \in [Docs -> DocStates]
  /\ docErr \in [Docs -> {"none", "cancelled", "failed"}]
  /\ jobStatus \in [Jobs -> JobStates]
  /\ jobDoc \in [Jobs -> Docs \cup {NoDoc}]
  /\ jobPrio \in [Jobs -> {3, 4}]
  /\ rows \in SUBSET Chunk /\ vecs \in SUBSET Chunk
  /\ collection \in {"live", "deleted"}
  /\ up \in BOOLEAN /\ writeLock \in BOOLEAN
  /\ queue \in Seq(Jobs)
  /\ lockq \in Seq(Docs \cup {Worker, Collection})
  /\ seen \in [Docs -> SUBSET Chunk]
  /\ w \in [pc : YieldPoint \cup Working, job : Jobs \cup {0}, n : Nat,
            old : SUBSET Chunk, err : {"none", "cancelled", "failed"}]
  /\ w.pc \notin {"off", "loop"} => w.job \in Jobs
  /\ runs \in [Jobs -> 0..MaxRuns] /\ spent \in Nat

\* What the one attempt of a completed job stored, and the part of a
\* document's rows that completed jobs wrote.
RunOf(j) == {[job |-> j, run |-> runs[j], batch |-> b] : b \in 1..Batches[jobDoc[j]]}
Kept(d) == {c \in RowsOf(d) : jobStatus[c.job] = "completed"}
WholeRun(d, S) == \E j \in Jobs :
  jobDoc[j] = d /\ jobStatus[j] = "completed" /\ S = RunOf(j) /\ S \subseteq vecs

\* A document is searchable (status ready) only with the complete chunks of
\* one successful attempt, each with its vector, and nothing else: no crash,
\* cancellation, retry or failed cleanup leaves it ready with a mixture, a part
\* or chunks that semantic search cannot find.
ReadyIsWhole ==
  \A d \in Docs : docStatus[d] = "ready" => RowsOf(d) # {} /\ WholeRun(d, RowsOf(d))

\* Whatever a later attempt does, what a document keeps from earlier ones is
\* nothing or one complete, searchable run.
KeptIsWhole == \A d \in Docs : Kept(d) = {} \/ WholeRun(d, Kept(d))

\* Reprocessing replaces content and never loses it: once a document has
\* indexed content, every step leaves it some, or deletes the document.
NoContentLoss ==
  [][\A d \in Docs : Kept(d) # {} => Kept(d)' # {} \/ docStatus'[d] = "deleted"]_vars

\* A deleted document has no chunk rows and no live job, and the worker is not
\* working on it: deletion and processing exclude each other.
DeletedIsGone ==
  \A d \in Docs : docStatus[d] = "deleted" =>
    /\ RowsOf(d) = {} /\ LiveFor(d) = {}
    /\ ~(w.pc \in Working /\ jobDoc[w.job] = d)

\* No document is left in an intermediate status for ever: its job is found in
\* the backlog, survives stops and crashes, and is never starved.
DocumentsSettle ==
  \A d \in Docs : docStatus[d] \in Unsettled ~> docStatus[d] \notin Unsettled

\* The next two do not hold; the README says why.
\* "DELETE /documents/{id} removes file, DB record, and vector chunks."
DeletedHasNoVectors ==
  \A d \in Docs : docStatus[d] = "deleted" /\ ~DeleteHot =>
    \A c \in vecs : jobDoc[c.job] # d

\* "Ingestion cancelled; retry to index this document": a document whose jobs
\* were all cancelled gets a new job from start() only on somebody's request.
CancelledWaitsForRetry ==
  [][Start => \A d \in Docs :
       /\ LiveFor(d) = {}
       /\ \E j \in Jobs : jobDoc[j] = d /\ jobStatus[j] = "cancelled"
       => LiveFor(d)' = {}]_vars

\* What a search can return: rows of ready documents that have a vector.
Searchable(d) ==
  IF docStatus[d] = "ready"
  THEN {<<<<c.job, c.run>>, c.batch>> : c \in RowsOf(d) \cap vecs}
  ELSE {}
Shown == [d \in Docs |-> Searchable(d)]
Index == INSTANCE KnowledgeIndex WITH Revisions <- Jobs \X (0..MaxRuns), shown <- Shown

\* The tables implement an index that only ever publishes a whole revision of
\* a document, and only where none is shown.
ImplementsIndex == Index!Spec

=============================================================================
