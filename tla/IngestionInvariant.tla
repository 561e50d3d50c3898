-------------------------- MODULE IngestionInvariant --------------------------
(***************************************************************************)
(* The inductive invariant behind ReadyIsWhole, KeptIsWhole, DeletedIsGone *)
(* and NoContentLoss.  ReadyIsWhole is not inductive: it does not say what *)
(* the worker holds in memory (the attempt's staged chunks, the superseded *)
(* ones), nor that the mutation lock keeps deletions away from it.         *)
(***************************************************************************)
EXTENDS Ingestion

\* The worker processes a job only while it heads the lock's waiters.
LockInv == w.pc \in Working => Holds(Worker)

\* Jobs belong to documents that exist; rows, and the chunk ids a deletion has
\* read, belong to jobs that were created.
Listed(j) == jobStatus[j] \notin {"none", "gone"}
JobsInv == \A j \in Jobs : Listed(j) => jobDoc[j] \in Docs /\ Exists(jobDoc[j])
RowsInv == \A c \in rows : Listed(c.job)
SeenInv == \A d \in Docs : \A c \in seen[d] : jobStatus[c.job] # "none" /\ jobDoc[c.job] = d
CollectionInv == collection = "deleted" => \A d \in Docs : ~Exists(d)

\* The job and the document of the attempt.
AttemptInv ==
  w.pc \in Working =>
    /\ w.pc # "supersede" => jobStatus[w.job] \in {"pending", "running", "cancelled"}
    /\ w.pc # "supersede" => docStatus[jobDoc[w.job]] # "ready"
    /\ w.pc = "supersede" => jobStatus[w.job] = "completed" /\ w.old \cap rows = {}
    /\ w.n <= Batches[jobDoc[w.job]]

\* What the attempt has stored, and what it is to supersede, per stage.
Storing == {"parse", "load", "batch", "embed", "store", "finish"}
StagedInv ==
  /\ w.pc \in {"off", "loop", "lock", "clean", "cleanRows", "parse", "load"} => w.n = 0
  /\ w.pc \in Storing \cup {"cleanRows"} => w.old = Kept(jobDoc[w.job])
  /\ w.pc \in Storing => Stale(jobDoc[w.job]) = Staged
  /\ w.pc \in Storing \ {"store"} => Staged \subseteq vecs
  /\ w.pc = "store" =>
       w.n > 0 /\ \A c \in Staged : c.batch # w.n => c \in vecs
  /\ w.pc = "embed" => w.n < Batches[jobDoc[w.job]]
  /\ w.pc = "finish" => w.n = Batches[jobDoc[w.job]] /\ w.n > 0

ReadyInv == \A d \in Docs : docStatus[d] = "ready" => Stale(d) = {} /\ Kept(d) # {}

IInv ==
  /\ TypeOK
  /\ LockInv /\ JobsInv /\ RowsInv /\ SeenInv /\ CollectionInv
  /\ AttemptInv /\ StagedInv /\ KeptIsWhole /\ ReadyInv

\* Bulk uploads hold the write lock across an await; without them no commit of
\* the worker is refused.
NoBulk == "bulk" \notin Ops

\* A document in an intermediate status has a pending job, which the worker
\* finds in the queue or in the backlog, or the worker is at one of its jobs.
Attended(d) == \E j \in Jobs :
  jobDoc[j] = d /\ (jobStatus[j] = "pending" \/ (w.pc \in Working /\ w.job = j))

\* While there is a worker nothing is left behind: a running job is its job,
\* and every document in an intermediate status is attended.
NoneStranded == w.pc # "off" =>
  /\ \A j \in Jobs : jobStatus[j] = "running" => w.pc \in Working /\ w.job = j
  /\ \A d \in Docs : docStatus[d] \in Unsettled => Attended(d)

\* NoneStranded with what makes it inductive: how an attempt ends.
AttendedInv ==
  /\ ~writeLock
  /\ w.pc = "undo" => jobStatus[w.job] = "cancelled"
  /\ w.pc = "supersede" => docStatus[jobDoc[w.job]] = "ready"
  /\ NoneStranded

=============================================================================
