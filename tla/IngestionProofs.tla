--------------------------- MODULE IngestionProofs ---------------------------
(***************************************************************************)
(* Proofs about Ingestion, for every set of documents and jobs, every      *)
(* number of batches, queue capacity and bound: first its types, then that *)
(* IInv is an inductive invariant.  That argument has two halves: what the *)
(* completed jobs of a document left (Kept) changes only when an attempt   *)
(* finishes or the document is deleted, and the worker knows exactly which *)
(* other rows the document has (Staged), because nobody else writes rows   *)
(* while it holds the mutation lock.                                       *)
(***************************************************************************)
EXTENDS IngestionInvariant, FiniteSetTheorems, FunctionTheorems, TLAPS

------------------------------------------------------------------------------
(* Lemmas about the helpers.                                               *)

\* An enumeration of a finite set is a sequence of its elements.
LEMMA OrdersType ==
  ASSUME NEW T, NEW S \in SUBSET T, IsFiniteSet(S), NEW s \in Orders(S)
  PROVE  s \in Seq(T)
<1>1. PICK n \in Nat : n = Cardinality(S)
  BY FS_CardinalityType
<1>2. s \in [1..n -> T]
  BY <1>1 DEF Orders, Bijection, Injection
<1> QED BY <1>2

\* Enqueuing jobs keeps the queue a sequence of jobs.
LEMMA EnqueuedType ==
  ASSUME queue \in Seq(Jobs)
  PROVE  /\ \A s \in Seq(Jobs) : EnqueuedAll(s) \in Seq(Jobs)
         /\ \A j \in Jobs : EnqueuedOne(j) \in Seq(Jobs)
BY BoundsAssumption DEF EnqueuedAll, EnqueuedOne

\* The jobs still to be created are jobs, and finitely many.
LEMMA NewJobsType ==
  ASSUME NEW n
  PROVE  NewJobs(n) \subseteq Fresh /\ Fresh \subseteq Jobs /\ IsFiniteSet(NewJobs(n))
BY JobsAssumption, FS_Subset DEF NewJobs, Fresh

------------------------------------------------------------------------------
(* Type correctness.                                                       *)

\* Creating jobs keeps the tables and the queue well typed.
LEMMA AdmitType ==
  ASSUME TypeOK, NEW S \in SUBSET Docs, NEW prio \in {3, 4}, Admit(S, prio)
  PROVE  /\ jobStatus' \in [Jobs -> JobStates] /\ jobDoc' \in [Jobs -> Docs \cup {NoDoc}]
         /\ jobPrio' \in [Jobs -> {3, 4}]
         /\ docStatus' \in [Docs -> DocStates]
         /\ docErr' \in [Docs -> {"none", "cancelled", "failed"}]
         /\ queue' \in Seq(Jobs)
<1>1. PICK f \in Bijection(NewJobs(Cardinality(S)), S) :
        /\ jobStatus' = OnSet("pending", DOMAIN f, jobStatus)
        /\ jobDoc' = Over(f, jobDoc)
        /\ jobPrio' = OnSet(prio, DOMAIN f, jobPrio)
        /\ docStatus' = OnSet("queued", S, docStatus)
        /\ docErr' = OnSet("none", S, docErr)
        /\ \E s \in Orders(DOMAIN f) : queue' = EnqueuedAll(s)
  BY DEF Admit
<1>2. DOMAIN f \subseteq Jobs /\ IsFiniteSet(DOMAIN f) /\ \A j \in DOMAIN f : f[j] \in Docs
  BY <1>1, NewJobsType DEF Bijection, Injection, Surjection
<1>3. queue' \in Seq(Jobs)
  <2>1. PICK s \in Orders(DOMAIN f) : queue' = EnqueuedAll(s)
    BY <1>1
  <2>2. s \in Seq(Jobs)
    BY <1>2, <2>1, OrdersType
  <2> QED BY <2>1, <2>2, EnqueuedType DEF TypeOK
<1> QED BY <1>1, <1>2, <1>3 DEF TypeOK, OnSet, Over, JobStates, DocStates

\* Dropping the head of the lock's waiters leaves waiters.
LEMMA TailType ==
  ASSUME TypeOK, lockq # <<>>
  PROVE  Tail(lockq) \in Seq(Docs \cup {Worker, Collection})
BY DEF TypeOK

\* Requeuing interrupted and orphaned work keeps the tables well typed.
LEMMA StartType ==
  ASSUME TypeOK, Start
  PROVE  TypeOK'
<1>1. PICK f \in Bijection(NewJobs(Cardinality(Orphans)), Orphans) :
        LET all == DOMAIN f \cup Live
        IN /\ jobDoc' = Over(f, jobDoc)
           /\ jobPrio' = OnSet(4, DOMAIN f, jobPrio)
           /\ jobStatus' = OnSet("pending", all, jobStatus)
           /\ docStatus' = OnSet("queued", {jobDoc'[j] : j \in all}, docStatus)
           /\ \E s \in Orders(all \ Range(queue)) : queue' = EnqueuedAll(s)
  BY DEF Start
<1> DEFINE all == DOMAIN f \cup Live
<1>2. DOMAIN f \subseteq Jobs /\ \A j \in DOMAIN f : f[j] \in Docs
  BY <1>1, NewJobsType DEF Bijection, Injection, Surjection, Orphans
<1>3. all \subseteq Jobs /\ IsFiniteSet(all \ Range(queue))
  BY JobsAssumption, <1>2, FS_Subset DEF Live
<1>4. PICK s \in Orders(all \ Range(queue)) : queue' = EnqueuedAll(s)
  BY <1>1
<1>5. s \in Seq(Jobs)
  BY <1>3, <1>4, OrdersType
<1>6. queue' \in Seq(Jobs)
  BY <1>4, <1>5, EnqueuedType DEF TypeOK
<1>7. /\ jobStatus' \in [Jobs -> JobStates] /\ jobDoc' \in [Jobs -> Docs \cup {NoDoc}]
      /\ jobPrio' \in [Jobs -> {3, 4}] /\ docStatus' \in [Docs -> DocStates]
  BY <1>1, <1>2 DEF TypeOK, OnSet, Over, JobStates, DocStates
<1>8. w' \in [pc : YieldPoint \cup Working, job : Jobs \cup {0}, n : Nat,
              old : SUBSET Chunk, err : {"none", "cancelled", "failed"}]
      /\ w'.pc = "loop"
  BY DEF Start, NoTask, YieldPoint
<1> QED BY <1>6, <1>7, <1>8 DEF TypeOK, Start

\* Filling the queue from the backlog keeps it a sequence of jobs.
LEMMA RefillType ==
  ASSUME TypeOK, Refill
  PROVE  queue' \in Seq(Jobs)
<1>1. \E n \in Nat : \E s \in [1..n -> Pending] : queue' = s
  <2>1. Cardinality(Pending) \in Nat
    BY JobsAssumption, FS_CardinalityType, FS_Subset DEF Pending
  <2> QED BY BoundsAssumption, <2>1 DEF Refill
<1> QED BY <1>1 DEF Pending

\* The worker's steps keep every variable in its type.
LEMMA WorkerType ==
  ASSUME TypeOK, LockInv, JobsInv, AttemptInv, StagedInv, WorkerStep
  PROVE  TypeOK'
<1> USE DEF TypeOK
<1>0. UNCHANGED <<jobDoc, jobPrio, collection, up, seen, writeLock, spent>>
  BY DEF WorkerStep
<1>1. w.pc \notin {"off", "loop"} => w.job \in Jobs
  OBVIOUS
<1>2. w.pc \in Working => jobDoc[w.job] \in Docs /\ lockq # <<>>
  BY <1>1 DEF JobsInv, AttemptInv, Listed, LockInv, Holds, Working
<1>3. lockq # <<>> => Tail(lockq) \in Seq(Docs \cup {Worker, Collection})
  BY TailType
<1>4. w.pc \in Working => Staged \subseteq Chunk
  <2> SUFFICES ASSUME w.pc \in Working, NEW c \in Staged PROVE c \in Chunk
    OBVIOUS
  <2>1. PICK b \in 1..w.n : c = [job |-> w.job, run |-> runs[w.job], batch |-> b]
    BY DEF Staged
  <2>2. w.job \in Jobs /\ runs[w.job] \in 0..MaxRuns
    BY <1>1 DEF Working
  <2>3. w.n \in Nat
    OBVIOUS
  <2>4. b \in Nat \ {0}
    BY <2>3
  <2> QED BY <2>1, <2>2, <2>4 DEF Chunk
<1>5. CASE Refill
  BY <1>0, <1>5, RefillType DEF Refill, tables, docVars
<1>6. CASE Pop
  <2>1. Head(queue) \in Jobs /\ Tail(queue) \in Seq(Jobs)
    BY <1>6 DEF Pop
  <2>2. lockq' \in Seq(Docs \cup {Worker, Collection})
    BY <1>6 DEF Pop
  <2>3. w' \in [pc : YieldPoint \cup Working, job : Jobs \cup {0}, n : Nat,
                old : SUBSET Chunk, err : {"none", "cancelled", "failed"}]
        /\ w'.job \in Jobs
    BY <1>6, <2>1 DEF Pop, YieldPoint
  <2> QED BY <1>0, <1>6, <2>1, <2>2, <2>3 DEF Pop, tables, docVars
<1>7. CASE Skip \/ Blocked
  <2>1. lockq # <<>>
    BY <1>2, <1>7 DEF Skip, Blocked, Holds, Working
  <2>2. UNCHANGED <<docStatus, docErr, jobStatus, rows, vecs, queue, runs>> /\ BackToLoop
    BY <1>7 DEF Skip, Blocked, tables, docVars
  <2> QED
    BY <1>0, <1>3, <2>1, <2>2 DEF BackToLoop, NoTask, YieldPoint
<1>8. CASE Begin
  <2>1. w.job \in Jobs /\ jobDoc[w.job] \in Docs
    BY <1>8 DEF Begin, JobsInv, Listed
  <2>2. runs' \in [Jobs -> 0..MaxRuns]
    <3>1. runs[w.job] \in 0..MaxRuns /\ runs[w.job] < MaxRuns /\ MaxRuns \in Nat
      BY BoundsAssumption, <1>8, <2>1 DEF Begin
    <3>2. runs[w.job] + 1 \in 0..MaxRuns
      BY <3>1
    <3> QED BY <1>8, <2>1, <3>2 DEF Begin
  <2>3. w' \in [pc : YieldPoint \cup Working, job : Jobs \cup {0}, n : Nat,
                old : SUBSET Chunk, err : {"none", "cancelled", "failed"}]
        /\ w'.job \in Jobs
    BY <1>8, <2>1 DEF Begin, Working
  <2> QED BY <1>0, <1>8, <2>1, <2>2, <2>3 DEF Begin, JobStates, DocStates
<1>9. CASE CleanVectors
  <2>1. RowsOf(jobDoc[w.job]) \subseteq Chunk
    BY <1>0 DEF RowsOf
  <2>2. w' \in [pc : YieldPoint \cup Working, job : Jobs \cup {0}, n : Nat,
                old : SUBSET Chunk, err : {"none", "cancelled", "failed"}]
        /\ w'.pc \in {"parse", "cleanRows"} /\ w'.job = w.job
    BY <1>0, <1>9, <2>1 DEF CleanVectors, YieldPoint, Working
  <2> QED BY <1>0, <1>9, <2>2 DEF CleanVectors, docVars, Working
<1>10. CASE CleanRows
  BY <1>0, <1>10 DEF CleanRows, docVars, Working
<1>11. CASE Parsed \/ Loaded \/ Indexed
  BY <1>0, <1>2, <1>11, ZenonT(60) DEF Parsed, Loaded, Indexed, Advance, Working, DocStates
<1>12. CASE TakeBatch \/ NoticeCancel \/ Raise
  BY <1>0, <1>12, ZenonT(60) DEF TakeBatch, NoticeCancel, Raise, tables, docVars, Working
<1>13. CASE Undo
  BY <1>0, <1>2, <1>3, <1>13 DEF Undo, BackToLoop, NoTask, YieldPoint, Working, DocStates
<1>14. CASE StoreRows
  <2>1. [job |-> w.job, run |-> runs[w.job], batch |-> w.n + 1] \in Chunk
    BY <1>1, <1>14 DEF StoreRows, Chunk
  <2>2. rows' \in SUBSET Chunk
    BY <1>14, <2>1 DEF StoreRows
  <2>3. w' \in [pc : YieldPoint \cup Working, job : Jobs \cup {0}, n : Nat,
                old : SUBSET Chunk, err : {"none", "cancelled", "failed"}]
        /\ w'.job = w.job /\ w.job \in Jobs
    <3>1. w.n \in Nat /\ w.n + 1 \in Nat
      OBVIOUS
    <3>2. w' = [w EXCEPT !.pc = "store", !.n = w.n + 1] /\ w.job \in Jobs
      BY <1>14, <1>1 DEF StoreRows
    <3> QED BY <3>1, <3>2 DEF Working
  <2>4. UNCHANGED <<docStatus, docErr, jobStatus, vecs, queue, lockq, runs>>
    BY <1>14 DEF StoreRows, docVars
  <2> QED BY <1>0, <2>2, <2>3, <2>4
<1>15. CASE StoreVectors
  <2>1. [job |-> w.job, run |-> runs[w.job], batch |-> w.n] \in Chunk
    BY <1>1, <1>15 DEF StoreVectors, StagedInv, Chunk
  <2> QED BY <1>0, <1>15, <2>1 DEF StoreVectors, docVars, Working
<1>16. CASE Finish
  BY <1>0, <1>2, <1>16 DEF Finish, Working, DocStates, JobStates
<1>17. CASE Supersede
  BY <1>0, <1>2, <1>3, <1>17 DEF Supersede, BackToLoop, NoTask, YieldPoint, Working, docVars, VecsWithout
<1>18. CASE FailVectors
  BY <1>0, <1>18 DEF FailVectors, Working, docVars, VecsWithout
<1>19. CASE FailRows
  BY <1>0, <1>2, <1>3, <1>19 DEF FailRows, BackToLoop, NoTask, YieldPoint, Working, DocStates, JobStates
<1> QED
  BY <1>5, <1>6, <1>7, <1>8, <1>9, <1>10, <1>11, <1>12, <1>13, <1>14, <1>15, <1>16, <1>17,
     <1>18, <1>19 DEF WorkerStep

\* Counting an exceptional operation.
LEMMA SpendType ==
  ASSUME TypeOK, NEW op, Spend(op)
  PROVE  spent' \in Nat
<1>1. spent \in Nat
  BY DEF TypeOK
<1> QED BY <1>1 DEF Spend

\* Stopping the worker, a failing start and the death of the process.
LEMMA ProcessType ==
  ASSUME TypeOK, StartFails \/ Stop \/ Crash
  PROVE  TypeOK'
<1>1. CASE StartFails
  <2>1. IsFiniteSet(Live \ Range(queue)) /\ Live \subseteq Jobs
    BY JobsAssumption, FS_Subset DEF Live
  <2>2. PICK s \in Orders(Live \ Range(queue)) : queue' = EnqueuedAll(s)
    BY <1>1 DEF StartFails
  <2>3. queue' \in Seq(Jobs)
    <3>1. s \in Seq(Jobs)
      BY <2>1, <2>2, OrdersType
    <3> QED BY <2>2, <3>1, EnqueuedType DEF TypeOK
  <2> QED BY <1>1, <2>3 DEF StartFails, TypeOK, docVars, jobVars
<1>2. CASE Stop
  <2>1. jobStatus' \in [Jobs -> JobStates] /\ docStatus' \in [Docs -> DocStates]
    <3>1. Requeue
      BY <1>2 DEF Stop
    <3>2. CASE UNCHANGED <<jobStatus, docStatus>>
      BY <3>2 DEF TypeOK
    <3>3. CASE /\ jobStatus' = [jobStatus EXCEPT ![w.job] = "pending"]
               /\ docStatus' = [docStatus EXCEPT ![jobDoc[w.job]] = "queued"]
      BY <3>3 DEF TypeOK, JobStates, DocStates
    <3> QED BY <3>1, <3>2, <3>3 DEF Requeue
  <2>2. lockq' \in Seq(Docs \cup {Worker, Collection})
    <3>1. ASSUME NEW i \in DOMAIN lockq
          PROVE  RemoveAt(lockq, i) \in Seq(Docs \cup {Worker, Collection})
      <4>1. lockq \in Seq(Docs \cup {Worker, Collection}) /\ i \in 1..Len(lockq)
        BY DEF TypeOK
      <4>2. SubSeq(lockq, 1, i - 1) \in Seq(Docs \cup {Worker, Collection})
        BY <4>1
      <4>3. SubSeq(lockq, i + 1, Len(lockq)) \in Seq(Docs \cup {Worker, Collection})
        BY <4>1
      <4> QED BY <4>2, <4>3 DEF RemoveAt
    <3>2. lockq' = lockq \/ \E i \in DOMAIN lockq : lockq' = RemoveAt(lockq, i)
      BY <1>2 DEF Stop
    <3> QED BY <3>1, <3>2 DEF TypeOK
  <2>3. spent' \in Nat
    BY <1>2, SpendType DEF Stop
  <2>4. w' = NoTask
    BY <1>2 DEF Stop
  <2>5. UNCHANGED <<docErr, jobDoc, jobPrio, rows, vecs, collection, up, queue, seen,
                    writeLock, runs>>
    BY <1>2 DEF Stop
  <2> QED BY <2>1, <2>2, <2>3, <2>4, <2>5 DEF TypeOK, NoTask, YieldPoint
<1>3. CASE Crash
  <2>1. spent' \in Nat
    BY <1>3, SpendType DEF Crash
  <2>2. UNCHANGED <<docStatus, docErr, jobStatus, jobDoc, jobPrio, rows, vecs, collection, runs>>
    BY <1>3 DEF Crash, docVars, jobVars
  <2>3. /\ up' = FALSE /\ queue' = <<>> /\ w' = NoTask /\ lockq' = <<>>
        /\ seen' \in [Docs -> SUBSET Chunk] /\ writeLock' = FALSE
    BY <1>3 DEF Crash
  <2>4. w' \in [pc : YieldPoint \cup Working, job : Jobs \cup {0}, n : Nat,
                old : SUBSET Chunk, err : {"none", "cancelled", "failed"}]
        /\ w'.pc = "off"
    BY <2>3 DEF NoTask, YieldPoint
  <2>5. lockq' \in Seq(Docs \cup {Worker, Collection}) /\ queue' \in Seq(Jobs)
    BY <2>3
  <2> QED BY <2>1, <2>2, <2>3, <2>4, <2>5 DEF TypeOK
<1> QED BY <1>1, <1>2, <1>3

\* The upload, reprocess, retry and cancel handlers.
LEMMA HandlerType ==
  ASSUME TypeOK, JobsInv, JobHandler
  PROVE  TypeOK'
<1>0. UNCHANGED <<rows, vecs, collection, up, w, lockq, seen, runs>>
  BY DEF JobHandler
<1>1. spent' \in Nat
  <2>1. spent' = spent \/ \E op \in Ops : Spend(op)
    BY DEF JobHandler, Upload, BulkFlush, BulkCommit, BulkAbort, Reprocess, Retry, Cancel, Spend
  <2> QED BY <2>1, SpendType DEF TypeOK
<1>2. writeLock' \in BOOLEAN
  BY DEF JobHandler, TypeOK, Upload, BulkFlush, BulkCommit, BulkAbort, Reprocess, Retry, Cancel
<1>3. ASSUME NEW S \in SUBSET Docs, NEW prio \in {3, 4}, Admit(S, prio) PROVE TypeOK'
  <2>1. /\ jobStatus' \in [Jobs -> JobStates] /\ jobDoc' \in [Jobs -> Docs \cup {NoDoc}]
        /\ jobPrio' \in [Jobs -> {3, 4}]
        /\ docStatus' \in [Docs -> DocStates]
        /\ docErr' \in [Docs -> {"none", "cancelled", "failed"}]
        /\ queue' \in Seq(Jobs)
    BY <1>3, AdmitType
  <2> QED BY <1>0, <1>1, <1>2, <2>1 DEF TypeOK
<1>4. CASE Upload \/ BulkCommit
  <2>1. PICK S \in SUBSET Absent : Admit(S, 4)
    BY <1>4 DEF Upload, BulkCommit
  <2> QED BY <2>1, <1>3 DEF Absent
<1>5. CASE BulkFlush \/ BulkAbort
  BY <1>0, <1>1, <1>2, <1>5 DEF BulkFlush, BulkAbort, docVars, jobVars, TypeOK
<1>6. ASSUME NEW d \in Docs, Reprocess(d) PROVE TypeOK'
  BY <1>3, <1>6 DEF Reprocess
<1>7. ASSUME NEW j \in Jobs, NEW dst \in DocStates, NEW jst \in JobStates,
             NEW err \in {"none", "cancelled"}, queue' \in Seq(Jobs),
             jobStatus' = [jobStatus EXCEPT ![j] = jst],
             docStatus' = [docStatus EXCEPT ![jobDoc[j]] = dst],
             docErr' = [docErr EXCEPT ![jobDoc[j]] = err],
             UNCHANGED <<jobDoc, jobPrio>>
      PROVE  TypeOK'
  BY <1>0, <1>1, <1>2, <1>7 DEF TypeOK
<1>8. ASSUME NEW j \in Jobs, Retry(j) PROVE TypeOK'
  <2>1. queue' \in Seq(Jobs)
    BY <1>8, EnqueuedType DEF Retry, TypeOK
  <2> QED BY <1>7, <1>8, <2>1 DEF Retry, JobStates, DocStates
<1>9. ASSUME NEW j \in Jobs, Cancel(j) PROVE TypeOK'
  <2>1. queue' \in Seq(Jobs)
    BY <1>9 DEF Cancel, TypeOK
  <2> QED BY <1>7, <1>9, <2>1 DEF Cancel, JobStates, DocStates
<1> QED BY <1>4, <1>5, <1>6, <1>8, <1>9 DEF JobHandler

\* The deletion handlers.
LEMMA DeleteType ==
  ASSUME TypeOK, DeleteArrives \/ DeleteStep
  PROVE  TypeOK'
<1>0. UNCHANGED <<jobDoc, jobPrio, up, queue, w, writeLock, runs>>
  BY DEF DeleteArrives, DeleteStep
<1>1. ASSUME NEW D \in SUBSET Docs, Erase(D)
      PROVE  /\ docStatus' \in [Docs -> DocStates]
             /\ docErr' \in [Docs -> {"none", "cancelled", "failed"}]
             /\ jobStatus' \in [Jobs -> JobStates] /\ rows' \in SUBSET Chunk
  BY <1>1 DEF Erase, OnSet, TypeOK, DocStates, JobStates
<1>2. ASSUME NEW d \in Docs, DeleteRequest(d) PROVE TypeOK'
  BY <1>0, <1>2 DEF DeleteRequest, TypeOK, docVars, Spend, RowsOf
<1>3. CASE CollectionRequest
  BY <1>0, <1>3 DEF CollectionRequest, TypeOK, docVars, Spend
<1>4. ASSUME NEW d \in Docs, DeleteCommit(d) PROVE TypeOK'
  BY <1>0, <1>1, <1>4 DEF DeleteCommit, TypeOK
<1>5. CASE CollectionCommit
  BY <1>0, <1>1, <1>5 DEF CollectionCommit, TypeOK
<1>6. ASSUME NEW d \in Docs, DeleteVectors(d) PROVE TypeOK'
  BY <1>0, <1>6, TailType DEF DeleteVectors, TypeOK, docVars, Holds, VecsWithout
<1>7. CASE CollectionVectors
  BY <1>0, <1>7, TailType DEF CollectionVectors, TypeOK, docVars, Holds, VecsWithout
<1>8. CASE DeleteFails
  BY <1>0, <1>8, TailType DEF DeleteFails, TypeOK, docVars
<1> QED BY <1>2, <1>3, <1>4, <1>5, <1>6, <1>7, <1>8 DEF DeleteArrives, DeleteStep

------------------------------------------------------------------------------
(* What a document keeps.                                                  *)

\* A document keeps the rows that completed jobs wrote.
LEMMA KeptRows ==
  ASSUME NEW d
  PROVE  /\ Kept(d) = {c \in rows : jobDoc[c.job] = d /\ jobStatus[c.job] = "completed"}
         /\ Stale(d) = {c \in rows : jobDoc[c.job] = d /\ jobStatus[c.job] # "completed"}
         /\ Kept(d) \cup Stale(d) = RowsOf(d)
BY DEF Kept, Stale, RowsOf

\* A document's kept run survives a step that keeps the rows of its completed
\* jobs and their vectors.
LEMMA KeptFrame ==
  ASSUME TypeOK, TypeOK', NEW d \in Docs,
         Kept(d) = {} \/ WholeRun(d, Kept(d)),
         \A c \in Chunk : jobStatus[c.job] = "completed" /\ jobDoc[c.job] = d =>
           /\ c \in rows' <=> c \in rows
           /\ c \in rows /\ c \in vecs => c \in vecs',
         \A j \in Jobs :
           /\ jobStatus'[j] = "completed" /\ jobDoc'[j] = d <=> jobStatus[j] = "completed" /\ jobDoc[j] = d
           /\ jobStatus[j] = "completed" /\ jobDoc[j] = d => runs'[j] = runs[j]
  PROVE  Kept(d)' = Kept(d) /\ (Kept(d) = {} \/ WholeRun(d, Kept(d)))'
<1>1. rows \subseteq Chunk /\ rows' \subseteq Chunk /\ \A c \in Chunk : c.job \in Jobs
  BY DEF TypeOK, Chunk
<1>2. Kept(d)' = Kept(d)
  <2>1. Kept(d)' = {c \in rows' : jobDoc'[c.job] = d /\ jobStatus'[c.job] = "completed"}
    BY DEF Kept, Stale, RowsOf
  <2> QED BY <1>1, <2>1, KeptRows
<1>3. ASSUME WholeRun(d, Kept(d)) PROVE WholeRun(d, Kept(d))'
  <2>1. PICK j \in Jobs :
          jobDoc[j] = d /\ jobStatus[j] = "completed" /\ Kept(d) = RunOf(j) /\ Kept(d) \subseteq vecs
    BY <1>3 DEF WholeRun
  <2>2. jobDoc'[j] = d /\ jobStatus'[j] = "completed" /\ RunOf(j)' = RunOf(j)
    BY <2>1 DEF RunOf
  <2>3. Kept(d) \subseteq vecs'
    BY <1>1, <2>1, KeptRows
  <2> QED BY <1>2, <2>1, <2>2, <2>3 DEF WholeRun
<1> QED BY <1>2, <1>3

\* What a step that finishes no attempt does to what documents keep: nothing,
\* unless it deletes them; and it announces no document.
Quiet == \A d \in Docs : /\ Kept(d)' = Kept(d) \/ docStatus'[d] = "deleted"
                         /\ docStatus'[d] = "ready" => docStatus[d] = "ready"

------------------------------------------------------------------------------
(* Steps of the others, and of a worker that is not at a job.              *)

\* A step that leaves the chunks alone, keeps created jobs with their
\* documents, completes nothing and announces no document.
Bystander ==
  /\ rows' = rows /\ vecs' = vecs
  /\ \A j \in Jobs :
       /\ Listed(j) => Listed(j)'
       /\ jobStatus[j] # "none" => jobStatus'[j] # "none" /\ jobDoc'[j] = jobDoc[j]
       /\ jobStatus'[j] = "completed" <=> jobStatus[j] = "completed"
       /\ jobStatus[j] \in {"pending", "running", "cancelled"}
            => jobStatus'[j] \in {"pending", "running", "cancelled"}
       /\ jobStatus[j] = "completed" => runs'[j] = runs[j]
  /\ \A d \in Docs : docStatus'[d] = "ready" => docStatus[d] = "ready"

\* Such a step changes nothing in what documents keep or have in progress.
LEMMA BystanderRows ==
  ASSUME IInv, TypeOK', Bystander
  PROVE  /\ \A d \in Docs : RowsOf(d)' = RowsOf(d) /\ Kept(d)' = Kept(d) /\ Stale(d)' = Stale(d)
         /\ KeptIsWhole' /\ RowsInv' /\ ReadyInv' /\ Quiet
<1>1. rows \subseteq Chunk /\ \A c \in Chunk : c.job \in Jobs
  BY DEF IInv, TypeOK, Chunk
<1>2. \A c \in rows : Listed(c.job) /\ c.job \in Jobs
  BY <1>1 DEF IInv, RowsInv
<1>3. \A c \in rows : jobDoc'[c.job] = jobDoc[c.job]
                      /\ (jobStatus'[c.job] = "completed" <=> jobStatus[c.job] = "completed")
  BY <1>2 DEF Bystander, Listed
<1>4. ASSUME NEW d \in Docs
      PROVE  RowsOf(d)' = RowsOf(d) /\ Kept(d)' = Kept(d) /\ Stale(d)' = Stale(d)
  <2>1. RowsOf(d)' = RowsOf(d) /\ Stale(d)' = Stale(d)
    BY <1>3 DEF RowsOf, Stale, Bystander
  <2> QED BY <2>1 DEF Kept, Stale
<1>5. ASSUME NEW d \in Docs PROVE (Kept(d) = {} \/ WholeRun(d, Kept(d)))'
  <2>1. \A j \in Jobs :
          /\ jobStatus'[j] = "completed" /\ jobDoc'[j] = d <=> jobStatus[j] = "completed" /\ jobDoc[j] = d
          /\ jobStatus[j] = "completed" /\ jobDoc[j] = d => runs'[j] = runs[j]
    BY DEF Bystander
  <2>2. rows' = rows /\ vecs' = vecs /\ TypeOK /\ (Kept(d) = {} \/ WholeRun(d, Kept(d)))
    BY DEF Bystander, IInv, KeptIsWhole
  <2> QED BY <2>1, <2>2, KeptFrame
<1>6. RowsInv'
  BY <1>2 DEF Bystander, RowsInv, Listed
<1>7. ReadyInv'
  BY <1>4 DEF Bystander, IInv, ReadyInv
<1>8. Quiet
  BY <1>4 DEF Bystander, Quiet
<1> QED BY <1>4, <1>5, <1>6, <1>7, <1>8 DEF KeptIsWhole

\* If in addition the worker stays as it is and keeps the lock, what is known
\* of its attempt still holds.
LEMMA BystanderAttempt ==
  ASSUME IInv, TypeOK', Bystander, w' = w, runs' = runs, Holds(Worker) => Holds(Worker)'
  PROVE  LockInv' /\ AttemptInv' /\ StagedInv'
<1>1. w.pc \in Working => w.job \in Jobs /\ jobDoc[w.job] \in Docs /\ Listed(w.job)
  BY DEF IInv, TypeOK, JobsInv, AttemptInv, Listed, Working
<1>2. LockInv'
  BY DEF IInv, LockInv
<1>3. w.pc \in Working => jobDoc'[w.job] = jobDoc[w.job]
  BY <1>1 DEF Bystander, Listed
<1>4. AttemptInv'
  BY <1>1, <1>3 DEF IInv, AttemptInv, Bystander
<1>5. Staged' = Staged
  BY DEF Staged
<1>6. w.pc \in Working =>
        Kept(jobDoc[w.job])' = Kept(jobDoc[w.job]) /\ Stale(jobDoc[w.job])' = Stale(jobDoc[w.job])
  BY <1>1, <1>3, BystanderRows
<1>7. StagedInv'
  BY <1>3, <1>5, <1>6 DEF IInv, StagedInv, Storing, Working, Bystander
<1> QED BY <1>2, <1>4, <1>7

\* A worker without a job has nothing to lose.
LEMMA NotWorking ==
  ASSUME w'.pc \notin Working, w'.n = 0
  PROVE  LockInv' /\ AttemptInv' /\ StagedInv'
BY DEF LockInv, AttemptInv, StagedInv, Storing, Working

\* Starting the worker: only pending jobs appear, and only for documents that
\* exist.
LEMMA StartInv ==
  ASSUME IInv, Start
  PROVE  IInv' /\ Quiet
<1>0. TypeOK'
  BY StartType DEF IInv
<1> USE DEF TypeOK
<1>1. PICK f \in Bijection(NewJobs(Cardinality(Orphans)), Orphans) :
        LET all == DOMAIN f \cup Live
        IN /\ jobDoc' = Over(f, jobDoc)
           /\ jobStatus' = OnSet("pending", all, jobStatus)
           /\ docStatus' = OnSet("queued", {jobDoc'[j] : j \in all}, docStatus)
  BY DEF Start
<1> DEFINE all == DOMAIN f \cup Live
<1>2. UNCHANGED <<docErr, rows, vecs, collection, lockq, seen, runs>>
      /\ w'.pc = "loop" /\ w'.n = 0
  BY DEF Start, NoTask
<1>3. DOMAIN f \subseteq Fresh /\ \A j \in DOMAIN f : f[j] \in Orphans
  BY <1>1, NewJobsType DEF Bijection, Injection, Surjection
<1>4. \A j \in Jobs : /\ jobDoc'[j] = IF j \in DOMAIN f THEN f[j] ELSE jobDoc[j]
                      /\ jobStatus'[j] = IF j \in all THEN "pending" ELSE jobStatus[j]
  BY <1>1 DEF Over, OnSet, IInv
<1>5. \A d \in Docs : docStatus'[d] = IF d \in {jobDoc'[j] : j \in all} THEN "queued" ELSE docStatus[d]
  BY <1>1 DEF OnSet, IInv
<1>6. \A j \in all : j \in Jobs /\ jobDoc'[j] \in Docs /\ Exists(jobDoc'[j])
  <2>1. ASSUME NEW j \in DOMAIN f PROVE j \in Jobs /\ jobDoc'[j] \in Docs /\ Exists(jobDoc'[j])
    BY <1>3, <1>4, <2>1 DEF Fresh, Orphans, Exists, Unsettled
  <2>2. ASSUME NEW j \in Live, j \notin DOMAIN f PROVE j \in Jobs /\ jobDoc'[j] \in Docs /\ Exists(jobDoc'[j])
    BY <1>4, <2>2 DEF Live, IInv, JobsInv, Listed
  <2> QED BY <2>1, <2>2
<1>7. \A d \in Docs : Exists(d)' <=> Exists(d)
  BY <1>5, <1>6 DEF Exists
<1>8. Bystander
  BY <1>2, <1>3, <1>4, <1>5 DEF Bystander, Fresh, Live, Listed
<1>9. JobsInv'
  BY <1>3, <1>4, <1>6, <1>7 DEF JobsInv, Listed, IInv, Fresh
<1>10. SeenInv' /\ CollectionInv'
  <2>1. \A d \in Docs : \A c \in seen[d] : c.job \in Jobs
    BY DEF IInv, Chunk
  <2> QED BY <1>2, <1>7, <1>8, <2>1 DEF SeenInv, CollectionInv, IInv, Bystander
<1> QED BY <1>0, <1>2, <1>8, <1>9, <1>10, BystanderRows, NotWorking DEF IInv, Working

\* Stopping the worker, a failing start and the death of the process.
LEMMA ProcessInv ==
  ASSUME IInv, StartFails \/ Stop \/ Crash
  PROVE  IInv' /\ Quiet
<1>0. TypeOK'
  BY ProcessType DEF IInv
<1> USE DEF TypeOK
<1>1. /\ UNCHANGED <<jobDoc, rows, vecs, collection, runs>>
      /\ \A d \in Docs : seen'[d] \subseteq seen[d]
  BY DEF StartFails, Stop, Crash, docVars, jobVars
<1>2. /\ \A j \in Jobs : \/ jobStatus'[j] = jobStatus[j]
                         \/ jobStatus[j] = "running" /\ jobStatus'[j] = "pending"
      /\ \A d \in Docs : \/ docStatus'[d] = docStatus[d]
                         \/ docStatus'[d] = "queued" /\ Exists(d)
  <2>1. CASE UNCHANGED <<jobStatus, docStatus>>
    BY <2>1
  <2>2. CASE Stop /\ ~UNCHANGED <<jobStatus, docStatus>>
    <3>1. /\ jobStatus[w.job] = "running" /\ w.job \in Jobs
          /\ jobStatus' = [jobStatus EXCEPT ![w.job] = "pending"]
          /\ docStatus' = [docStatus EXCEPT ![jobDoc[w.job]] = "queued"]
      BY <2>2 DEF Stop, Requeue, IInv, Working
    <3>2. Exists(jobDoc[w.job])
      BY <3>1 DEF IInv, JobsInv, Listed
    <3> QED BY <3>1, <3>2 DEF IInv
  <2> QED BY <2>1, <2>2 DEF StartFails, Crash, docVars, jobVars
<1>3. Bystander
  BY <1>1, <1>2 DEF Bystander, Listed
<1>4. \A d \in Docs : Exists(d)' <=> Exists(d)
  BY <1>2 DEF Exists
<1>5. JobsInv'
  BY <1>1, <1>2, <1>4 DEF JobsInv, Listed, IInv
<1>6. SeenInv' /\ CollectionInv'
  <2>1. \A d \in Docs : \A c \in seen[d] : c.job \in Jobs
    BY DEF IInv, Chunk
  <2> QED BY <1>1, <1>3, <1>4, <2>1 DEF SeenInv, CollectionInv, IInv, Bystander
<1>7. LockInv' /\ AttemptInv' /\ StagedInv'
  <2>1. CASE StartFails
    BY <2>1, <1>0, <1>1, <1>3, BystanderAttempt DEF StartFails, Holds
  <2>2. CASE Stop \/ Crash
    BY <2>2, NotWorking DEF Stop, Crash, NoTask, Working
  <2> QED BY <2>1, <2>2
<1> QED BY <1>0, <1>3, <1>5, <1>6, <1>7, BystanderRows DEF IInv

\* New jobs for documents that exist from now on.
LEMMA AdmitInv ==
  ASSUME IInv, TypeOK', NEW S \in SUBSET Docs, NEW prio, Admit(S, prio), collection = "live",
         UNCHANGED <<rows, vecs, collection, w, lockq, seen, runs>>
  PROVE  IInv' /\ Quiet
<1> USE DEF TypeOK
<1>1. PICK f \in Bijection(NewJobs(Cardinality(S)), S) :
        /\ jobStatus' = OnSet("pending", DOMAIN f, jobStatus)
        /\ jobDoc' = Over(f, jobDoc)
        /\ docStatus' = OnSet("queued", S, docStatus)
  BY DEF Admit
<1>2. DOMAIN f \subseteq Fresh /\ \A j \in DOMAIN f : f[j] \in S
  BY <1>1, NewJobsType DEF Bijection, Injection, Surjection
<1>3. \A j \in Jobs : /\ jobDoc'[j] = IF j \in DOMAIN f THEN f[j] ELSE jobDoc[j]
                      /\ jobStatus'[j] = IF j \in DOMAIN f THEN "pending" ELSE jobStatus[j]
  BY <1>1 DEF Over, OnSet, IInv
<1>4. \A d \in Docs : docStatus'[d] = IF d \in S THEN "queued" ELSE docStatus[d]
  BY <1>1 DEF OnSet, IInv
<1>5. Bystander
  BY <1>2, <1>3, <1>4 DEF Bystander, Fresh, Listed
<1>6. JobsInv'
  <2>1. ASSUME NEW j \in DOMAIN f PROVE j \in Jobs /\ jobDoc'[j] \in Docs /\ Exists(jobDoc[j])'
    BY <1>2, <1>3, <1>4 DEF Exists, Fresh
  <2>2. ASSUME NEW j \in Jobs \ DOMAIN f, Listed(j)
        PROVE  jobDoc'[j] \in Docs /\ Exists(jobDoc[j])'
    BY <1>3, <1>4, <2>2 DEF IInv, JobsInv, Exists
  <2>3. ASSUME NEW j \in Jobs \ DOMAIN f, Listed(j)' PROVE Listed(j)
    BY <1>3, <2>3 DEF Listed
  <2> QED BY <2>1, <2>2, <2>3 DEF JobsInv
<1>7. SeenInv' /\ CollectionInv'
  <2>1. \A d \in Docs : \A c \in seen[d] : c.job \in Jobs
    BY DEF IInv, Chunk
  <2> QED BY <1>5, <2>1 DEF SeenInv, CollectionInv, IInv, Bystander
<1> QED BY <1>5, <1>6, <1>7, BystanderRows, BystanderAttempt DEF IInv, Holds

\* The upload, reprocess, retry and cancel handlers.
LEMMA HandlerInv ==
  ASSUME IInv, JobHandler
  PROVE  IInv' /\ Quiet
<1>0. TypeOK'
  BY HandlerType DEF IInv
<1>1. UNCHANGED <<rows, vecs, collection, w, lockq, seen, runs>>
  BY DEF JobHandler
<1>2. CASE Upload \/ BulkCommit
  <2>1. PICK S \in SUBSET Absent : Admit(S, 4)
    BY <1>2 DEF Upload, BulkCommit
  <2>2. S \in SUBSET Docs /\ collection = "live"
    BY <1>2, <2>1 DEF Absent, Upload, BulkCommit
  <2> QED BY <1>0, <1>1, <2>1, <2>2, AdmitInv
<1>3. ASSUME NEW d \in Docs, Reprocess(d) PROVE IInv' /\ Quiet
  <2>1. collection = "live"
    BY <1>3 DEF Reprocess, IInv, TypeOK, CollectionInv
  <2> QED BY <1>0, <1>1, <1>3, <2>1, AdmitInv DEF Reprocess
<1>4. ASSUME UNCHANGED jobDoc,
             \A j \in Jobs : \/ jobStatus'[j] = jobStatus[j]
                             \/ jobStatus[j] \in {"failed", "cancelled"} /\ jobStatus'[j] = "pending"
                             \/ jobStatus[j] \in {"pending", "running"} /\ jobStatus'[j] = "cancelled",
             \A d \in Docs : \/ docStatus'[d] = docStatus[d]
                             \/ Exists(d) /\ docStatus'[d] \in {"queued", "cancelled"}
      PROVE  IInv' /\ Quiet
  <2>1. Bystander
    BY <1>1, <1>4 DEF Bystander, Listed
  <2>2. \A d \in Docs : Exists(d)' <=> Exists(d)
    BY <1>4 DEF Exists
  <2>3. JobsInv'
    BY <1>4, <2>2 DEF JobsInv, Listed, IInv
  <2>4. SeenInv' /\ CollectionInv'
    <3>1. \A d \in Docs : \A c \in seen[d] : c.job \in Jobs
      BY DEF IInv, TypeOK, Chunk
    <3> QED BY <1>1, <2>1, <2>2, <3>1 DEF SeenInv, CollectionInv, IInv, Bystander
  <2> QED BY <1>0, <1>1, <2>1, <2>3, <2>4, BystanderRows, BystanderAttempt DEF IInv, Holds
<1>5. CASE BulkFlush \/ BulkAbort
  <2>1. UNCHANGED <<docStatus, jobStatus, jobDoc>>
    BY <1>5 DEF BulkFlush, BulkAbort, docVars, jobVars
  <2> QED BY <1>4, <2>1
<1>6. ASSUME NEW j \in Jobs, Retry(j) \/ Cancel(j) PROVE IInv' /\ Quiet
  <2>1. Listed(j)
    BY <1>6 DEF Retry, Cancel, Live, Listed
  <2>2. Exists(jobDoc[j])
    BY <2>1 DEF IInv, JobsInv
  <2>3. jobStatus \in [Jobs -> JobStates] /\ docStatus \in [Docs -> DocStates]
    BY DEF IInv, TypeOK
  <2>4. PICK to \in {"queued", "cancelled"} : docStatus' = [docStatus EXCEPT ![jobDoc[j]] = to]
    BY <1>6 DEF Retry, Cancel
  <2>5. \A d \in Docs : \/ docStatus'[d] = docStatus[d]
                        \/ Exists(d) /\ docStatus'[d] \in {"queued", "cancelled"}
    BY <2>2, <2>3, <2>4
  <2>6. \/ jobStatus[j] \in {"failed", "cancelled"} /\ jobStatus' = [jobStatus EXCEPT ![j] = "pending"]
        \/ jobStatus[j] \in {"pending", "running"} /\ jobStatus' = [jobStatus EXCEPT ![j] = "cancelled"]
    BY <1>6 DEF Retry, Cancel, Live
  <2>7. jobDoc' = jobDoc
    BY <1>6 DEF Retry, Cancel
  <2>8. \A i \in Jobs : \/ jobStatus'[i] = jobStatus[i]
                        \/ jobStatus[i] \in {"failed", "cancelled"} /\ jobStatus'[i] = "pending"
                        \/ jobStatus[i] \in {"pending", "running"} /\ jobStatus'[i] = "cancelled"
    BY <2>3, <2>6
  <2> QED BY <1>4, <2>5, <2>7, <2>8
<1> QED BY <1>2, <1>3, <1>5, <1>6 DEF JobHandler

\* The deletion handlers: they wait for the lock, so no attempt is under way
\* when rows or vectors go, and the vectors they remove have no rows.
LEMMA DeleteInv ==
  ASSUME IInv, DeleteArrives \/ DeleteStep
  PROVE  IInv' /\ Quiet
<1>0. TypeOK'
  BY DeleteType DEF IInv
<1> USE DEF TypeOK
<1>1. UNCHANGED <<jobDoc, w, runs>>
  BY DEF DeleteArrives, DeleteStep
<1>2. rows \subseteq Chunk /\ \A c \in Chunk : c.job \in Jobs
  BY DEF IInv, Chunk
<1>3. ASSUME lockq # <<>>, Head(lockq) # Worker PROVE LockInv' /\ AttemptInv' /\ StagedInv'
  BY <1>1, <1>3, NotWorking DEF IInv, LockInv, Holds, StagedInv, Working, YieldPoint
<1>4. ASSUME DeleteArrives PROVE IInv' /\ Quiet
  <2>1. /\ UNCHANGED <<docStatus, jobStatus, rows, vecs, collection>>
        /\ \A d \in Docs : seen'[d] \in {seen[d], RowsOf(d)}
        /\ \E x \in Docs \cup {Collection} : lockq' = Append(lockq, x)
    BY <1>4 DEF DeleteArrives, DeleteRequest, CollectionRequest, docVars, IInv
  <2>2. Bystander
    BY <1>1, <2>1 DEF Bystander, Listed
  <2>3. SeenInv'
    <3>1. \A d \in Docs : \A c \in RowsOf(d) : jobStatus[c.job] # "none" /\ jobDoc[c.job] = d
      BY DEF IInv, RowsOf, RowsInv, Listed
    <3>2. \A d \in Docs : \A c \in seen[d] : jobStatus[c.job] # "none" /\ jobDoc[c.job] = d
      BY DEF IInv, SeenInv
    <3> QED BY <1>1, <2>1, <3>1, <3>2 DEF SeenInv
  <2>4. JobsInv' /\ CollectionInv'
    BY <1>1, <2>1 DEF JobsInv, CollectionInv, IInv, Listed, Exists
  <2>5. Holds(Worker) => Holds(Worker)'
    BY <2>1 DEF Holds, IInv
  <2> QED BY <1>0, <1>1, <2>2, <2>3, <2>4, <2>5, BystanderRows, BystanderAttempt DEF IInv
<1>5. ASSUME NEW D \in SUBSET Docs, Erase(D), vecs' = vecs, seen' = seen,
             collection' # collection => D = Docs,
             lockq # <<>>, Head(lockq) # Worker
      PROVE  IInv' /\ Quiet
  <2>1. /\ \A d \in Docs : docStatus'[d] = IF d \in D /\ Exists(d) THEN "deleted" ELSE docStatus[d]
        /\ \A j \in Jobs : jobStatus'[j] = IF jobDoc[j] \in D THEN "gone" ELSE jobStatus[j]
        /\ rows' = {c \in rows : jobDoc[c.job] \notin D}
    BY <1>5 DEF Erase, OnSet, IInv
  <2>2. JobsInv'
    BY <1>1, <2>1 DEF JobsInv, IInv, Listed, Exists
  <2>3. RowsInv'
    BY <1>2, <2>1 DEF RowsInv, IInv, Listed
  <2>4. SeenInv'
    <3>1. \A d \in Docs : \A c \in seen[d] : c.job \in Jobs
      BY DEF IInv, Chunk
    <3> QED BY <1>1, <1>5, <2>1, <3>1 DEF SeenInv, IInv
  <2>5. CollectionInv'
    BY <1>5, <2>1 DEF CollectionInv, IInv, Exists
  <2>6. ASSUME NEW d \in D PROVE RowsOf(d)' = {}
    BY <1>1, <2>1 DEF RowsOf
  <2>7. ASSUME NEW d \in Docs \ D PROVE Stale(d)' = Stale(d)
    BY <1>1, <1>2, <2>1, KeptRows DEF Stale, RowsOf
  <2>8. ASSUME NEW d \in Docs \ D
        PROVE  Kept(d)' = Kept(d) /\ (Kept(d) = {} \/ WholeRun(d, Kept(d)))'
    <3>1. Kept(d) = {} \/ WholeRun(d, Kept(d))
      BY DEF IInv, KeptIsWhole
    <3>2. \A c \in Chunk : jobDoc[c.job] = d => (c \in rows' <=> c \in rows)
      BY <1>1, <2>1
    <3>3. \A j \in Jobs : jobDoc[j] = d => jobStatus'[j] = jobStatus[j]
      BY <2>1
    <3> QED BY <1>0, <1>1, <1>5, <3>1, <3>2, <3>3, KeptFrame DEF IInv
  <2>9. KeptIsWhole'
    BY <2>6, <2>8 DEF KeptIsWhole, Kept
  <2>10. ReadyInv'
    <3>1. ASSUME NEW d \in Docs, docStatus'[d] = "ready" PROVE d \notin D /\ docStatus[d] = "ready"
      BY <2>1, <3>1 DEF Exists
    <3>2. ASSUME NEW d \in Docs \ D, docStatus[d] = "ready" PROVE Stale(d) = {} /\ Kept(d) # {}
      BY <3>2 DEF IInv, ReadyInv
    <3> QED BY <2>7, <2>8, <3>1, <3>2 DEF ReadyInv
  <2>11. Quiet
    <3>1. ASSUME NEW d \in D, ~Exists(d) PROVE Kept(d) = {}
      <4>1. ASSUME NEW x \in rows, jobDoc[x.job] = d PROVE FALSE
        BY <1>2, <3>1, <4>1 DEF IInv, RowsInv, JobsInv
      <4> QED BY <4>1 DEF Kept, RowsOf
    <3>2. ASSUME NEW d \in D PROVE Kept(d)' = Kept(d) \/ docStatus'[d] = "deleted"
      <4>1. Kept(d)' = {}
        <5>1. RowsOf(d)' = {}
          BY <2>6
        <5> QED BY <5>1 DEF Kept, Stale
      <4>2. CASE Exists(d)
        BY <2>1, <4>2
      <4>3. CASE ~Exists(d)
        BY <3>1, <4>1, <4>3
      <4> QED BY <4>2, <4>3
    <3>3. ASSUME NEW d \in Docs, docStatus'[d] = "ready" PROVE docStatus[d] = "ready"
      BY <2>1, <3>3
    <3> QED BY <2>8, <3>2, <3>3 DEF Quiet
  <2> QED BY <1>0, <1>3, <1>5, <2>2, <2>3, <2>4, <2>5, <2>9, <2>10, <2>11 DEF IInv
<1>6. ASSUME UNCHANGED <<docStatus, jobStatus, rows, collection>>,
             vecs \cap rows \subseteq vecs', \A d \in Docs : seen'[d] \in {{}, seen[d]},
             lockq # <<>>, Head(lockq) # Worker
      PROVE  IInv' /\ Quiet
  <2>1. JobsInv' /\ RowsInv' /\ SeenInv' /\ CollectionInv'
    <3>1. JobsInv /\ RowsInv /\ SeenInv /\ CollectionInv
      BY DEF IInv
    <3>2. JobsInv' /\ RowsInv'
      BY <1>1, <1>6, <3>1 DEF JobsInv, RowsInv, Listed, Exists
    <3>3. SeenInv'
      BY <1>1, <1>6, <3>1 DEF SeenInv
    <3>4. CollectionInv'
      BY <1>6, <3>1 DEF CollectionInv, Exists
    <3> QED BY <3>2, <3>3, <3>4
  <2>2. ASSUME NEW d \in Docs
        PROVE  Kept(d)' = Kept(d) /\ (Kept(d) = {} \/ WholeRun(d, Kept(d)))'
    <3>1. Kept(d) = {} \/ WholeRun(d, Kept(d))
      BY DEF IInv, KeptIsWhole
    <3> QED BY <1>0, <1>1, <1>6, <3>1, KeptFrame DEF IInv
  <2>3. \A d \in Docs : Stale(d)' = Stale(d)
    BY <1>1, <1>6 DEF Stale, RowsOf
  <2>4. KeptIsWhole' /\ ReadyInv'
    BY <1>6, <2>2, <2>3 DEF KeptIsWhole, ReadyInv, IInv
  <2>5. Quiet
    BY <1>6, <2>2 DEF Quiet
  <2> QED BY <1>0, <1>3, <1>6, <2>1, <2>4, <2>5 DEF IInv
<1>7. ASSUME NEW d \in Docs, DeleteCommit(d) PROVE IInv' /\ Quiet
  BY <1>5, <1>7, DocsAssumption DEF DeleteCommit, Holds
<1>8. CASE CollectionCommit
  BY <1>5, <1>8, LockAssumption DEF CollectionCommit, Holds
<1>9. ASSUME NEW d \in Docs, DeleteVectors(d) PROVE IInv' /\ Quiet
  <2>1. seen[d] \cap rows = {}
    <3>1. ~Exists(d)
      BY <1>9 DEF DeleteVectors, Exists
    <3>2. \A c \in seen[d] : jobDoc[c.job] = d
      BY DEF IInv, SeenInv
    <3>3. \A c \in rows : Exists(jobDoc[c.job])
      BY <1>2 DEF IInv, RowsInv, JobsInv
    <3> QED BY <3>1, <3>2, <3>3
  <2> QED BY <1>6, <1>9, <2>1, DocsAssumption
          DEF DeleteVectors, Holds, VecsWithout, docVars, IInv
<1>10. CASE CollectionVectors
  <2>1. rows = {}
    BY <1>2, <1>10 DEF CollectionVectors, IInv, CollectionInv, RowsInv, JobsInv
  <2> QED BY <1>6, <1>10, <2>1, LockAssumption DEF CollectionVectors, Holds, docVars
<1>11. CASE DeleteFails
  BY <1>6, <1>11 DEF DeleteFails, docVars
<1> QED BY <1>4, <1>7, <1>8, <1>9, <1>10, <1>11 DEF DeleteStep

------------------------------------------------------------------------------
(* Steps of the worker.                                                    *)

\* A worker at a job works for an existing document, on a job that was created.
LEMMA AtWork ==
  ASSUME IInv, w.pc \in Working \/ Begin
  PROVE  w.job \in Jobs /\ Listed(w.job) /\ jobDoc[w.job] \in Docs /\ Exists(jobDoc[w.job])
BY DEF IInv, TypeOK, JobsInv, AttemptInv, Listed, Working, Begin

\* The worker moves only its job, between created states, and its document,
\* between existing ones.
LEMMA WorkerTables ==
  ASSUME IInv, WorkerStep
  PROVE  /\ \A j \in Jobs : Listed(j)' <=> Listed(j)
         /\ \A j \in Jobs : j # w.job => jobStatus'[j] = jobStatus[j] /\ runs'[j] = runs[j]
         /\ \A d \in Docs : Exists(d)' <=> Exists(d)
         /\ \A d \in Docs : d # jobDoc[w.job] => docStatus'[d] = docStatus[d]
         /\ JobsInv' /\ SeenInv' /\ CollectionInv'
<1> DEFINE d == jobDoc[w.job]
<1>1. UNCHANGED <<jobDoc, seen, collection>>
  BY SMTT(30) DEF WorkerStep
<1>2. \/ UNCHANGED <<jobStatus, docStatus>>
      \/ /\ w.pc \in Working \/ Begin
         /\ \E to \in {"running", "completed", "failed"} : jobStatus' \in {jobStatus, [jobStatus EXCEPT ![w.job] = to]}
         /\ \E to \in DocStates \ {"absent", "deleted"} : docStatus' = [docStatus EXCEPT ![d] = to]
  BY DEF WorkerStep, Refill, Pop, Skip, Begin, CleanVectors, CleanRows, Parsed, Loaded, TakeBatch,
         NoticeCancel, Undo, StoreRows, StoreVectors, Indexed, Finish, Supersede, Raise, FailVectors,
         FailRows, Blocked, Advance, tables, docVars, Working, DocStates
<1>3. /\ \A j \in Jobs : Listed(j)' <=> Listed(j)
      /\ \A j \in Jobs : j # w.job => jobStatus'[j] = jobStatus[j]
      /\ \A e \in Docs : Exists(e)' <=> Exists(e)
      /\ \A e \in Docs : e # d => docStatus'[e] = docStatus[e]
  <2>1. CASE UNCHANGED <<jobStatus, docStatus>>
    BY <2>1 DEF Listed, Exists
  <2>2. CASE /\ w.pc \in Working \/ Begin
             /\ \E to \in {"running", "completed", "failed"} : jobStatus' \in {jobStatus, [jobStatus EXCEPT ![w.job] = to]}
             /\ \E to \in DocStates \ {"absent", "deleted"} : docStatus' = [docStatus EXCEPT ![d] = to]
    <3>1. w.job \in Jobs /\ Listed(w.job) /\ d \in Docs /\ Exists(d)
      BY <2>2, AtWork
    <3>2. jobStatus \in [Jobs -> JobStates] /\ docStatus \in [Docs -> DocStates]
      BY DEF IInv, TypeOK
    <3> HIDE DEF d
    <3> QED BY <2>2, <3>1, <3>2 DEF Listed, Exists, DocStates
  <2> QED BY <1>2, <2>1, <2>2
<1>4. \A j \in Jobs : j # w.job => runs'[j] = runs[j]
  <2>1. UNCHANGED runs \/ runs' = [runs EXCEPT ![w.job] = @ + 1]
    BY DEF WorkerStep, Refill, Pop, Skip, Begin, CleanVectors, CleanRows, Parsed, Loaded, TakeBatch,
           NoticeCancel, Undo, StoreRows, StoreVectors, Indexed, Finish, Supersede, Raise,
           FailVectors, FailRows, Blocked, Advance
  <2> QED BY <2>1 DEF IInv, TypeOK
<1>5. JobsInv'
  BY <1>1, <1>3 DEF IInv, JobsInv
<1>6. CollectionInv'
  BY <1>1, <1>3 DEF IInv, CollectionInv
<1>7. SeenInv'
  <2>1. \A e \in Docs : \A c \in seen[e] : c.job \in Jobs
    BY DEF IInv, TypeOK, Chunk
  <2>2. \A j \in Jobs : jobStatus[j] # "none" => jobStatus'[j] # "none"
    BY <1>2, <1>3 DEF Listed, IInv, TypeOK
  <2> QED BY <1>1, <2>1, <2>2 DEF IInv, SeenInv
<1> QED BY <1>3, <1>4, <1>5, <1>6, <1>7

\* Steps that move the worker, its job and its document, and no chunk.
LEMMA WorkerBystander ==
  ASSUME IInv, WorkerStep,
         Refill \/ Pop \/ Skip \/ Blocked \/ Begin \/ Parsed \/ Loaded \/ TakeBatch \/ Indexed \/ Raise
  PROVE  Bystander
<1>1. UNCHANGED <<rows, vecs, jobDoc>>
  BY DEF WorkerStep, Refill, Pop, Skip, Blocked, Begin, Parsed, Loaded, TakeBatch, Indexed, Raise,
         Advance, tables
<1>2. \/ UNCHANGED <<jobStatus, runs>>
      \/ jobStatus[w.job] = "pending" /\ jobStatus' = [jobStatus EXCEPT ![w.job] = "running"]
  BY DEF Refill, Pop, Skip, Blocked, Begin, Parsed, Loaded, TakeBatch, Indexed, Raise, Advance, tables
<1>3. \/ UNCHANGED docStatus
      \/ \E to \in {"parsing", "chunking", "embedding", "indexing"} :
           docStatus' = [docStatus EXCEPT ![jobDoc[w.job]] = to]
  BY DEF Refill, Pop, Skip, Blocked, Begin, Parsed, Loaded, TakeBatch, Indexed, Raise, Advance,
         tables, docVars
<1>4. jobStatus \in [Jobs -> JobStates] /\ docStatus \in [Docs -> DocStates]
  BY DEF IInv, TypeOK
<1>5. \A j \in Jobs : Listed(j) => Listed(j)'
  BY WorkerTables
<1>6. \A j \in Jobs : jobStatus[j] = "completed" => runs'[j] = runs[j]
  BY <1>2, WorkerTables
<1> QED BY <1>1, <1>2, <1>3, <1>4, <1>5, <1>6 DEF Bystander

\* Between attempts.
LEMMA IdleInv ==
  ASSUME IInv, WorkerStep, Refill \/ Pop \/ Skip \/ Blocked
  PROVE  IInv' /\ Quiet
<1>0. TypeOK'
  BY WorkerType DEF IInv
<1>1. Bystander
  BY WorkerBystander
<1>2. w'.pc \notin Working /\ w'.n = 0
  BY ZenonT(60) DEF IInv, TypeOK, StagedInv, Refill, Pop, Skip, Blocked, BackToLoop, NoTask, Working
<1> QED BY <1>0, <1>1, <1>2, WorkerTables, BystanderRows, NotWorking DEF IInv

\* Stages of an attempt that store nothing.
LEMMA StageInv ==
  ASSUME IInv, WorkerStep, Begin \/ Parsed \/ Loaded \/ TakeBatch \/ Indexed \/ Raise
  PROVE  IInv' /\ Quiet
<1>0. TypeOK'
  BY WorkerType DEF IInv
<1>1. Bystander
  BY WorkerBystander
<1>2. PICK d \in Docs : d = jobDoc[w.job] /\ w.job \in Jobs /\ Listed(w.job)
  BY AtWork DEF Parsed, Loaded, TakeBatch, Indexed, Raise, Advance, Working
<1>3. /\ UNCHANGED <<jobDoc, lockq>> /\ w'.job = w.job /\ w'.n = w.n /\ w'.old = w.old
      /\ w'.pc \in {"clean", "load", "batch", "embed", "finish", "fail"}
  BY ZenonT(60) DEF WorkerStep, Begin, Parsed, Loaded, TakeBatch, Indexed, Raise, Advance, tables, IInv, TypeOK
<1>4. LockInv'
  BY <1>3 DEF IInv, LockInv, Holds, Begin, Parsed, Loaded, TakeBatch, Indexed, Raise, Advance, Working
<1>5. RowsOf(d)' = RowsOf(d) /\ Kept(d)' = Kept(d) /\ Stale(d)' = Stale(d)
  BY <1>0, <1>1, BystanderRows
<1>6. w.n \in Nat /\ Batches[d] \in Nat
  BY <1>2, BatchesAssumption DEF IInv, TypeOK
<1>7. AttemptInv'
  <2>1. jobStatus'[w.job] \in {"pending", "running", "cancelled"}
    <3>1. jobStatus[w.job] \in {"pending", "running", "cancelled"}
      BY DEF IInv, AttemptInv, Begin, Parsed, Loaded, TakeBatch, Indexed, Raise, Advance, Working
    <3> QED BY <1>1, <1>2, <3>1 DEF Bystander
  <2>2. docStatus'[d] # "ready"
    <3>1. CASE Begin
      BY <1>2, <3>1 DEF Begin, IInv, TypeOK
    <3>2. CASE ~Begin
      <4>1. docStatus[d] # "ready"
        BY <1>2, <3>2 DEF IInv, AttemptInv, Parsed, Loaded, TakeBatch, Indexed, Raise, Advance, Working
      <4> QED BY <1>1, <1>2, <4>1 DEF Bystander
    <3> QED BY <3>1, <3>2
  <2>3. w.n <= Batches[d]
    <3>1. CASE Begin
      BY <1>6, <3>1 DEF Begin, IInv, StagedInv
    <3>2. CASE ~Begin
      BY <1>2, <3>2 DEF IInv, AttemptInv, Parsed, Loaded, TakeBatch, Indexed, Raise, Advance, Working
    <3> QED BY <3>1, <3>2
  <2> QED BY <1>2, <1>3, <2>1, <2>2, <2>3 DEF AttemptInv
<1>8. StagedInv'
  <2>1. CASE Begin
    <3>1. w'.pc = "clean" /\ w.n = 0
      BY <2>1 DEF Begin, IInv, StagedInv, TypeOK
    <3> QED BY <1>3, <3>1 DEF StagedInv, Storing
  <2>2. CASE Raise
    <3>1. w'.pc = "fail"
      BY <2>2 DEF Raise, IInv, TypeOK
    <3> QED BY <3>1 DEF StagedInv, Storing
  <2>3. CASE Parsed \/ Loaded \/ TakeBatch \/ Indexed
    <3>1. Staged' = Staged
      BY <1>3, <2>3 DEF Staged, Parsed, Loaded, TakeBatch, Indexed, Advance
    <3>2. w.pc \in {"parse", "load", "batch"}
      BY <2>3 DEF Parsed, Loaded, TakeBatch, Indexed, Advance
    <3>3. w.old = Kept(d) /\ Stale(d) = Staged /\ Staged \subseteq vecs'
      BY <1>1, <1>2, <3>2 DEF IInv, StagedInv, Storing, Bystander
    <3>4. w'.pc \in {"load"} => w.n = 0
      BY <2>3 DEF Parsed, Loaded, TakeBatch, Indexed, Advance, IInv, StagedInv, TypeOK
    <3>5. w'.pc = "embed" => w.n < Batches[d]
      BY <1>2, <2>3 DEF Parsed, Loaded, TakeBatch, Indexed, Advance, HasBatch, IInv, TypeOK
    <3>6. w'.pc = "finish" => w.n = Batches[d] /\ w.n > 0
      <4>1. w.n <= Batches[d]
        BY <1>2, <3>2 DEF IInv, AttemptInv, Working
      <4> QED BY <1>2, <1>6, <2>3, <4>1 DEF Parsed, Loaded, TakeBatch, Indexed, Advance, HasBatch, IInv, TypeOK
    <3>7. w'.pc \in {"load", "batch", "embed", "finish"}
      BY <2>3 DEF Parsed, Loaded, TakeBatch, Indexed, Advance, IInv, TypeOK
    <3>8. jobDoc'[w'.job] = d
      BY <1>2, <1>3
    <3> QED BY <1>3, <1>5, <3>1, <3>3, <3>4, <3>5, <3>6, <3>7, <3>8 DEF StagedInv, Storing
  <2> QED BY <2>1, <2>2, <2>3
<1> QED BY <1>0, <1>1, <1>4, <1>7, <1>8, WorkerTables, BystanderRows DEF IInv

\* Steps that store or remove chunks.
Chunks == \/ CleanVectors \/ CleanRows \/ NoticeCancel \/ Undo \/ StoreRows \/ StoreVectors
          \/ Supersede \/ FailVectors \/ FailRows

\* They touch no row of a completed job and take no vector from one; only
\* rows of the attempt's document change, and that document is not announced.
LEMMA ChunksRows ==
  ASSUME IInv, WorkerStep, Chunks
  PROVE  /\ KeptIsWhole' /\ RowsInv' /\ ReadyInv' /\ Quiet
         /\ \A d \in Docs : Kept(d)' = Kept(d)
<1>0. TypeOK'
  BY WorkerType DEF IInv
<1>1. PICK d \in Docs : d = jobDoc[w.job] /\ w.job \in Jobs /\ Listed(w.job)
  BY AtWork DEF Chunks, CleanVectors, CleanRows, NoticeCancel, Undo, StoreRows, StoreVectors,
                Supersede, FailVectors, FailRows, Working
<1>2. rows \subseteq Chunk /\ rows' \subseteq Chunk /\ \A c \in Chunk : c.job \in Jobs
  BY <1>0 DEF IInv, TypeOK, Chunk
<1>3. \A c \in Staged : c.job = w.job
  BY DEF Staged
<1>4. UNCHANGED <<jobDoc, runs>>
  BY DEF WorkerStep, Chunks, CleanVectors, CleanRows, NoticeCancel, Undo, StoreRows, StoreVectors,
         Supersede, FailVectors, FailRows
<1>5. ~Supersede => jobStatus[w.job] \in {"pending", "running", "cancelled"}
  BY DEF IInv, AttemptInv, Chunks, CleanVectors, CleanRows, NoticeCancel, Undo, StoreRows,
         StoreVectors, Supersede, FailVectors, FailRows, Working
<1>6. \/ UNCHANGED jobStatus
      \/ ~Supersede /\ jobStatus' = [jobStatus EXCEPT ![w.job] = "failed"]
  BY DEF Chunks, CleanVectors, CleanRows, NoticeCancel, Undo, StoreRows, StoreVectors,
         Supersede, FailVectors, FailRows
<1>7. \A j \in Jobs : jobStatus'[j] = "completed" <=> jobStatus[j] = "completed"
  BY <1>1, <1>5, <1>6 DEF IInv, TypeOK
<1>8. \A c \in Chunk : (c \in rows' <=> c \in rows)
                       \/ (jobStatus[c.job] # "completed" /\ jobDoc[c.job] = d)
  <2>1. \/ rows' = rows \/ rows' = rows \ Stale(d)
        \/ ~Supersede /\ rows' = rows \ Staged
        \/ ~Supersede /\ rows' = rows \cup {[job |-> w.job, run |-> runs[w.job], batch |-> w.n + 1]}
    BY <1>1 DEF Chunks, CleanVectors, CleanRows, NoticeCancel, Undo, StoreRows, StoreVectors,
           Supersede, FailVectors, FailRows
  <2>2. \A c \in Stale(d) : jobStatus[c.job] # "completed" /\ jobDoc[c.job] = d
    BY KeptRows
  <2> QED BY <1>1, <1>3, <1>5, <2>1, <2>2
<1>9. \A c \in Chunk : jobStatus[c.job] = "completed" /\ c \in rows /\ c \in vecs => c \in vecs'
  <2>1. \/ vecs \subseteq vecs' \/ vecs' = vecs \ Stale(d)
        \/ ~Supersede /\ vecs' = vecs \ Staged
        \/ Supersede /\ vecs' = vecs \ w.old
    BY <1>1 DEF Chunks, CleanVectors, CleanRows, NoticeCancel, Undo, StoreRows, StoreVectors,
           Supersede, FailVectors, FailRows, VecsWithout
  <2>2. \A c \in Stale(d) : jobStatus[c.job] # "completed"
    BY KeptRows
  <2>3. Supersede => w.old \cap rows = {}
    BY DEF Supersede, IInv, AttemptInv, Working
  <2> QED BY <1>1, <1>3, <1>5, <2>1, <2>2, <2>3
<1>10. ASSUME NEW e \in Docs
       PROVE  Kept(e)' = Kept(e) /\ (Kept(e) = {} \/ WholeRun(e, Kept(e)))'
  <2>1. TypeOK /\ (Kept(e) = {} \/ WholeRun(e, Kept(e)))
    BY DEF IInv, KeptIsWhole
  <2> QED BY <1>0, <1>4, <1>7, <1>8, <1>9, <2>1, KeptFrame
<1>11. RowsInv'
  <2>1. \A c \in rows : Listed(c.job)'
    BY <1>2, WorkerTables DEF IInv, RowsInv
  <2>2. \A c \in rows' : c \in rows \/ c.job = w.job
    <3>1. rows' \subseteq rows \/ rows' = rows \cup {[job |-> w.job, run |-> runs[w.job], batch |-> w.n + 1]}
      BY DEF Chunks, CleanVectors, CleanRows, NoticeCancel, Undo, StoreRows, StoreVectors,
             Supersede, FailVectors, FailRows
    <3> QED BY <3>1
  <2>3. ASSUME NEW j \in Jobs, j = w.job PROVE Listed(j)'
    BY <1>1, <2>3, WorkerTables
  <2> QED BY <1>1, <2>1, <2>2, <2>3 DEF RowsInv
<1>12. ReadyInv'
  <2>1. ASSUME NEW e \in Docs, docStatus'[e] = "ready" PROVE Stale(e)' = {} /\ Kept(e)' # {}
    <3>1. (docStatus[e] = "ready" /\ rows' = rows) \/ e # d
      BY <1>1, <2>1 DEF IInv, TypeOK, AttemptInv, Working, Chunks, CleanVectors, CleanRows,
                        NoticeCancel, Undo, StoreRows, StoreVectors, Supersede, FailVectors, FailRows,
                        docVars
    <3>2. docStatus[e] = "ready"
      BY <1>1, <2>1, <3>1, WorkerTables
    <3>3. Stale(e)' = Stale(e)
      <4>1. Stale(e)' = {c \in rows' : jobDoc[c.job] = e /\ jobStatus'[c.job] # "completed"}
        BY <1>4 DEF Stale, RowsOf
      <4> QED BY <1>2, <1>7, <1>8, <3>1, <4>1, KeptRows
    <3> QED BY <1>10, <3>2, <3>3 DEF IInv, ReadyInv
  <2> QED BY <2>1 DEF ReadyInv
<1>13. Quiet
  <2>1. \A e \in Docs : docStatus'[e] = "ready" => docStatus[e] = "ready"
    BY <1>1, WorkerTables DEF IInv, TypeOK, Chunks, CleanVectors, CleanRows, NoticeCancel, Undo,
       StoreRows, StoreVectors, Supersede, FailVectors, FailRows, docVars
  <2> QED BY <1>10, <2>1 DEF Quiet
<1> QED BY <1>10, <1>11, <1>12, <1>13 DEF KeptIsWhole

\* After such a step the worker still knows what its attempt has stored.
LEMMA ChunksInv ==
  ASSUME IInv, WorkerStep, Chunks
  PROVE  IInv' /\ Quiet
<1>0. TypeOK'
  BY WorkerType DEF IInv
<1>1. PICK d \in Docs : d = jobDoc[w.job] /\ w.job \in Jobs /\ Listed(w.job)
  BY AtWork DEF Chunks, CleanVectors, CleanRows, NoticeCancel, Undo, StoreRows, StoreVectors,
                Supersede, FailVectors, FailRows, Working
<1>2. UNCHANGED <<jobDoc, runs>>
  BY DEF WorkerStep, Chunks, CleanVectors, CleanRows, NoticeCancel, Undo, StoreRows, StoreVectors,
         Supersede, FailVectors, FailRows
<1>3. Kept(d)' = Kept(d)
  BY ChunksRows
<1>4. w.n \in Nat /\ Batches[d] \in Nat /\ w.n <= Batches[d]
  BY <1>1, BatchesAssumption DEF IInv, TypeOK, AttemptInv, Chunks, CleanVectors, CleanRows,
     NoticeCancel, Undo, StoreRows, StoreVectors, Supersede, FailVectors, FailRows, Working
<1>5. CASE Undo \/ Supersede \/ FailRows
  <2>1. w'.pc \notin Working /\ w'.n = 0
    BY <1>5 DEF Undo, Supersede, FailRows, BackToLoop, NoTask, Working
  <2> QED BY <1>0, <2>1, ChunksRows, WorkerTables, NotWorking DEF IInv
<1>6. ASSUME ~Undo, ~Supersede, ~FailRows
      PROVE  /\ UNCHANGED <<docStatus, jobStatus, lockq>> /\ w'.job = w.job
             /\ w.pc \in {"clean", "cleanRows", "batch", "embed", "store", "fail"}
  BY <1>6 DEF Chunks, CleanVectors, CleanRows, NoticeCancel, StoreRows, StoreVectors, FailVectors,
              docVars, IInv, TypeOK
<1>7. ASSUME ~Undo, ~Supersede, ~FailRows,
             w'.pc \in {"cleanRows", "parse", "batch", "undo", "store", "failRows"},
             w'.n \in Nat, w'.n <= Batches[d], StagedInv'
      PROVE  IInv' /\ Quiet
  <2>1. LockInv'
    BY <1>6, <1>7 DEF IInv, LockInv, Holds, Working
  <2>2. AttemptInv'
    BY <1>1, <1>2, <1>6, <1>7 DEF IInv, AttemptInv, Working
  <2> QED BY <1>0, <1>7, <2>1, <2>2, ChunksRows, WorkerTables DEF IInv
<1>8. Stale(d)' = {c \in rows' : jobDoc[c.job] = d /\ jobStatus'[c.job] # "completed"}
  BY <1>2 DEF Stale, RowsOf
<1>9. CASE CleanVectors
  <2>1. w' = [w EXCEPT !.old = RowsOf(d) \ Stale(d), !.pc = IF Stale(d) = {} THEN "parse" ELSE "cleanRows"]
    BY <1>1, <1>9 DEF CleanVectors
  <2>2. w.n = 0 /\ w'.n = 0 /\ w'.old = Kept(d) /\ w'.job = w.job
        /\ w'.pc = IF Stale(d) = {} THEN "parse" ELSE "cleanRows"
    BY <1>9, <2>1 DEF CleanVectors, IInv, TypeOK, StagedInv, Kept, Stale
  <2>3. Stale(d)' = Stale(d)
    BY <1>2, <1>9 DEF Stale, RowsOf, CleanVectors, docVars
  <2>4. Staged' = {}
    BY <2>2 DEF Staged
  <2>5. StagedInv'
    BY <1>1, <1>2, <1>3, <2>2, <2>3, <2>4 DEF StagedInv, Storing
  <2> QED BY <1>4, <1>7, <1>9, <2>2, <2>5 DEF CleanVectors, Undo, Supersede, FailRows
<1>10. CASE CleanRows
  <2>1. w' = [w EXCEPT !.pc = "parse"] /\ rows' = rows \ Stale(d) /\ jobStatus' = jobStatus
    BY <1>1, <1>10 DEF CleanRows
  <2>2. w.n = 0 /\ w'.n = 0 /\ w'.old = w.old /\ w'.job = w.job /\ w'.pc = "parse"
    BY <1>10, <2>1 DEF CleanRows, IInv, TypeOK, StagedInv
  <2>3. Stale(d)' = {}
    BY <1>8, <2>1, KeptRows
  <2>4. Staged' = {}
    BY <2>2 DEF Staged
  <2>5. w.old = Kept(d)
    BY <1>1, <1>10 DEF CleanRows, IInv, StagedInv, Storing
  <2>6. StagedInv'
    BY <1>1, <1>2, <1>3, <2>2, <2>3, <2>4, <2>5 DEF StagedInv, Storing
  <2> QED BY <1>4, <1>7, <1>10, <2>2, <2>6 DEF CleanRows, Undo, Supersede, FailRows
<1>11. CASE NoticeCancel \/ FailVectors
  <2>1. w'.pc \in {"undo", "failRows"} /\ w'.n = w.n
    BY <1>11 DEF NoticeCancel, FailVectors, IInv, TypeOK
  <2>2. StagedInv'
    BY <2>1 DEF StagedInv, Storing
  <2> QED BY <1>4, <1>7, <1>11, <2>1, <2>2 DEF NoticeCancel, FailVectors, Undo, Supersede, FailRows
<1>12. CASE StoreRows
  <2> DEFINE c == [job |-> w.job, run |-> runs[w.job], batch |-> w.n + 1]
  <2>1. w.n + 1 \in Nat /\ 1..(w.n + 1) = 1..w.n \cup {w.n + 1} /\ w.n + 1 # 0
    BY <1>4
  <2>2. w' = [w EXCEPT !.pc = "store", !.n = w.n + 1] /\ rows' = rows \cup {c} /\ jobStatus' = jobStatus
        /\ vecs' = vecs
    BY <1>12 DEF StoreRows
  <2>3. w'.pc = "store" /\ w'.n = w.n + 1 /\ w'.job = w.job /\ w'.old = w.old
    BY <2>2 DEF IInv, TypeOK
  <2>4. w.old = Kept(d) /\ Stale(d) = Staged /\ Staged \subseteq vecs /\ w.n < Batches[d]
    BY <1>1, <1>12 DEF StoreRows, IInv, StagedInv, Storing
  <2>5. Staged' = Staged \cup {c}
    BY <1>2, <2>1, <2>3 DEF Staged
  <2>6. jobStatus[w.job] # "completed" /\ c.job = w.job
    BY <1>12 DEF StoreRows, IInv, AttemptInv, Working
  <2>7. Stale(d)' = Staged'
    <3>1. Stale(d)' = Stale(d) \cup {c}
      BY <1>1, <1>8, <2>2, <2>6, KeptRows
    <3> QED BY <2>4, <2>5, <3>1
  <2>8. w.n + 1 <= Batches[d]
    BY <1>4, <2>4
  <2>9. \A x \in Staged' : x.batch # w.n + 1 => x \in vecs'
    <3> HIDE DEF c
    <3>1. c.batch = w.n + 1
      BY DEF c
    <3> QED BY <2>2, <2>4, <2>5, <3>1
  <2>10. StagedInv'
    <3>1. w'.n > 0
      BY <1>4, <2>3
    <3> QED BY <1>1, <1>2, <1>3, <2>3, <2>4, <2>7, <2>9, <3>1 DEF StagedInv, Storing
  <2> QED BY <1>7, <1>12, <2>1, <2>3, <2>8, <2>10 DEF StoreRows, Undo, Supersede, FailRows
<1>13. CASE StoreVectors
  <2> DEFINE c == [job |-> w.job, run |-> runs[w.job], batch |-> w.n]
  <2>1. w' = [w EXCEPT !.pc = "batch"] /\ vecs' = vecs \cup {c} /\ UNCHANGED <<rows, jobStatus>>
    BY <1>13 DEF StoreVectors
  <2>2. w'.pc = "batch" /\ w'.n = w.n /\ w'.job = w.job /\ w'.old = w.old
    BY <2>1 DEF IInv, TypeOK
  <2>3. w.old = Kept(d) /\ Stale(d) = Staged /\ \A x \in Staged : x.batch # w.n => x \in vecs
    BY <1>1, <1>13 DEF StoreVectors, IInv, StagedInv, Storing
  <2>4. Staged' = Staged /\ Stale(d)' = Stale(d)
    BY <1>2, <2>1, <2>2 DEF Staged, Stale, RowsOf
  <2>5. \A x \in Staged : x.batch = w.n => x = c
    BY DEF Staged
  <2>6. Staged' \subseteq vecs'
    BY <2>1, <2>3, <2>4, <2>5
  <2>7. StagedInv'
    BY <1>1, <1>2, <1>3, <2>2, <2>3, <2>4, <2>6 DEF StagedInv, Storing
  <2> QED BY <1>4, <1>7, <1>13, <2>2, <2>7 DEF StoreVectors, Undo, Supersede, FailRows
<1> QED BY <1>5, <1>9, <1>10, <1>11, <1>12, <1>13 DEF Chunks

\* Finishing publishes the attempt: what the document keeps is its whole run.
LEMMA FinishKeeps ==
  ASSUME IInv, WorkerStep, Finish
  PROVE  \E d \in Docs : \E j \in Jobs :
           /\ d = jobDoc[w.job] /\ j = w.job /\ docStatus'[d] = "ready"
           /\ RowsOf(d)' = RunOf(j) /\ Kept(d)' = RunOf(j) /\ Stale(d)' = {}
           /\ RunOf(j) # {} /\ RunOf(j) \subseteq vecs
           /\ jobDoc'[j] = d /\ jobStatus'[j] = "completed" /\ RunOf(j)' = RunOf(j)
           /\ \A e \in Docs \ {d} : RowsOf(e)' = RowsOf(e) /\ Stale(e)' = Stale(e)
                                    /\ Kept(e)' = Kept(e) /\ (Kept(e) = {} \/ WholeRun(e, Kept(e)))'
<1>0. TypeOK'
  BY WorkerType DEF IInv
<1>1. PICK d \in Docs, j \in Jobs : d = jobDoc[w.job] /\ j = w.job /\ Listed(j)
  BY AtWork DEF Finish, Working
<1>2. UNCHANGED <<jobDoc, runs, vecs>> /\ rows' = rows \ w.old
      /\ docStatus' = [docStatus EXCEPT ![d] = "ready"]
      /\ jobStatus' = [jobStatus EXCEPT ![j] = "completed"]
  BY <1>1 DEF WorkerStep, Finish
<1>3. /\ \A i \in Jobs : jobStatus'[i] = IF i = j THEN "completed" ELSE jobStatus[i]
      /\ docStatus'[d] = "ready"
  BY <1>2 DEF IInv, TypeOK
<1>4. w.old = Kept(d) /\ Stale(d) = Staged /\ Staged \subseteq vecs /\ w.n = Batches[d] /\ w.n > 0
  BY <1>1 DEF Finish, IInv, StagedInv, Storing
<1>5. rows \subseteq Chunk /\ rows' \subseteq Chunk /\ \A c \in Chunk : c.job \in Jobs
  BY <1>0 DEF IInv, TypeOK, Chunk
<1>6. RunOf(j) = Staged /\ RunOf(j)' = RunOf(j)
  BY <1>1, <1>2, <1>4 DEF RunOf, Staged
<1>7. RunOf(j) # {} /\ \A c \in RunOf(j) : c.job = j
  <2>1. 1 \in 1..Batches[d]
    BY <1>4, BatchesAssumption
  <2>2. [job |-> j, run |-> runs[j], batch |-> 1] \in RunOf(j)
    BY <1>1, <2>1 DEF RunOf
  <2>3. \A c \in RunOf(j) : c.job = j
    BY DEF RunOf
  <2> QED BY <2>2, <2>3
<1>8. Kept(d) \cap Stale(d) = {} /\ Kept(d) \cup Stale(d) = RowsOf(d)
  BY KeptRows
<1>9. RowsOf(d)' = RunOf(j)
  <2>1. RowsOf(d)' = RowsOf(d) \ w.old
    BY <1>2 DEF RowsOf
  <2> QED BY <1>4, <1>6, <1>8, <2>1
<1>10. Stale(d)' = {}
  <2>1. Stale(d)' = {c \in RowsOf(d)' : jobStatus'[c.job] # "completed"}
    BY DEF Stale
  <2> QED BY <1>3, <1>7, <1>9, <2>1
<1>11. Kept(d)' = RunOf(j)
  BY <1>9, <1>10 DEF Kept, Stale
<1>12. ASSUME NEW e \in Docs \ {d}
       PROVE  RowsOf(e)' = RowsOf(e) /\ Stale(e)' = Stale(e)
              /\ Kept(e)' = Kept(e) /\ (Kept(e) = {} \/ WholeRun(e, Kept(e)))'
  <2>1. \A c \in Chunk : jobDoc[c.job] = e => (c \in rows' <=> c \in rows)
    <3>1. \A c \in w.old : jobDoc[c.job] = d
      BY <1>4, KeptRows
    <3> QED BY <1>2, <3>1
  <2>2. \A i \in Jobs : jobDoc[i] = e => jobStatus'[i] = jobStatus[i]
    BY <1>1, <1>3
  <2>3. TypeOK /\ (Kept(e) = {} \/ WholeRun(e, Kept(e)))
    BY DEF IInv, KeptIsWhole
  <2>4. Kept(e)' = Kept(e) /\ (Kept(e) = {} \/ WholeRun(e, Kept(e)))'
    BY <1>0, <1>2, <2>1, <2>2, <2>3, KeptFrame
  <2>5. RowsOf(e)' = RowsOf(e)
    BY <1>2, <1>5, <2>1 DEF RowsOf
  <2>6. Stale(e)' = {c \in RowsOf(e)' : jobStatus'[c.job] # "completed"}
    BY DEF Stale
  <2>7. Stale(e)' = Stale(e)
    BY <1>5, <2>2, <2>5, <2>6 DEF Stale, RowsOf
  <2> QED BY <2>4, <2>5, <2>7
<1> QED BY <1>1, <1>2, <1>3, <1>4, <1>6, <1>7, <1>9, <1>10, <1>11, <1>12

\* The commit that publishes an attempt.
LEMMA FinishInv ==
  ASSUME IInv, WorkerStep, Finish
  PROVE  IInv'
<1>0. TypeOK'
  BY WorkerType DEF IInv
<1>1. PICK d \in Docs, j \in Jobs :
           /\ d = jobDoc[w.job] /\ j = w.job /\ docStatus'[d] = "ready"
           /\ RowsOf(d)' = RunOf(j) /\ Kept(d)' = RunOf(j) /\ Stale(d)' = {}
           /\ RunOf(j) # {} /\ RunOf(j) \subseteq vecs
           /\ jobDoc'[j] = d /\ jobStatus'[j] = "completed" /\ RunOf(j)' = RunOf(j)
           /\ \A e \in Docs \ {d} : RowsOf(e)' = RowsOf(e) /\ Stale(e)' = Stale(e)
                                    /\ Kept(e)' = Kept(e) /\ (Kept(e) = {} \/ WholeRun(e, Kept(e)))'
  BY FinishKeeps
<1>2. UNCHANGED <<vecs, lockq, jobDoc>> /\ rows' = rows \ w.old
      /\ w'.pc = "supersede" /\ w'.old = w.old /\ w'.n = w.n /\ w'.job = w.job
  BY DEF WorkerStep, Finish, IInv, TypeOK
<1>3. KeptIsWhole'
  <2>1. WholeRun(d, Kept(d))'
    BY <1>1, <1>2 DEF WholeRun
  <2> QED BY <1>1, <2>1 DEF KeptIsWhole
<1>4. ReadyInv'
  BY <1>1, WorkerTables DEF IInv, ReadyInv
<1>5. RowsInv'
  <2>1. rows \subseteq Chunk /\ \A c \in Chunk : c.job \in Jobs
    BY DEF IInv, TypeOK, Chunk
  <2>2. \A c \in rows : Listed(c.job)'
    BY <2>1, WorkerTables DEF IInv, RowsInv
  <2> QED BY <1>2, <2>2 DEF RowsInv
<1>6. LockInv'
  BY <1>2 DEF IInv, LockInv, Holds, Finish, Working
<1>7. AttemptInv'
  <2>1. w.n <= Batches[jobDoc[w.job]]
    BY DEF IInv, AttemptInv, Finish, Working
  <2> QED BY <1>1, <1>2, <2>1 DEF AttemptInv
<1>8. StagedInv'
  BY <1>2 DEF StagedInv, Storing
<1> QED BY <1>0, <1>3, <1>4, <1>5, <1>6, <1>7, <1>8, WorkerTables DEF IInv

------------------------------------------------------------------------------
(* The invariant and what follows from it.                                 *)

\* Nothing is stored and nobody works before the first start.
LEMMA InitInv == Init => IInv
<1> SUFFICES ASSUME Init PROVE IInv
  OBVIOUS
<1>1. w \in [pc : YieldPoint \cup Working, job : Jobs \cup {0}, n : Nat,
             old : SUBSET Chunk, err : {"none", "cancelled", "failed"}]
      /\ w.pc = "off" /\ w.n = 0
  BY DEF Init, NoTask, YieldPoint
<1>2. runs \in [Jobs -> 0..MaxRuns] /\ spent \in Nat
  BY BoundsAssumption DEF Init
<1>3. TypeOK
  <2>1. /\ docStatus \in [Docs -> DocStates] /\ docErr \in [Docs -> {"none", "cancelled", "failed"}]
        /\ jobStatus \in [Jobs -> JobStates] /\ jobDoc \in [Jobs -> Docs \cup {NoDoc}]
        /\ jobPrio \in [Jobs -> {3, 4}] /\ seen \in [Docs -> SUBSET Chunk]
    BY DEF Init, DocStates, JobStates
  <2>2. rows = {} /\ vecs = {} /\ collection = "live" /\ up = FALSE /\ writeLock = FALSE
    BY DEF Init
  <2>3. queue \in Seq(Jobs) /\ lockq \in Seq(Docs \cup {Worker, Collection})
    BY DEF Init
  <2> QED BY <1>1, <1>2, <2>1, <2>2, <2>3 DEF TypeOK
<1>4. \A d \in Docs : Kept(d) = {}
  BY KeptRows DEF Init
<1> QED BY <1>1, <1>3, <1>4 DEF Init, IInv, LockInv, JobsInv, RowsInv, SeenInv, CollectionInv, AttemptInv,
          StagedInv, Storing, KeptIsWhole, ReadyInv, Listed, Working, Exists

\* Every step keeps the invariant, and only finishing an attempt adds to what
\* a document keeps.
LEMMA StepInv == IInv /\ [Next]_vars => IInv' /\ (Quiet \/ (WorkerStep /\ Finish))
<1> SUFFICES ASSUME IInv, [Next]_vars PROVE IInv' /\ (Quiet \/ (WorkerStep /\ Finish))
  OBVIOUS
<1>1. CASE Start
  BY <1>1, StartInv
<1>2. CASE StartFails \/ Stop \/ Crash
  BY <1>2, ProcessInv
<1>3. CASE WorkerStep
  <2>1. CASE Refill \/ Pop \/ Skip \/ Blocked
    BY <1>3, <2>1, IdleInv
  <2>2. CASE Begin \/ Parsed \/ Loaded \/ TakeBatch \/ Indexed \/ Raise
    BY <1>3, <2>2, StageInv
  <2>3. CASE Chunks
    BY <1>3, <2>3, ChunksInv
  <2>4. CASE Finish
    BY <1>3, <2>4, FinishInv
  <2> QED BY <1>3, <2>1, <2>2, <2>3, <2>4 DEF WorkerStep, Chunks
<1>4. CASE JobHandler
  BY <1>4, HandlerInv
<1>5. CASE DeleteArrives \/ DeleteStep
  BY <1>5, DeleteInv
<1>6. CASE UNCHANGED vars
  <2>1. UNCHANGED <<docStatus, docErr, jobStatus, jobDoc, jobPrio, rows, vecs, collection, up,
                    queue, w, lockq, seen, writeLock, runs, spent>>
    BY <1>6 DEF vars, docVars, jobVars, procVars
  <2>2. TypeOK'
    BY <2>1 DEF IInv, TypeOK
  <2>3. Bystander
    BY <2>1 DEF Bystander, Listed
  <2>4. JobsInv' /\ SeenInv' /\ CollectionInv'
    BY <2>1 DEF IInv, JobsInv, SeenInv, CollectionInv, Listed, Exists
  <2> QED BY <2>1, <2>2, <2>3, <2>4, BystanderRows, BystanderAttempt DEF IInv, Holds
<1> QED BY <1>1, <1>2, <1>3, <1>4, <1>5, <1>6 DEF Next

\* The inductive invariant holds in every reachable state.
THEOREM Invariance == Spec => []IInv
BY InitInv, StepInv, PTL DEF Spec

-------------------------------------------------------------------------------
(* What the invariant gives.                                               *)

\* Every variable keeps its shape, whatever the bounds.
THEOREM TypeCorrect == Spec => []TypeOK
BY Invariance, PTL DEF IInv

\* What a ready document has is what it keeps.
ReadyKept ==
  \A d \in Docs : docStatus[d] = "ready" =>
    RowsOf(d) = Kept(d) /\ Kept(d) # {} /\ WholeRun(d, Kept(d)) /\ Kept(d) \subseteq vecs
LEMMA ReadyKeeps == IInv => ReadyKept
<1> SUFFICES ASSUME IInv, NEW d \in Docs, docStatus[d] = "ready"
             PROVE  RowsOf(d) = Kept(d) /\ Kept(d) # {} /\ WholeRun(d, Kept(d)) /\ Kept(d) \subseteq vecs
  BY DEF ReadyKept
<1>1. Stale(d) = {} /\ Kept(d) # {} /\ WholeRun(d, Kept(d))
  BY DEF IInv, ReadyInv, KeptIsWhole
<1> QED BY <1>1, KeptRows DEF WholeRun

\* A document is ready only with the whole of one completed attempt, every
\* chunk of it with its vector, through every crash, cancellation and failure.
THEOREM ReadyWhole == Spec => []ReadyIsWhole
<1>1. IInv => ReadyIsWhole
  BY ReadyKeeps DEF ReadyKept, ReadyIsWhole
<1> QED BY <1>1, Invariance, PTL

\* Deletion and processing exclude each other, and a deletion leaves neither
\* rows nor live jobs.
THEOREM DeletedGone == Spec => []DeletedIsGone
<1>1. ASSUME IInv, NEW d \in Docs, docStatus[d] = "deleted"
      PROVE  RowsOf(d) = {} /\ LiveFor(d) = {} /\ ~(w.pc \in Working /\ jobDoc[w.job] = d)
  <2>1. ~Exists(d)
    BY <1>1 DEF Exists
  <2>2. \A c \in rows : c.job \in Jobs
    BY <1>1 DEF IInv, TypeOK, Chunk
  <2>3. RowsOf(d) = {}
    BY <1>1, <2>1, <2>2 DEF IInv, RowsInv, JobsInv, RowsOf
  <2>4. LiveFor(d) = {}
    BY <1>1, <2>1 DEF IInv, JobsInv, LiveFor, Live, Listed
  <2>5. ~(w.pc \in Working /\ jobDoc[w.job] = d)
    BY <1>1, <2>1, AtWork
  <2> QED BY <2>3, <2>4, <2>5
<1>2. IInv => DeletedIsGone
  BY <1>1 DEF DeletedIsGone
<1> QED BY <1>2, Invariance, PTL

\* No step takes a document's last indexed content, except its deletion.
THEOREM ContentKept == Spec => NoContentLoss
<1>1. ASSUME IInv, [Next]_vars, NEW d \in Docs, Kept(d) # {}
      PROVE  Kept(d)' # {} \/ docStatus'[d] = "deleted"
  <2>1. CASE Quiet
    BY <1>1, <2>1 DEF Quiet
  <2>2. CASE WorkerStep /\ Finish
    BY <1>1, <2>2, FinishKeeps
  <2> QED BY <1>1, <2>1, <2>2, StepInv
<1>2. IInv /\ [Next]_vars =>
        [\A d \in Docs : Kept(d) # {} => Kept(d)' # {} \/ docStatus'[d] = "deleted"]_vars
  BY <1>1
<1> QED BY <1>2, Invariance, PTL DEF Spec, NoContentLoss

------------------------------------------------------------------------------
(* The refinement.                                                         *)

\* Steps that finish no attempt only withdraw documents from the index.
LEMMA QuietWithdraws ==
  ASSUME IInv, IInv', Quiet
  PROVE  Index!Withdraw({d \in Docs : docStatus[d] = "ready" /\ docStatus'[d] # "ready"})
<1> DEFINE S == {d \in Docs : docStatus[d] = "ready" /\ docStatus'[d] # "ready"}
<1>0. ReadyKept /\ ReadyKept'
  BY ReadyKeeps, PTL
<1>1. ASSUME NEW d \in Docs PROVE Searchable(d)' = IF d \in S THEN {} ELSE Searchable(d)
  <2>1. CASE docStatus'[d] # "ready"
    BY <2>1 DEF Searchable
  <2>2. CASE docStatus'[d] = "ready"
    <3>1. docStatus[d] = "ready" /\ Kept(d)' = Kept(d)
      BY <2>2 DEF Quiet
    <3>2. RowsOf(d) \cap vecs = Kept(d)
      BY <1>0, <3>1 DEF ReadyKept
    <3>3. (RowsOf(d) \cap vecs)' = Kept(d)'
      BY <1>0, <2>2 DEF ReadyKept
    <3> QED BY <2>2, <3>1, <3>2, <3>3 DEF Searchable
  <2> QED BY <2>1, <2>2
<1>2. Shown' = [d \in Docs |-> IF d \in S THEN {} ELSE Shown[d]]
  BY <1>1 DEF Shown
<1> QED BY <1>2 DEF Index!Withdraw

\* Finishing an attempt publishes one revision: the job and its attempt.
LEMMA FinishPublishes ==
  ASSUME IInv, WorkerStep, Finish
  PROVE  \E d \in Docs : Index!Publish(d)
<1>1. PICK d \in Docs, j \in Jobs :
           /\ d = jobDoc[w.job] /\ j = w.job /\ docStatus'[d] = "ready"
           /\ RowsOf(d)' = RunOf(j) /\ RunOf(j) \subseteq vecs
           /\ jobDoc'[j] = d
           /\ \A e \in Docs \ {d} : RowsOf(e)' = RowsOf(e)
  BY FinishKeeps
<1>2. UNCHANGED <<vecs, jobDoc>> /\ \A e \in Docs \ {d} : docStatus'[e] = docStatus[e]
  BY <1>1, WorkerTables DEF WorkerStep, Finish
<1>3. Shown[d] = {}
  <2>1. docStatus[d] # "ready"
    BY <1>1 DEF IInv, AttemptInv, Finish, Working
  <2> QED BY <2>1 DEF Shown, Searchable
<1>4. \A e \in Docs \ {d} : Searchable(e)' = Searchable(e)
  BY <1>1, <1>2 DEF Searchable
<1> DEFINE rev == <<j, runs[j]>>
<1>5. Searchable(d)' = Index!Whole(d, rev)
  <2>1. Searchable(d)' = {<<<<c.job, c.run>>, c.batch>> : c \in RunOf(j)}
    <3>1. RowsOf(d)' \cap vecs' = RunOf(j)
      BY <1>1, <1>2
    <3> QED BY <1>1, <3>1 DEF Searchable
  <2>2. \A b \in 1..Batches[d] : [job |-> j, run |-> runs[j], batch |-> b] \in RunOf(j)
    BY <1>1, <1>2 DEF RunOf
  <2>3. \A c \in RunOf(j) : c.job = j /\ c.run = runs[j] /\ c.batch \in 1..Batches[d]
    BY <1>1, <1>2 DEF RunOf
  <2>4. Searchable(d)' \subseteq Index!Whole(d, rev)
    BY <2>1, <2>3 DEF Index!Whole
  <2>5. Index!Whole(d, rev) \subseteq Searchable(d)'
    <3>1. ASSUME NEW b \in 1..Batches[d] PROVE <<rev, b>> \in Searchable(d)'
      <4> DEFINE c == [job |-> j, run |-> runs[j], batch |-> b]
      <4>1. c \in RunOf(j) /\ <<rev, b>> = <<<<c.job, c.run>>, c.batch>>
        BY <2>2
      <4> QED BY <2>1, <4>1
    <3> QED BY <3>1 DEF Index!Whole
  <2> QED BY <2>4, <2>5
<1>6. Shown' = [Shown EXCEPT ![d] = Index!Whole(d, rev)]
  BY <1>4, <1>5 DEF Shown
<1>7. rev \in Jobs \X (0..MaxRuns)
  BY DEF IInv, TypeOK
<1> QED BY <1>3, <1>6, <1>7 DEF Index!Publish

\* The tables implement the abstract index: a search sees nothing or the whole
\* of one revision of a document, published and withdrawn at once.
THEOREM Implementation == Spec => ImplementsIndex
<1>1. Init => Index!Init
  BY DEF Init, Index!Init, Shown, Searchable
<1>2. IInv /\ IInv' /\ [Next]_vars => [Index!Next]_Shown
  <2> SUFFICES ASSUME IInv, IInv', [Next]_vars PROVE Index!Next
    OBVIOUS
  <2>1. CASE Quiet
    BY <2>1, QuietWithdraws DEF Index!Next
  <2>2. CASE WorkerStep /\ Finish
    BY <2>2, FinishPublishes DEF Index!Next
  <2> QED BY <2>1, <2>2, StepInv
<1> QED BY <1>1, <1>2, Invariance, PTL DEF Spec, ImplementsIndex, Index!Spec

------------------------------------------------------------------------------
(* No document is stranded.                                                *)

\* Starting the worker: whatever was interrupted or orphaned is pending.
LEMMA StartAttends ==
  ASSUME IInv, AttendedInv, Start
  PROVE  AttendedInv'
<1>1. PICK f \in Bijection(NewJobs(Cardinality(Orphans)), Orphans) :
        LET all == DOMAIN f \cup Live
        IN /\ jobDoc' = Over(f, jobDoc)
           /\ jobStatus' = OnSet("pending", all, jobStatus)
           /\ docStatus' = OnSet("queued", {jobDoc'[j] : j \in all}, docStatus)
  BY DEF Start
<1> DEFINE all == DOMAIN f \cup Live
<1>2. w'.pc = "loop" /\ ~writeLock'
  BY DEF Start, NoTask, AttendedInv
<1>3. /\ DOMAIN f \subseteq Fresh /\ DOMAIN f \subseteq Jobs /\ Live \subseteq Jobs
      /\ \A d \in Orphans : \E j \in DOMAIN f : f[j] = d
  BY <1>1, NewJobsType DEF Bijection, Injection, Surjection, Live
<1>4. \A j \in Jobs : /\ jobDoc'[j] = IF j \in DOMAIN f THEN f[j] ELSE jobDoc[j]
                      /\ jobStatus'[j] = IF j \in all THEN "pending" ELSE jobStatus[j]
  BY <1>1 DEF Over, OnSet, IInv, TypeOK
<1>5. \A d \in Docs : docStatus'[d] = IF d \in {jobDoc'[j] : j \in all} THEN "queued" ELSE docStatus[d]
  BY <1>1 DEF OnSet, IInv, TypeOK
<1>6. \A j \in Live : j \notin DOMAIN f
  BY <1>3 DEF Live, Fresh
<1>7. ASSUME NEW j \in Jobs PROVE jobStatus'[j] # "running"
  BY <1>4 DEF Live
<1>8. ASSUME NEW d \in Docs, docStatus'[d] \in Unsettled
      PROVE  \E j \in Jobs : jobDoc'[j] = d /\ jobStatus'[j] = "pending"
  <2>1. CASE d \in {jobDoc'[j] : j \in all}
    BY <1>3, <1>4, <2>1
  <2>2. CASE d \notin {jobDoc'[j] : j \in all}
    <3>1. docStatus[d] \in Unsettled
      BY <1>5, <1>8, <2>2
    <3>2. CASE LiveFor(d) = {}
      <4>1. PICK j \in DOMAIN f : f[j] = d
        BY <1>3, <3>1, <3>2 DEF Orphans
      <4> QED BY <1>3, <1>4, <2>2, <4>1
    <3>3. CASE LiveFor(d) # {}
      <4>1. PICK j \in Live : jobDoc[j] = d
        BY <3>3 DEF LiveFor
      <4> QED BY <1>3, <1>4, <1>6, <2>2, <4>1
    <3> QED BY <3>2, <3>3
  <2> QED BY <2>1, <2>2
<1>9. NoneStranded'
  BY <1>7, <1>8 DEF NoneStranded, Attended
<1> QED BY <1>2, <1>9 DEF AttendedInv

\* New jobs attend to their documents and leave the others to theirs.
LEMMA AdmitAttends ==
  ASSUME IInv, AttendedInv, NEW S \in SUBSET Docs, NEW prio, Admit(S, prio), w' = w, w.pc \in YieldPoint
  PROVE  NoneStranded'
<1>1. PICK f \in Bijection(NewJobs(Cardinality(S)), S) :
        /\ jobStatus' = OnSet("pending", DOMAIN f, jobStatus)
        /\ jobDoc' = Over(f, jobDoc)
        /\ docStatus' = OnSet("queued", S, docStatus)
  BY DEF Admit
<1>2. /\ DOMAIN f \subseteq Fresh /\ DOMAIN f \subseteq Jobs
      /\ \A d \in S : \E j \in DOMAIN f : f[j] = d
  BY <1>1, NewJobsType DEF Bijection, Injection, Surjection
<1>3. \A j \in Jobs : /\ jobDoc'[j] = IF j \in DOMAIN f THEN f[j] ELSE jobDoc[j]
                      /\ jobStatus'[j] = IF j \in DOMAIN f THEN "pending" ELSE jobStatus[j]
  BY <1>1 DEF Over, OnSet, IInv, TypeOK
<1>4. \A d \in Docs : docStatus'[d] = IF d \in S THEN "queued" ELSE docStatus[d]
  BY <1>1 DEF OnSet, IInv, TypeOK
<1>5. w.pc \in Working => w.job \in Jobs /\ w.job \notin DOMAIN f
  BY <1>2, AtWork DEF Fresh, Listed
<1> SUFFICES ASSUME w.pc # "off"
             PROVE  /\ \A j \in Jobs : jobStatus'[j] = "running" => w.pc \in Working /\ w.job = j
                    /\ \A d \in Docs : docStatus'[d] \in Unsettled => Attended(d)'
  BY DEF NoneStranded
<1>6. ASSUME NEW j \in Jobs, jobStatus'[j] = "running" PROVE w.pc \in Working /\ w.job = j
  BY <1>3, <1>6 DEF AttendedInv, NoneStranded
<1>7. ASSUME NEW d \in Docs, docStatus'[d] \in Unsettled PROVE Attended(d)'
  <2>1. CASE d \in S
    BY <1>2, <1>3, <2>1 DEF Attended
  <2>2. CASE d \notin S
    <3>1. docStatus[d] \in Unsettled
      BY <1>4, <1>7, <2>2
    <3>2. PICK j \in Jobs : jobDoc[j] = d /\ (jobStatus[j] = "pending" \/ (w.pc \in Working /\ w.job = j))
      BY <3>1 DEF AttendedInv, NoneStranded, Attended
    <3>3. j \notin DOMAIN f
      BY <1>2, <1>5, <3>2 DEF Fresh
    <3> QED BY <1>3, <3>2, <3>3 DEF Attended
  <2> QED BY <2>1, <2>2
<1> QED BY <1>6, <1>7

\* The handlers: a retried job is pending, a cancelled one needs no attention.
LEMMA HandlerAttends ==
  ASSUME NoBulk, IInv, AttendedInv, JobHandler
  PROVE  AttendedInv'
<1>1. w' = w /\ ~writeLock
  BY DEF JobHandler, AttendedInv
<1>2. w.pc \in YieldPoint /\ ~writeLock'
  <2>1. CASE Upload
    BY <1>1, <2>1 DEF Upload, LoopFree
  <2>2. ASSUME NEW d \in Docs, Reprocess(d) PROVE w.pc \in YieldPoint /\ ~writeLock'
    BY <1>1, <2>2 DEF Reprocess, LoopFree
  <2>3. ASSUME NEW j \in Jobs, Retry(j) \/ Cancel(j) PROVE w.pc \in YieldPoint /\ ~writeLock'
    <3>1. writeLock' = writeLock /\ w.pc \in YieldPoint
      BY <2>3 DEF Retry, Cancel, LoopFree
    <3> QED BY <1>1, <3>1, Zenon
  <2>4. ~BulkFlush /\ ~BulkCommit /\ ~BulkAbort
    BY <1>1, Zenon DEF BulkFlush, BulkCommit, BulkAbort, Spend, NoBulk
  <2> QED BY <2>1, <2>2, <2>3, <2>4 DEF JobHandler
<1>3. NoneStranded'
  <2>1. CASE Upload
    <3>1. PICK S \in SUBSET Absent : Admit(S, 4)
      BY <2>1 DEF Upload
    <3> QED BY <1>1, <1>2, <3>1, AdmitAttends DEF Absent
  <2>2. ASSUME NEW d \in Docs, Reprocess(d) PROVE NoneStranded'
    BY <1>1, <1>2, <2>2, AdmitAttends DEF Reprocess
  <2>3. ASSUME NEW j \in Jobs, Retry(j) \/ Cancel(j) PROVE NoneStranded'
    <3>1. PICK to \in {"pending", "cancelled"}, st \in {"queued", "cancelled"} :
            /\ jobStatus' = [jobStatus EXCEPT ![j] = to]
            /\ docStatus' = [docStatus EXCEPT ![jobDoc[j]] = st]
            /\ to = "pending" \/ st = "cancelled"
      BY <2>3 DEF Retry, Cancel
    <3>2. jobDoc' = jobDoc /\ jobDoc[j] \in Docs
      BY <2>3 DEF Retry, Cancel, Live, IInv, JobsInv, Listed
    <3>3. /\ jobStatus'[j] = to /\ \A i \in Jobs \ {j} : jobStatus'[i] = jobStatus[i]
          /\ docStatus'[jobDoc[j]] = st /\ \A d \in Docs \ {jobDoc[j]} : docStatus'[d] = docStatus[d]
      BY <3>1, <3>2 DEF IInv, TypeOK
    <3> SUFFICES ASSUME w.pc # "off"
                 PROVE  /\ \A i \in Jobs : jobStatus'[i] = "running" => w.pc \in Working /\ w.job = i
                        /\ \A d \in Docs : docStatus'[d] \in Unsettled => Attended(d)'
      BY <1>1 DEF NoneStranded
    <3>4. ASSUME NEW i \in Jobs, jobStatus'[i] = "running" PROVE w.pc \in Working /\ w.job = i
      BY <3>1, <3>3, <3>4 DEF AttendedInv, NoneStranded
    <3>5. ASSUME NEW d \in Docs, docStatus'[d] \in Unsettled PROVE Attended(d)'
      <4>1. CASE d = jobDoc[j]
        BY <3>1, <3>2, <3>3, <3>5, <4>1 DEF Attended, Unsettled
      <4>2. CASE d # jobDoc[j]
        <5>1. PICK i \in Jobs : jobDoc[i] = d /\ (jobStatus[i] = "pending" \/ (w.pc \in Working /\ w.job = i))
          BY <3>3, <3>5, <4>2 DEF AttendedInv, NoneStranded, Attended
        <5> QED BY <1>1, <3>2, <3>3, <4>2, <5>1 DEF Attended
      <4> QED BY <4>1, <4>2
    <3> QED BY <3>4, <3>5
  <2> QED BY <1>1, <2>1, <2>2, <2>3 DEF JobHandler, BulkFlush, BulkCommit, BulkAbort, Spend, NoBulk
<1> QED BY <1>1, <1>2, <1>3 DEF AttendedInv, YieldPoint

\* Deletions take the jobs of no other document.
LEMMA DeleteAttends ==
  ASSUME IInv, AttendedInv, DeleteArrives \/ DeleteStep
  PROVE  AttendedInv'
<1>1. jobDoc' = jobDoc /\ w' = w /\ writeLock' = writeLock /\ ~writeLock
  BY DEF DeleteArrives, DeleteStep, AttendedInv
<1>2. ASSUME UNCHANGED <<docStatus, jobStatus>> PROVE AttendedInv'
  BY <1>1, <1>2 DEF AttendedInv, NoneStranded, Attended
<1>3. ASSUME NEW D \in SUBSET Docs, Erase(D), w.pc \in YieldPoint PROVE AttendedInv'
  <2>1. /\ \A d \in Docs : docStatus'[d] = IF d \in D /\ Exists(d) THEN "deleted" ELSE docStatus[d]
        /\ \A j \in Jobs : jobStatus'[j] = IF jobDoc[j] \in D THEN "gone" ELSE jobStatus[j]
    BY <1>3 DEF Erase, OnSet, IInv, TypeOK
  <2> SUFFICES ASSUME w.pc # "off"
               PROVE  /\ \A j \in Jobs : jobStatus'[j] = "running" => w.pc \in Working /\ w.job = j
                      /\ \A d \in Docs : docStatus'[d] \in Unsettled => Attended(d)'
    BY <1>1, <1>3 DEF AttendedInv, NoneStranded, YieldPoint
  <2>2. ASSUME NEW j \in Jobs, jobStatus'[j] = "running" PROVE w.pc \in Working /\ w.job = j
    BY <2>1, <2>2 DEF AttendedInv, NoneStranded
  <2>3. ASSUME NEW d \in Docs, docStatus'[d] \in Unsettled PROVE Attended(d)'
    <3>1. d \notin D /\ docStatus[d] \in Unsettled
      BY <2>1, <2>3 DEF Unsettled, Exists
    <3>2. PICK j \in Jobs : jobDoc[j] = d /\ (jobStatus[j] = "pending" \/ (w.pc \in Working /\ w.job = j))
      BY <3>1 DEF AttendedInv, NoneStranded, Attended
    <3> QED BY <1>1, <2>1, <3>1, <3>2 DEF Attended
  <2> QED BY <2>2, <2>3
<1>4. ASSUME NEW d \in Docs, DeleteCommit(d) PROVE AttendedInv'
  BY <1>3, <1>4 DEF DeleteCommit, LoopFree
<1>5. CASE CollectionCommit
  BY <1>3, <1>5 DEF CollectionCommit, LoopFree
<1>6. CASE DeleteArrives
  BY <1>2, <1>6 DEF DeleteArrives, DeleteRequest, CollectionRequest, docVars
<1>7. ASSUME NEW d \in Docs, DeleteVectors(d) PROVE AttendedInv'
  BY <1>2, <1>7 DEF DeleteVectors, docVars
<1>8. CASE CollectionVectors
  BY <1>2, <1>8 DEF CollectionVectors, docVars
<1>9. CASE DeleteFails
  BY <1>1, <1>9 DEF DeleteFails
<1> QED BY <1>4, <1>5, <1>6, <1>7, <1>8, <1>9 DEF DeleteStep

\* The worker at an attempt, at its beginning or in the middle: its document has
\* its attention, the others keep what they had.
LEMMA AttemptAttends ==
  ASSUME IInv, AttendedInv, WorkerStep, w.pc \in Working \/ Begin, w'.pc \in Working, w'.job = w.job
  PROVE  NoneStranded'
<1>1. jobDoc' = jobDoc /\ w.job \in Jobs
  BY AtWork DEF WorkerStep
<1>2. /\ \A j \in Jobs : j # w.job => jobStatus'[j] = jobStatus[j]
      /\ \A d \in Docs : d # jobDoc[w.job] => docStatus'[d] = docStatus[d]
  BY WorkerTables
<1>3. w.pc # "off"
  BY DEF Working, Begin
<1>4. ASSUME NEW j \in Jobs, jobStatus'[j] = "running" PROVE w'.pc \in Working /\ w'.job = j
  BY <1>2, <1>3, <1>4 DEF AttendedInv, NoneStranded
<1>5. ASSUME NEW d \in Docs, docStatus'[d] \in Unsettled PROVE Attended(d)'
  <2>1. CASE d = jobDoc[w.job]
    BY <1>1, <2>1 DEF Attended
  <2>2. CASE d # jobDoc[w.job]
    <3>1. PICK j \in Jobs : jobDoc[j] = d /\ (jobStatus[j] = "pending" \/ (w.pc \in Working /\ w.job = j))
      BY <1>2, <1>3, <1>5, <2>2 DEF AttendedInv, NoneStranded, Attended
    <3> QED BY <1>1, <1>2, <2>2, <3>1 DEF Attended
  <2> QED BY <2>1, <2>2
<1> QED BY <1>4, <1>5 DEF NoneStranded

\* The worker leaves an attempt whose job and document are settled.
LEMMA EndAttends ==
  ASSUME IInv, AttendedInv, WorkerStep, w.pc \in Working,
         jobStatus'[w.job] # "running", docStatus'[jobDoc[w.job]] \notin Unsettled
  PROVE  NoneStranded'
<1>1. jobDoc' = jobDoc /\ w.pc # "off"
  BY DEF WorkerStep, Working
<1>2. /\ \A j \in Jobs : j # w.job => jobStatus'[j] = jobStatus[j]
      /\ \A d \in Docs : d # jobDoc[w.job] => docStatus'[d] = docStatus[d]
  BY WorkerTables
<1>3. ASSUME NEW j \in Jobs PROVE jobStatus'[j] # "running"
  BY <1>1, <1>2 DEF AttendedInv, NoneStranded
<1>4. ASSUME NEW d \in Docs, docStatus'[d] \in Unsettled PROVE Attended(d)'
  <2>1. d # jobDoc[w.job] /\ docStatus[d] \in Unsettled
    BY <1>2, <1>4
  <2>2. PICK j \in Jobs : jobDoc[j] = d /\ (jobStatus[j] = "pending" \/ (w.pc \in Working /\ w.job = j))
    BY <1>1, <2>1 DEF AttendedInv, NoneStranded, Attended
  <2> QED BY <1>1, <1>2, <2>1, <2>2 DEF Attended
<1> QED BY <1>3, <1>4 DEF NoneStranded

\* Between attempts nothing is running.
LEMMA IdleAttends ==
  ASSUME IInv, AttendedInv, WorkerStep, Refill \/ Pop \/ Skip
  PROVE  AttendedInv'
<1>1. /\ UNCHANGED <<jobDoc, writeLock, jobStatus, docStatus>>
      /\ w.pc \notin Working /\ w.pc # "off" /\ w'.pc \in {"loop", "lock"}
  BY DEF WorkerStep, Refill, Pop, Skip, BackToLoop, NoTask, tables, docVars, Working, IInv, TypeOK
<1>2. \A j \in Jobs : jobStatus[j] # "running"
  BY <1>1 DEF AttendedInv, NoneStranded
<1>3. \A d \in Docs : docStatus[d] \in Unsettled => \E j \in Jobs : jobDoc[j] = d /\ jobStatus[j] = "pending"
  BY <1>1 DEF AttendedInv, NoneStranded, Attended
<1>4. NoneStranded'
  BY <1>1, <1>2, <1>3 DEF NoneStranded, Attended
<1> QED BY <1>1, <1>4 DEF AttendedInv

\* The worker's steps.
LEMMA WorkerAttends ==
  ASSUME IInv, AttendedInv, WorkerStep
  PROVE  AttendedInv'
<1>0. ~writeLock /\ ~writeLock' /\ jobDoc' = jobDoc
  BY DEF WorkerStep, AttendedInv
<1>1. CASE Refill \/ Pop \/ Skip
  BY <1>1, IdleAttends
<1>2. CASE Begin
  <2>1. w'.pc = "clean" /\ w'.job = w.job
    BY <1>2 DEF Begin, IInv, TypeOK
  <2> QED BY <1>0, <1>2, <2>1, AttemptAttends DEF AttendedInv, Working
<1>3. CASE \/ CleanVectors \/ CleanRows \/ Parsed \/ Loaded \/ TakeBatch \/ StoreRows
           \/ StoreVectors \/ Indexed \/ Raise \/ FailVectors
  <2>1. w.pc \in Working /\ w'.job = w.job /\ w'.pc \in Working \ {"undo", "supersede"}
    BY <1>3, ZenonT(60) DEF CleanVectors, CleanRows, Parsed, Loaded, TakeBatch, StoreRows, StoreVectors, Indexed,
                Raise, FailVectors, Advance, Working, IInv, TypeOK
  <2> QED BY <1>0, <2>1, AttemptAttends DEF AttendedInv
<1>4. CASE NoticeCancel
  <2>1. w.pc \in Working /\ w'.job = w.job /\ w'.pc = "undo" /\ jobStatus' = jobStatus /\ jobStatus[w.job] = "cancelled"
    BY <1>4 DEF NoticeCancel, Working, IInv, TypeOK
  <2> QED BY <1>0, <2>1, AttemptAttends DEF AttendedInv, Working
<1>5. CASE Finish
  <2>1. w.pc \in Working /\ w'.job = w.job /\ w'.pc = "supersede"
    BY <1>5 DEF Finish, Working, IInv, TypeOK
  <2>2. docStatus'[jobDoc[w.job]] = "ready"
    BY <1>5, <2>1, AtWork DEF Finish, IInv, TypeOK
  <2> QED BY <1>0, <2>1, <2>2, AttemptAttends DEF AttendedInv, Working
<1>6. CASE Undo \/ Supersede \/ FailRows
  <2>1. w.pc \in Working /\ w'.pc = "loop" /\ w.job \in Jobs /\ jobDoc[w.job] \in Docs
    BY <1>6, AtWork DEF Undo, Supersede, FailRows, BackToLoop, NoTask, Working
  <2>2. CASE Undo
    <3>1. jobStatus'[w.job] = "cancelled" /\ docStatus'[jobDoc[w.job]] = "cancelled"
      BY <2>1, <2>2 DEF Undo, AttendedInv, IInv, TypeOK
    <3> QED BY <1>0, <2>1, <3>1, EndAttends DEF AttendedInv, Unsettled
  <2>3. CASE Supersede
    <3>1. jobStatus'[w.job] = "completed" /\ docStatus'[jobDoc[w.job]] = "ready"
      BY <2>1, <2>3 DEF Supersede, AttendedInv, IInv, AttemptInv, docVars
    <3> QED BY <1>0, <2>1, <3>1, EndAttends DEF AttendedInv, Unsettled
  <2>4. CASE FailRows
    <3>1. jobStatus'[w.job] = "failed" /\ docStatus'[jobDoc[w.job]] = "failed"
      BY <2>1, <2>4 DEF FailRows, IInv, TypeOK
    <3> QED BY <1>0, <2>1, <3>1, EndAttends DEF AttendedInv, Unsettled
  <2> QED BY <1>6, <2>2, <2>3, <2>4
<1>7. CASE Blocked
  BY <1>0, <1>7 DEF Blocked
<1> QED BY <1>1, <1>2, <1>3, <1>4, <1>5, <1>6, <1>7 DEF WorkerStep

\* While a worker runs no document is stuck in an intermediate status: after
\* every crash, stop, cancellation, retry and deletion its job is pending, or is
\* the one the worker is at.  This is the safety half of DocumentsSettle.
THEOREM NothingStranded == ASSUME NoBulk PROVE Spec => []NoneStranded
<1>1. Init => AttendedInv
  BY DEF Init, NoTask, AttendedInv, NoneStranded
<1>2. ASSUME IInv, AttendedInv, [Next]_vars PROVE AttendedInv'
  <2>1. CASE StartFails \/ Stop \/ Crash
    <3>0. ~writeLock /\ ~StartFails
      BY <1>2, Zenon DEF AttendedInv, StartFails
    <3>1. ~StartFails /\ ~writeLock'
      <4>1. CASE Stop
        <5>1. writeLock' = writeLock
          BY <4>1 DEF Stop
        <5> QED BY <3>0, <5>1, Zenon
      <4>2. CASE Crash
        BY <3>0, <4>2 DEF Crash
      <4> QED BY <2>1, <3>0, <4>1, <4>2
    <3>2. w'.pc = "off"
      BY <2>1, <3>1 DEF Stop, Crash, NoTask
    <3> QED BY <3>1, <3>2 DEF AttendedInv, NoneStranded
  <2>2. CASE UNCHANGED vars
    BY <1>2, <2>2 DEF vars, docVars, jobVars, procVars, AttendedInv, NoneStranded, Attended
  <2> QED BY <1>2, <2>1, <2>2, StartAttends, WorkerAttends, HandlerAttends, DeleteAttends DEF Next
<1>3. AttendedInv => NoneStranded
  BY DEF AttendedInv
<1> QED BY <1>1, <1>2, <1>3, Invariance, PTL DEF Spec

=============================================================================
