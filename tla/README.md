# A verification project for NOC AI (KhumzaBot)

NOC AI is an offline desktop assistant: an Electron shell starts a FastAPI backend, which
keeps users, documents, chats and models in one SQLite profile, indexes documents for
retrieval, and supervises `llama-server` child processes. This directory holds TLA+ modules
that model the parts of the program whose correctness depends on interleaving, crashes,
partial failure and long sequences of requests, TLC configurations that check them, and TLAPS
proofs about them.

`tlc -config X.cfg MCModule` checks a run, `tlapm Module.tla` a module's proofs.
`PROJECT.json` lists components, runs, hazards, findings, theorems, and the source lines of
every definition.

## 1. Inventory

| Component | State it keeps | Operations | Hard behaviour | What makes it correct |
|---|---|---|---|---|
| Ingestion coordinator (`documents/coordinator.py`) | `ingestion_jobs`, `documents.status`, chunk rows, vectors; in memory a bounded wake-up queue, one worker task, the mutation lock | `start`, `stop`, `enqueue`, the worker's stages | awaits between stages; two stores with separate commits; crash, stop and cancellation at any stage; full queue | a ready document is one whole attempt; content is replaced and never lost; every document settles |
| Job handlers (`jobs/routes.py`) | the same tables | retry, cancel | run between two awaits of the worker | a retry does not disturb the attempt that is still running |
| Knowledge routes (`knowledge/routes.py`) | collections, documents, files | upload, reprocess, delete document, delete collection | wait for the mutation lock with data read before it; choose a name and look for duplicates before an await; hold SQLite's write lock over one | a deleted document has no rows and no worker; a document has the file it was made from; no text twice |
| Vector store and retrieval (`retrieval/`) | `chunks_vec` | add, delete, search | a store of its own; the search filter must hide unfinished work | search sees whole revisions of ready documents |
| Parsing, chunking, embedding (`documents/`, `inference/lifecycle.py`) | none | functions over text; calls to the embedding server | limits, overlaps and splits at boundaries | every chunk fits, nothing is dropped, pages are right |
| Model lifecycle (`inference/lifecycle.py`, `port_pool.py`) | providers per role, servers, ports, `models.status` | load, unload, startup, shutdown, monitor | one lock; a child may die at any time; shutdown during a load | an active row has a running process; no port or process is lost |
| Model routes (`models/`) | `models` rows, files | import, activate, deactivate, delete | the row is read before a load that takes minutes | one active model per role |
| Chat (`chat/`) | conversations, messages; the registry of running generations | completion (streamed or not), stop, delete a conversation | stop, disconnection, deletion and a change of the model against completion; a slot per conversation | slots bound the work and come back; an answer belongs to its question and its model; a stopped one is not stored |
| Backup and restore (`system/backup.py`) | the profile's files, a pending and a history directory, a journal | create, stage, install at start-up, roll back | the process lost between two renames, or in the rollback; files that change while they are read | the profile is wholly old or wholly new; an archive is whole; the application comes back |
| Maintenance routes (`system/routes.py`) | a flag | stop the worker, back up or stage, start the worker | requests admitted before the flag; its `finally` against shutdown | alone in its thread; the worker follows the application |
| Authentication and administration (`auth/`, `admin/`) | users, sessions, lockout counters | login, logout, change password, create, update and delete users | long sequences of requests of several users; a policy that changes | an administrator remains; an old password is out; lockout bounds guessing |
| Profile upgrade (`security/`, `db/`) | key file, database with its log, backup and copy; schema version, vector table | make a key, encrypt, migrate, rebuild the vector table | a crash or a failure between any two steps | no committed row is lost; what is ready is indexed |
| Electron main (`electron/main.ts`, `backend-supervisor.ts`) | supervisor state, child process, attempts in a sliding window | start, stop, restart, crash, shutdown | promises that overlap; quit during a restart | one backend at most, a stop prevails, operations end |
| Renderer, settings, audit, health, hardware, scripts | - | - | derived state, single statements, probes | not modelled (section 14) |

How they interact. The renderer calls the backend over HTTP; every handler runs on one asyncio
event loop, so two handlers, or a handler and the worker, interleave only at awaits. Handlers
and the worker share the database (SQLite in WAL mode, one writer at a time), the coordinator's
queue and the mutation lock. The worker and chat call the providers of the model lifecycle
manager. Maintenance stops and restarts the coordinator. Backup stages files that the next
start installs before the database is opened. Electron starts, watches and restarts the
backend, which is therefore free to die at any moment.

The hazards of this code, each at its line, are listed in `PROJECT.json` with the properties
that would catch them.

## 2. Modules and plan

| Module | Models | Properties in | Proofs in |
|---|---|---|---|
| `Ingestion`, abstractly `KnowledgeIndex` | coordinator, job and knowledge handlers | `Ingestion` | `IngestionProofs` |
| `Restore`, abstractly `RestoredProfile` | installing a restore | `Restore` | `RestoreProofs` |
| `ModelLifecycle`, abstractly `ModelSlots` | model runtime and model routes | `ModelLifecycle` | `ModelLifecycleProofs` |
| `Generation` | chat completions | `GenerationProperties` | `GenerationProofs` |
| `Supervisor` | the backend process in Electron | `SupervisorProperties` | `SupervisorProofs` |
| `Accounts` | users, sessions, sign-in policy | `AccountsProperties` | `AccountsProofs` |
| `Uploads`, composed by `Maintenance` | files and documents; backup, worker, shutdown | the same modules | `KnowledgeProofs` |
| `Upgrade` | a start on an older profile | `Upgrade` | `UpgradeProofs` |
| `TextPipeline` | chunking and splitting | `TextPipeline` | `KnowledgeProofs` |

`...Invariant` modules hold inductive invariants that share definitions with several proofs,
`MC...` modules the instances. Modules that are proved about use no RECURSIVE operator and have
one action per operation or step.

This plan is carried out. What would come next: merging of ranked lists (`retrieval/hybrid.py`)
and the token budget of a prompt (`chat/context.py`) as pure operators; creation and change of
collections.

## 3. Ingestion

State. `docStatus`, `docErr`, `jobStatus`, `jobDoc`, `jobPrio`, `rows`, `vecs` and `collection`
are the database; a crash leaves them alone. `up`, `queue`, `w` (the worker), `lockq` (holder and
waiters of `mutation_lock`), `seen` (the chunk ids a deletion read before it waited) and
`writeLock` are the process; a crash empties them. `runs` and `spent` count for the bounds only.
A chunk is one embedding batch of one attempt at one job, so the model can tell the rows of two
attempts apart.

Steps. The worker's `pc` names its suspension points (`YieldPoint`) and, between them, each
commit. Handlers run only at suspension points (`LoopFree`), because the loop is single-threaded;
a crash can come between any two commits. `Start`, `Stop`, `Refill`, `Pop`, `Begin`, `CleanVectors`,
`CleanRows`, `Parsed`, `Loaded`, `TakeBatch`, `StoreRows`, `StoreVectors`, `Indexed`, `Finish`,
`Supersede`, `Undo`, `FailVectors` and `FailRows` are the stages of `coordinator.py`; `Admit`,
`Retry`, `Cancel`, `Reprocess`, `Bulk*`, `Delete*` and `Collection*` are the handlers.

| Run | What it asks | Bounds |
|---|---|---|
| `IngestionSafety` | ready documents are one whole attempt (`ReadyIsWhole`), deletion excludes processing (`DeletedIsGone`), content is not lost (`NoContentLoss`), the tables implement `KnowledgeIndex` (`ImplementsIndex`) | 2 documents of 2 and 1 batches, 3 jobs, any 3 of cancel, retry, reprocess, stop, crash, delete, collection deletion, bulk upload; failing runtime and vector store; queue of 1 (887 774 states) |
| `IngestionLiveness` | every document settles (`DocumentsSettle`) | 2 documents, one too short for a chunk; 4 jobs, queue of 1, no bulk uploads, 2 exceptional operations, `FairSpec` (25 248 states) |

Why the bounds are enough: two documents exercise the queue, the backlog and the lock; two batches
make an attempt partial; a queue of capacity one makes it full; three jobs allow a reprocess during
a retry; three exceptional operations contain, for instance, cancel, crash and retry of one job,
or reprocess, stop and delete. `MaxRuns` is `MaxOps + 1`, which no behaviour exceeds. Deadlock is
not checked because the system rests when nobody asks for anything.

Fairness. `WF(WorkerStep)` and `WF(DeleteStep)`: the event loop resumes every ready coroutine and
each of the awaits ends (the embedding client has a timeout). `WF(Start)`: maintenance restarts
the worker in a `finally` clause, and Electron or the user starts a stopped backend again. Nothing
is assumed of the handlers.

Proofs. `IngestionProofs` shows type correctness action by action, then that `IInv` is
inductive, and what follows from it: `ReadyIsWhole`, `DeletedIsGone`, `NoContentLoss` and
`ImplementsIndex` for every set of documents and jobs, every number of batches and every bound.
The argument: call `Kept(d)` the rows of d that completed jobs wrote. It changes
only when an attempt finishes or the document is deleted. While the worker holds the mutation lock
nobody else writes rows of its document, so the other rows are exactly what the attempt staged
(`StagedInv`), each with its vector except the last batch's; when it finishes they are a whole
attempt. `ReadyIsWhole` alone is not inductive: it says nothing of what the worker has staged, nor
that the lock keeps deletions away. `NothingStranded` is the safe half of `DocumentsSettle`: without
bulk uploads (`NoBulk`, for the reason under Limits), while a worker runs every `running` job is the
worker's and every document in an intermediate status has a pending job or the worker at it, so no
cancel, stop, crash or deletion leaves a document that nothing will settle. The assumptions are those named `...Assumption` in `Ingestion`.

Observed. Two statements of the repository do not hold; `Ingestion` states them, and adding one to
a configuration shows the behaviour. `DeletedHasNoVectors`: a deletion that waits for the lock
removes only the vectors whose ids it read before the wait, so vectors of a deleted document stay.
`CancelledWaitsForRetry`: a running attempt overwrites the status that a cancel wrote, and the next
start takes the document for an orphan and indexes it again without a retry. A cancel that arrives
during the last embedding is overwritten by completion (`coordinator.py:325`), though
`docs/PHASE3_INSTRUCTIONS_FOR_GPTSOL.md:1749` says that it cancels a running job; and line 1751
says a restart marks interrupted jobs as failed, while the code puts them back to pending.

Limits. There is one collection. At most one deletion per document is outstanding. Handlers that
answer 500 because another connection holds the write lock change nothing and are not actions. The
job's progress, times and messages are left out. With bulk uploads both the worker's commit and its
failure handler can time out, which leaves a job `running` until a restart; `IngestionLiveness`
therefore has none. Waiting for a free lock counts as a suspension point, one interleaving
more than the code has.

## 4. Restore

State. `root`, `pending`, `saved[r]` and `discarded[r]` are directories (the profile, the staged
archive, the history directory of restore r and its `failed-replacement`), `journal` the journal
file, `made` the history directories that exist, `mapped` the restored databases whose model paths
have been rewritten. A part's content is the name of where it came from, so a mixture of two
profiles is visible, and so is the WAL of one database beside another. `-wal` and `-shm` are one
part. The process is `pc`, `todo` and `name`.

Steps. Each rename, each journal write (atomic, `_write_json`), and opening and closing the restored
database is a step. `Crash` may come at every step; it also stands for an operation outside the
`try` block that raises. `Fail` is an operation inside it that raises. `Launch` includes
`ensure_directories`, which the lifespan runs first and which creates directories that a lost start
had moved away; `Collides` is the rename of a directory onto an existing one, which the target
platform refuses.

| Run | What it asks | Bounds |
|---|---|---|
| `Restore` | the application opens one whole profile (`ServesWhole`); refinement of `RestoredProfile` (`ImplementsProfile`); no rename overwrites a former part (`OriginalsRetained`); the application comes back (`ComesBack`) | two restores, one with and one without the knowledge directory; any 3 faults: a loss at every step, a failure of every operation before the commit; every initial presence of key, log and directory |
| `RestoreCommitted` | the same `ServesWhole` when an operation after the commit may fail: violated | 2 faults |

Two restores matter because the second finds the history of the first and replaces what it
installed; three faults allow a loss in the installation, one in the rollback, and one in the
rollback of the next restore. Fairness: a start goes on (`WF(Step)`), and a stopped application is
started again (`WF(Launch)`), by the supervisor or the user. `Exit` and `Stage` are not fair.

Proofs. With `Settled` the profile that a rollback would leave while a transaction is open, every
step leaves `Settled` alone except `Commit`, which takes over one archive whole, and the end of the
application, which may leave a log. `IInv` says where each part of an open transaction is, per point
of the start; it is needed because the renames make `root` a mixture in between, and
`ServesWhole` says nothing of that. From it follow `NeverMixed`, `Implementation` and `Retained`, for
every number of restores and parts, every order of the entries and every set of loss points, under
the hypothesis `NothingFailsAfterCommit`. The hypothesis is necessary: `RestoreCommitted` shows what
happens without it.

Finding (`RestoreCommitted`). A failure after the commit, but still inside the `try` block, starts a
rollback under a committed journal; if it is interrupted, the next start opens a mixture.

Observed. `ComesBack` makes an exception for `Stranded`, three windows in which every later start
fails as well: the history directory is created before the journal is written (`backup.py:260`); the
journal is removed before the pending directory is renamed; and a loss during the rollback of a
directory, after which `ensure_directories` puts an empty directory in its place.

Limits. The contents of an archive are taken to be valid (`_extract_validated` runs in a scratch
directory before anything is published). Staging is one step here, and several in `Maintenance`.
Durability of renames across a power loss is taken as the file system's.

## 5. Model runtime

State. `row` is the committed status of each Model row; `servers`, `provider`, `stopping` are the
manager's `_servers`, its two providers and `_stopping`; `inUse` is the port pool; `live` the
child processes, whether or not anybody still owns them. `lockq` is `_lifecycle_lock` with its
waiters in order, `cs` the place of the holder in the critical section. `job` is what each request
handler (the ingestion worker counts as one) and the startup are waiting for, with the status their
session had loaded; `quit` is the shutdown: its round, where it is, and the stop tasks that have
not yet run.

Steps. A step is the code between two awaits. `Enter` is a holder's code up to its first await or
to the end; `BeginUnload`, `Unloaded`, `Spawned`, `Ready`, `StartFails`, `ProbeGood`, `ProbeBad` are
the rest of load, unload and probe; `Proceed` is what a caller does after an unload in the same
step. A handler's commit after the lock follows without an await and is part of the step that
gives the lock back (`Written`). A missing file, a missing binary and an exhausted port range are
one choice of `Proceed`. `Cancel` cancels a chat request (stop generation), the worker (ingestion
stop) or the monitor (shutdown), waiting or holding. `Shutdown(1)` is prepare-shutdown, with
requests in flight; `Shutdown(2)` is the lifespan's, which uvicorn runs after the requests have
ended. A restart is `Init` with any rows: the children of a lost backend end with its job object.

| Run | What it asks | Bounds |
|---|---|---|
| `LifecycleSafety` | rows follow the runtime (`RowsMatchRuntime`); ports (`PortsOwned`); a clean exit (`CleanExit`); refinement of `ModelSlots` (`ImplementsSlots`) | 2 chat models and an embedding model, 2 handlers, 2 requests, 2 ports, no cancellation inside an unload (272 814 states) |
| `LifecycleLiveness` | a death is noticed, requests are answered, a shutdown ends | 2 chat models, 2 handlers, 2 requests, `LiveSpec` |

Two models of a role are what a replacement needs, and two handlers what a stale session needs.
The embedding model brings the second role, which shares lock, ports and monitor. `LifecycleSafety`
uses the symmetry of the chat models and of the handlers. Two ports are as many as servers can
be registered, so a leaked one blocks later loads.

Fairness. `WF(SectionStep)`: every await inside the section ends, because a stop kills after its
timeout, a start has a readiness budget and a probe a request timeout. `WF(Restore)`, `WF(Started)`,
`WF(Tick)`, `WF(Quit)`: the startup, the monitor's loop and the shutdown are coroutines the loop
resumes. Requests, cancellations and deaths are not fair.

Proofs. `OneActiveModel` needs only the rows: every commit that makes a row active demotes its
siblings in the same transaction. The rest follows from `IInv`, which says who may be in the queue
(`QueueInv`), what the section's place says of its holder (`SectionInv`), how registry, providers,
processes and ports determine each other (`RuntimeInv`), and what holds before requests are served
(`PhaseInv`) and in the last round (`ExitInv`). None of the properties is inductive alone:
`PortsOwned` needs to know that a load finds its role empty, `RowsMatchRuntime` that the startup
restores at most one model of a role, `CleanExit` that no load can be in flight in the last round.
The theorems have the hypothesis `UnloadsFinish`, no cancellation inside an unload.
`SlotsImplemented` is the refinement; `WaitsOnce` says that a request is in the queue of
the lock exactly once while it has an operation left, and never after: the safe half of
`RequestsAnswered`.

Observed. The hypothesis is necessary: with "unload" in `MayCancel`, `OneResident` is violated. A
request cancelled inside an unload leaves a process that nobody owns, a port that is never released
and a provider whose client is closed; the next load starts a second process of the role, though
`docs/user-guide.md` says that one chat model and one embedding model can be active. A shutdown that
finds nothing registered (`lifecycle.py:545`) returns although a load in flight is about to register
a server, and only the second round stops it, which is why `CleanExit` speaks of that round. A model
can be deleted, with its file, while it is being loaded (`models/routes.py:207`), because the row is
not yet active.

Limits. The watchdog's shutdown, which can overlap the other two when Electron dies, is not a third
round. A child is a process on a port: requests to it, its health as distinct from its life, its
output and its arguments are left out (`ProbeBad` may find a live child unhealthy). The references
that forbid a deletion are part of the choice to delete.

## 6. Chat completions

State. `active` is the registry: the request that holds the slot of a conversation. `cancelled`,
`kill` and `gone` are the flag of a generation, a cancellation of its task not yet delivered, and
its client's disconnection. `ask`, `pc`, `result`, `strict` and `provider` are a request's own;
`broken` holds the requests whose provider was shut down under them, `runtime` is the loaded chat
model; `exists` and `messages` are the database.

Steps. A step is the code of a request between two awaits. `Begin` takes the slot; `Prepare`,
`Retrieved`, `Loaded`, `Collected`, `WorkFails` and `WorkCancelled` are `_chat_completion`; `Resume` is
the route's continuation with its `finally`; `StartBody`, `LastPart`, `Interrupted`, `Complete`,
`Close`, `BodyCancelled` and `BodyDropped` are `owned_stream` around the stream of the answer.
`Stop`, `DeleteConversation`, `ClientLeaves` and `RuntimeChanges` come at every await.

| Run | What it asks | Bounds |
|---|---|---|
| `Generation` | work holds the slot of its conversation, within the limit (`WorkHoldsSlot`); an answer follows its question (`AnswerFollowsQuestion`) and comes from the model it names (`AnswerFromItsModel`); a deleted conversation stays empty (`DeletedStaysEmpty`); a stopped response is never stored later (`StopIsFinal`); slots come back (`SlotReturned`) | 2 requests: in one conversation with two models, in two conversations, or one of them by a stranger; limits configured as 0 and 2 |

Two requests are enough for contention over a slot and over the runtime: a third would be a second
rival. Limit 0 becomes 1, so that the limit and not the conversation refuses. Fairness:
`WF(Step(r))`, the awaits of a request end by their result or by the client's time limit. Nothing is
assumed of stop, clients and model routes.

Proofs. Work holds the slot of its conversation (`SlotsInv`), hence nobody else writes to the
conversation, hence the last message there is the question of the response that is being produced
(`QuestionLast`); a stopped request is cancelled at its next await (`StopReaches`), and a request
that answers has a provider of the model it asked for (`RightProvider`). From these follow the four
invariants and `StopIsFinal` for any number of requests, conversations, users and models.
`SlotsAccounted` is the safe half of `SlotReturned`: a slot is held by a request at work or dropped.

Observed. `SlotReturned` makes an exception for `dropped`: when the server notices that the client
left before it asks for the first part of a stream, the generator is never entered, its `finally`
never runs and the slot is lost until a restart. An answer that was delivered whole is not stored
when the send of its last part is cancelled.

Limits. Parts of a stream before the last change nothing and are left out; so are the prompt, the
history sent to the model and the token budget. A strict request's check of its citations is the
choice between an answer and a refusal. Loading is one await here and a protocol in section 5.

## 7. The backend supervisor

State. `state` is what the supervisor publishes; `starting`, `stopping`, `restarting` are where its
three operations are, `chained` a start asked for while stopping, `aborted` the controller's signal,
`recent` the number of attempts within the window, `closed` the shutdown; `owned` is
`backendProcess # null` in `main.ts`, `live` the processes there really are, `answered` a positive
probe on its way. `stale` and `failures` are history.

Steps. `RunStart` is the loop of `runStart` from await to await, with the operations of `main.ts` it
calls; `StopSteps` are the stop; `Shutdown`, `Restart`, `Exit` and `Expire` come at any time. `Exit`
is the process's end with the handler of `main.ts`, which reports a crash unless one is expected.

| Run | What it asks | Bounds |
|---|---|---|
| `Supervisor` | one backend, owned (`OneBackend`); a stop is not overtaken (`StopPrevails`); operations end (`OperationsEnd`) | the code's budget, 3 (1 630 states); nothing else is bounded |

Fairness: `WF(RunStart)` and `WF(StopSteps)`: timers fire, probes end and the stop has time limits.
Nothing makes the backend answer, or exit. `OperationsEnd` says two things. A stop ends, without any
condition. Whatever else is under way ends as well, unless attempts leave the window for ever while a
start goes on (`OutlivesWindow`): with finitely many of those the budget is what ends the retries.

Proofs. For every budget: a spawn follows a look at the owned process (`SpawnsAlone`), a delayed
attempt has room in the budget (`DelayHasRoom`), a stop aborts the start that runs (`StopAborts`) and
touches the process only when the start has ended (`StopWaits`). From these follow `OneBackend`,
`StopPrevails` and `StoppedIsQuiet`: a stop that succeeded leaves no process and no start to come.
`NoOperationLost` is what `OperationsEnd` rests on: a state that promises to end has an operation at
work on it (`NothingAdrift`), and `ready` is said of a process that is owned, or that exited with its
answer on its way (`ReadyIsAlive`).

Observed. `BudgetBounds` does not hold: a start that exceeds `waitForPort`'s 60 s (`main.ts:388`) is
always older than the window of 60 000 ms (`backend-supervisor.ts:28`), so the budget never fills and
such starts are retried for ever, although the comment at `backend-supervisor.ts:17` and
`tests/electron_runtime_checks.cjs:164` speak of a bounded budget. The same happens when each process
exits after 20 s or more of the wait for its port (`main.ts:393`): of three such attempts the first is
older than the window at the fourth, since each one drops the old ones (`backend-supervisor.ts:53`).
Both are why `OperationsEnd` has its condition. When the process exits while its
positive answer is on its way, the supervisor becomes `ready` without a process.

Limits. A window's clock is the count of young attempts: one may become old at any step (`Expire`), and
all do when the port's time limit passes (`TimesOut`).
The port's number, the token, the window and the diagnostics are left out.

## 8. Accounts

State. The rows of `users` with role, `is_active`, `must_change_password` and
`failed_login_attempts`, the rows of `sessions`, the limit of the policy, and who is locked out. A
password is how many times it was set; a session remembers which one opened it. `tried` is history.

Steps. A handler runs without an await, together with the check of its caller's session, so each
request is one step; time is the expiry of a session and the end of a lockout.

| Run | What it asks | Bounds |
|---|---|---|
| `Accounts` | an administrator remains (`AdministratorRemains`); an old password is out (`OldPasswordIsOut`); fewer wrong passwords are looked at between lockouts than the largest limit (`LockoutBounds`) | 2 users, 1 session kept beside the new one (4 in the code), limits 1 and 2, 3 logins, 2 passwords (1 719 522 states) |

Two users are the least for a last administrator and a rival; three logins exceed the kept sessions;
two limits let the policy rise and fall. No fairness: the properties are about safety.

Proofs. For every set of users, number of kept sessions and set of limits: each of the three is
inductive with the types, `LockoutBounds` with `Bounded`, that the attempts counted are at least
those tried since the last lockout.

Observed. `NextLoginRevokes` does not hold: the comment at `auth/routes.py:77` says that a fifth
login revokes the oldest session, while the code keeps four and adds the new one, so that five stay
active and the sixth login revokes. The failure counter stays where it is when a lockout ends, so
one more wrong password locks again.

Limits. Hashing, the form of a password and the roles below administrator are left out. The lockout
period and the session timeout are nondeterministic.

## 9. Uploads and maintenance

`Uploads` has the files and documents of one source: `disk`, `rows`, the uploads `up` with their
place in the selection, the write `lock` of SQLite, and one deletion. `Maintenance` extends it by the
flag, the maintenance requests `op`, the archive they make, the worker with the job of each
document, and the end of the application.

A job is `pending`, `running`, `interrupted` (pending, with the traces of an attempt that a stop ended)
or `ended`, ready or failed. `left`, `unstarted` and `revived` are history: the documents whose attempt
ended in a database another request had locked; that the last start of the worker was refused for that
reason; that an operation started the worker after the end had begun.

Steps. An upload chooses a free name, opens it in another thread, writes it, looks for a duplicate,
and after the last file commits; a deletion removes the row, then the file. A maintenance request
passes the middleware, looks at the flag and sets it in one step, stops the worker, and in its
thread copies the database, lists the files, hashes them and writes the archive, or checks and
publishes a staged restore; its `finally` clears the flag and starts the worker. Each transaction of
the worker can meet the write lock of a bulk upload: a claim then leaves its job waiting, the end of an
attempt leaves it running (`Settle`), since its failure handler meets the same lock, and so does a stop;
a start that has jobs to put back fails and makes no worker (`StartWorker`). The application ends
by prepare-shutdown or the watchdog, the drain of the server and the lifespan's `finally`, in that
order or without the first.

| Run | What it asks | Bounds |
|---|---|---|
| `Maintenance` | a document has its source unless two uploads clashed over a name (`SourceUnlessClash`); no text twice (`NoTwins`); an operation is alone in its thread (`ThreadIsAlone`); a published archive is whole if nothing was in flight when the flag was set (`BackupIsWhole`); a job that says it is running has the worker, or could not be told otherwise (`NoneLeftRunning`); the worker follows the application (`WorkerFollowsApp`) | 2 uploads, of three files with equal names and texts and of one; a backup and a restore; one deletion at a time (1 438 361 states) |

Three files of one request are what makes a flush hold the lock; the second upload has the name of
one and the text of another. The counter in a name goes to `Copies`: an upload that would need a
higher one waits. No fairness: the properties are about safety.

Proofs. `KnowledgeProofs` proves all six for every set of requests, every selection of at least one
file, every bound of the counter (`FilesAssumption`, `CopiesAssumption`, `MarksAssumption`,
`IdleAssumption`). `OwnerInv`: a path that never clashed has one owner at a time, the upload that chose
it, the document made from it, or the deletion that will remove it; `ContentInv`: what is on the disk
is what that owner put there. A clash is recorded where it happens, when a name is chosen that
another upload has chosen and not created, so `SourceUnlessClash` follows; without the owners it is
not inductive, since it does not say why no later upload takes the name. `BusyInv`: one operation is
past the middleware and holds the flag, which keeps the worker stopped and requests out.
`ArchiveInv`: what was idle when the flag was set stays idle until it is cleared, so the rows that were
snapshotted, the names listed and the sums taken belong to one profile. `EndInv` orders the end of
the application. `NoneLeftRunning` is inductive with the types: it is an equation, so that it also says
that the worker takes none of the jobs left running before a start has put them back.

Observed. `DocumentHasSource` does not hold: two uploads that choose the same free name before
either file exists write one file. A selection that fails leaves the files of its earlier documents
behind. A selection of three or more holds the write lock across awaits, and others fail after the
busy timeout; among them are the worker, whose job then says `running` with nobody at it until the next
start (`left`), and that start itself: when a bulk upload holds the lock while an operation ends,
`coordinator.start` raises in the `finally` (`system/routes.py:43`), and the application takes uploads
without a worker until the next operation or restart, the exception `unstarted` of `WorkerFollowsApp`.
The `finally` can also start a worker after prepare-shutdown closed the runtime; its documents
fail for good (`inference/lifecycle.py:567`), the exception `revived`. The check for chat in
`system/routes.py:29` reads a counter chat never increments (`generation_context` has no caller). Uploads and deletions admitted before the flag are not awaited,
hence the condition `quiet` of `BackupIsWhole`.

Limits. One source directory; a file's content is its text or a mixture. The worker's stages are
those of section 3, one step here: why a document fails (its text, its parser, its model, the runtime)
is not told apart from success, only whether the outcome could be stored. Loss of the process is section 4's.

## 10. Upgrade of a profile

State. The key file, the database with the rows that are only in its log (`wal`), its backup, its
encrypted copy; the schema's `version`, the vector table, whether documents are `ready` or queued and
whether their vectors are there. `gap`, `torn` and `left` are history.

Steps. Each file operation of `init_db`, of the encryption and of a migration that commits by itself
is a step; `Crash` may come at each, `Fail` at each of the encryption's. A failure removes the copy
(`Cleanup`) unless it strikes between the attachment of the copy and its detachment: nothing closes
the connection then, and Windows, for which the application is made, removes no open file.
`ensure_vector_schema` drops
a table of another dimension at once, because the driver opens no transaction before the first
UPDATE; queueing the documents and making the table commit with the migration.

| Run | What it asks | Bounds |
|---|---|---|
| `Upgrade` | every committed row is somewhere (`RowsRetained`); what is served has them all (`ServesRows`); ready documents are indexed (`ReadyIsIndexed`); a failed start is followed by one that serves, unless a copy it left stands in the way (`StartsAgain`) | 2 rows, each in the database or only in its log; the 6 migrations, of which 2 and 6 look at the vector table; every older version and vector table; 3 faults (20 763 states) |

Three faults allow one in the encryption, one in the start that repeats it, and one in the migrations.
Fairness: `WF(Step)`, a start goes on and a stopped application is started again.

Proofs. For every set of rows, list of migrations and number of faults. `IInv` says where the rows
are: in the original with its log while it is the database (`InOriginal`), in the backup once the
original may go (`InBackup`), in the copy when it is verified (`InCopy`), in the database after the
rename (`InReplaced`), which is missing only in the gap (`OnlyGap`); and that a dropped table is
remembered until the documents are queued (`Remembered`).

Observed. `ServesRows` and `ReadyIsIndexed` carry exceptions. A fault between the unlink and the
rename (`encryption.py:245`) leaves no database; the next start makes a new, empty one, and the rows
are only in `nocai.db.bak` (if the rename raises, the finished copy is removed as well). A fault after
the drop of the vector table leaves documents `ready` without vectors, against the docstring at
`vector_schema.py:18`. A key file cut short when it was written stops every later start. So
does a copy left beside the original (`Obstructed`), by a loss of the process between the beginning of
the export and the unlink, or by an export that raised: every later export fails on the tables that are
there, with the copy attached (`encryption.py:220` to 236), so that the removal announced as "Clean up
on failure" (`encryption.py:252`) raises as well and the copy stays. Both are the exceptions of
`StartsAgain`. The plaintext backup stays.

Limits. What a migration does to the columns, the bytes of a key and the cipher are left out.

## 11. From text to vectors

`TextPipeline` runs `iter_text_chunks` segment by segment and embeds each chunk with
`_embed_with_splitting` before the next is made. A token stands for a character; a segment has words
and spaces, may start a line, and may carry the mark of the next page.

| Run | What it asks | Bounds |
|---|---|---|
| `TextPipeline` | chunks are bounded unbroken parts that repeat at most the overlap, cover every word, and name their pages (`ChunksCover`); the pieces of a chunk lose no word and get shorter (`PiecesCover`) | texts of 1 or 3 segments of up to 5 tokens, 7 configurations with sizes, overlaps and minima at and beyond their limits, capacity 2, depth 2 |

Three segments make a chunk end before, within and after a line; capacity 2 and depth 2 make pieces
fit, split, and fail. `most` (history) is how long a piece may be after the splits it went through: each
takes a quarter off (`Shorter`).

Proofs. `KnowledgeProofs` proves both for every text, segmentation and configuration whatever its
numbers, every capacity and depth. The current tokens are the last ones read (`ReadInv`); what was
read after the last chunk is among them or blank (`GapInv`); the pages of what is new among them are
those the next chunk will name (`PageInv`). `Ready` is what each of the three calls of `emit_chunk`
provides, `EmitFacts` what any of them leaves. A piece gives way to two that lie in it
(`CoveredHalves`), which keeps order, words and length. From the same invariant: the inner loop
always finds room (`RoomLeft`), no half is blank (`HalvesNeverBlank`), and a document fails only at the
depth limit (`FailsOnlyDeep`).

Observed. With an overlap not below the minimum (the defaults are 50 and 20 in the coordinator) a chunk of nothing but
repeated overlap is emitted before a long line, which is why `ChunksCover` has a condition on the
last clause. The branch for `capacity <= 0` and the fallback for a blank half are dead code.

Limits. The tokenizer is replaced by one token for each character. Retries of a request and the
averaging of vectors are left out.

## 12. What is proved and what is only checked

Proved, for every value of the constants: every invariant, action property and refinement that a
run checks, from the assumptions named `...Assumption` in the modules and the hypotheses named in
sections 3, 4 and 5. Each proof module holds the inductive invariant or extends the module that does,
lemmas per group of its parts and per action, and the theorems at the end; `KnowledgeProofs` has two
such parts, one for `Uploads` with `Maintenance` and one for `TextPipeline`.

Only model-checked: all liveness (`DocumentsSettle`, `ComesBack`, `DeathIsNoticed`,
`RequestsAnswered`, `ShutdownEnds`, `SlotReturned`, `OperationsEnd`, `StartsAgain`), which the
prover's temporal backend cannot derive from fairness; for four of them the proved theorems
`NothingStranded`, `WaitsOnce`, `SlotsAccounted` and `NoOperationLost` show that whatever is to end
still has somebody at work on it. Also that splitting ends with pieces that fit:
the bound `most` of a piece is proved, what twelve applications of `Shorter` come to is induction over
data.

## 13. Reading order

`KnowledgeIndex`, `Ingestion`, `IngestionInvariant` and the theorems at the end of
`IngestionProofs`; `RestoredProfile`, `Restore`, `RestoreInvariant` and those of
`RestoreProofs`; `ModelSlots`, `ModelLifecycle`, `ModelLifecycleInvariant` and those of
`ModelLifecycleProofs`. The other modules stand alone and are read with their properties, then the
invariant at the head of their proofs. Operators whose comment begins with "Mutant" are plausible
bugs; each of them, put in the place of the definition below it, makes one property of one run fail.

## 14. Not modelled

The renderer (its state is derived from responses), cryptography and DPAPI (primitives over opaque
data), settings other than the sign-in policy, audit and health (single statements or read-only),
hardware probes and process ownership (operating-system objects), parsers of file formats, scoring
and merging of search results, the building of prompts, management of collections and conversations
(single-row writes), a queue class nothing instantiates (`inference/queue.py`), compatibility entry
points, scripts and installer.
