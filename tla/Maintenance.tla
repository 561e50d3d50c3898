------------------------------ MODULE Maintenance ------------------------------
(* Backup and restore requests (system/routes.py, create_backup and            *)
(* stage_restore of system/backup.py) among the requests of Uploads, the       *)
(* ingestion worker, and the end of the application (main.py).                 *)
EXTENDS Uploads

CONSTANTS
  Operations,   \* Operations[o]: "backup" or "restore"
  Idle

ASSUME IdleAssumption == Idle \notin Documents \cup {None}

VARIABLES
  maintenance,  \* app.state.maintenance
  op,           \* the maintenance requests
  archive,      \* what the backup in progress has read and published, and
                \* whether nothing was in flight when it began (history)
  pending,      \* .restore-pending exists
  worker,       \* the ingestion worker: None, Idle or the document it works on
  job,          \* the state of each document's job
  runtime,      \* the model runtime takes requests
  app,          \* "up", or how far the end of the application is
  left,         \* history: documents whose attempt ended in a locked database
  unstarted,    \* history: the last start of the worker was refused
  revived       \* history: a worker was started when the end had begun

workerVars == <<worker, job, left>>
startVars == <<unstarted, revived>>
vars == <<uploadVars, maintenance, op, archive, pending, workerVars, runtime, app, startVars>>
opVars == <<maintenance, op, archive, pending, startVars>>

Requests == DOMAIN Operations
NoArchive == [rows |-> {}, names |-> {}, sums |-> << >>, texts |-> << >>, published |-> FALSE, quiet |-> FALSE]

Init ==
  /\ UploadsInit
  /\ maintenance = FALSE /\ pending = FALSE /\ unstarted = FALSE /\ revived = FALSE
  /\ op = [o \in Requests |-> "idle"]
  /\ archive = NoArchive
  /\ worker = Idle /\ job = << >> /\ left = {} /\ runtime = TRUE /\ app = "up"

\* Mutant: the flag is looked at by the maintenance routes only.
AdmitsAlways == app \notin {"final", "closing", "down"}

\* auth_middleware: while maintenance runs every request is answered 503.
Admits == app \notin {"final", "closing", "down"} /\ ~maintenance

\* The jobs go with the documents; a new document has a pending job.
JobsFollow ==
  /\ job' = [d \in rows' |-> IF d \in DOMAIN job THEN job[d] ELSE "pending"]
  /\ left' = left \cap rows'

-----------------------------------------------------------------------------
(* The knowledge routes, the worker.                                       *)

UploadReceived(u) ==
  /\ Admits /\ Receive(u)
  /\ UNCHANGED <<opVars, workerVars, runtime, app>>

UploadGoesOn(u) ==
  /\ UploadStep(u) /\ JobsFollow
  /\ UNCHANGED <<opVars, worker, runtime, app>>

DeleteReceived ==
  /\ Admits /\ AskDelete
  /\ UNCHANGED <<opVars, workerVars, runtime, app>>

\* The mutation lock is the worker's while it works on a document.
DeleteGoesOn ==
  /\ \/ worker \in {None, Idle} /\ leaving = None /\ DeleteRow
     \/ DeleteFile
  /\ JobsFollow
  /\ UNCHANGED <<opVars, worker, runtime, app>>

\* _process_locked claims a waiting job, an "interrupted" one with the traces of
\* an attempt too; a locked database leaves it waiting.
Claim ==
  /\ worker = Idle /\ leaving = None /\ lock = None
  /\ \E d \in rows :
       /\ job[d] \in {"pending", "interrupted"}
       /\ worker' = d /\ job' = [job EXCEPT ![d] = "running"]
  /\ UNCHANGED <<uploadVars, opVars, left, runtime, app>>

\* The attempt at a document is over: its job becomes what the attempt came to,
\* or, when a locked database refuses that, stays running.
Settle(outcome) ==
  IF lock = None
  THEN job' = [job EXCEPT ![worker] = outcome] /\ left' = left
  ELSE job' = job /\ left' = left \cup {worker}

\* The document is ready or has failed, for its text, its file or the runtime.
\* When the failure cannot be stored either, the worker logs it and goes on.
Work ==
  /\ worker \in rows
  /\ Settle("ended") /\ worker' = Idle
  /\ UNCHANGED <<uploadVars, opVars, runtime, app>>

\* Mutant: the cancelled worker does not put its job back.
StopWorkerOnly ==
  /\ worker' = None
  /\ UNCHANGED <<job, left>>

\* coordinator.stop: the worker is cancelled, and its job waits again.
StopWorker ==
  /\ worker' = None
  /\ IF worker \in rows THEN Settle("interrupted") ELSE UNCHANGED <<job, left>>

\* What start() has to write: the jobs of attempts that did not end.
Unended == {d \in rows : job[d] \in {"interrupted", "running"}}

\* coordinator.start, unless there is a worker: such jobs wait again, in one
\* transaction; when a locked database refuses it no worker is made.
StartWorker ==
  IF worker # None THEN UNCHANGED <<workerVars, startVars>>
  ELSE IF lock # None /\ Unended # {}
  THEN unstarted' = TRUE /\ UNCHANGED <<workerVars, revived>>
  ELSE /\ worker' = Idle
       /\ job' = [d \in rows |-> IF d \in Unended THEN "pending" ELSE job[d]]
       /\ left' = {} /\ unstarted' = FALSE
       /\ revived' = (revived \/ app # "up")

-----------------------------------------------------------------------------
(* _operate: one step between two awaits, and the steps of its thread.     *)

OperationReceived(o) ==
  /\ op[o] = "idle" /\ Admits
  /\ op' = [op EXCEPT ![o] = "received"]
  /\ UNCHANGED <<uploadVars, maintenance, archive, pending, startVars, workerVars, runtime, app>>

\* Mutant: only the middleware looks at the flag.
MayOperateAlways == TRUE

MayOperate == ~maintenance

\* The flag is looked at again, and set, in one step.
Enter(o) ==
  /\ op[o] = "received"
  /\ IF MayOperate
     THEN /\ op' = [op EXCEPT ![o] = "stop"]
          /\ maintenance' = TRUE
          /\ archive' = [archive EXCEPT !.quiet = (InFlight = {} /\ asked = None /\ leaving = None)]
     ELSE op' = [op EXCEPT ![o] = "done"] /\ UNCHANGED <<maintenance, archive>>
  /\ UNCHANGED <<uploadVars, pending, startVars, workerVars, runtime, app>>

StopFirst(o) ==
  /\ op[o] = "stop"
  /\ StopWorker
  /\ op' = [op EXCEPT ![o] = IF Operations[o] = "backup" THEN "snapshot" ELSE "stage"]
  /\ UNCHANGED <<uploadVars, maintenance, archive, pending, startVars, runtime, app>>

Advance(o, pc, contents) ==
  /\ archive' = contents
  /\ op' = [op EXCEPT ![o] = pc]
  /\ UNCHANGED <<uploadVars, maintenance, pending, startVars, workerVars, runtime, app>>

InThread(o) == op[o] \in {"snapshot", "list", "hash", "write", "stage", "publish"}

\* create_backup: a copy of the database, ...
Snapshot(o) ==
  /\ op[o] = "snapshot"
  /\ Advance(o, "list", [archive EXCEPT !.rows = rows])

Present == {p \in Paths : disk[p] # None}

\* ... the names of the files, ...
List(o) ==
  /\ op[o] = "list"
  /\ Advance(o, "hash", [archive EXCEPT !.names = Present])

\* A file that has gone ends the operation.
Missing == ~(archive.names \subseteq Present)

\* ... their hashes for the manifest, ...
Hash(o) ==
  /\ op[o] = "hash"
  /\ IF Missing THEN Advance(o, "end", archive)
     ELSE Advance(o, "write", [archive EXCEPT !.sums = [p \in archive.names |-> disk[p]]])

\* ... and the archive, published by a link that never overwrites.
WriteArchive(o) ==
  /\ op[o] = "write"
  /\ IF Missing THEN Advance(o, "end", archive)
     ELSE Advance(o, "end", [archive EXCEPT !.texts = [p \in archive.names |-> disk[p]],
                                               !.published = TRUE])

\* A step of the thread raises OSError or ValueError.
OperationFails(o) ==
  /\ InThread(o)
  /\ Advance(o, "end", archive)

\* stage_restore, unless an archive waits already: it is extracted beside the
\* profile and checked against its manifest, ...
Validate(o) ==
  /\ op[o] = "stage"
  /\ \E valid \in BOOLEAN : Advance(o, IF valid /\ ~pending THEN "publish" ELSE "end", archive)

\* ... and published by one rename.
StageRestore(o) ==
  /\ op[o] = "publish"
  /\ op' = [op EXCEPT ![o] = "end"]
  /\ pending' = TRUE
  /\ UNCHANGED <<uploadVars, maintenance, archive, startVars, workerVars, runtime, app>>

\* The finally clause, whatever happened and whatever ends meanwhile: the flag
\* is cleared, and then the worker is started or the request ends with an error.
Leave(o) ==
  /\ op[o] = "end"
  /\ op' = [op EXCEPT ![o] = "done"]
  /\ maintenance' = FALSE /\ archive' = NoArchive
  /\ StartWorker
  /\ UNCHANGED <<uploadVars, pending, runtime, app>>

OperationStep(o) ==
  Enter(o) \/ StopFirst(o) \/ Snapshot(o) \/ List(o) \/ Hash(o) \/ WriteArchive(o)
    \/ Validate(o) \/ StageRestore(o) \/ Leave(o)

-----------------------------------------------------------------------------
(* The end of the application.                                             *)

\* prepare_shutdown or the parent watchdog: the worker, then the runtime.
Prepare ==
  /\ app = "up"
  /\ app' = "preparing" /\ StopWorker
  /\ UNCHANGED <<uploadVars, opVars, runtime>>

Prepared ==
  /\ app = "preparing"
  /\ app' = "prepared" /\ runtime' = FALSE
  /\ UNCHANGED <<uploadVars, opVars, workerVars>>

\* External: the server stops accepting, and waits for the requests it has.
ServerDrains ==
  /\ app \in {"up", "prepared"}
  /\ InFlight = {} /\ asked = None /\ leaving = None
  /\ \A o \in Requests : op[o] \in {"idle", "done"}
  /\ app' = "final"
  /\ UNCHANGED <<uploadVars, opVars, workerVars, runtime>>

\* Mutant: what was prepared is not stopped again.
FinalStopOnce ==
  /\ app = "final"
  /\ app' = "closing"
  /\ IF runtime THEN StopWorker ELSE UNCHANGED workerVars
  /\ UNCHANGED <<uploadVars, opVars, runtime>>

\* lifespan's finally clause: the worker again, ...
FinalStop ==
  /\ app = "final"
  /\ app' = "closing" /\ StopWorker
  /\ UNCHANGED <<uploadVars, opVars, runtime>>

\* ... then the runtime and the database.
Closed ==
  /\ app = "closing"
  /\ app' = "down" /\ runtime' = FALSE
  /\ UNCHANGED <<uploadVars, opVars, workerVars>>

-----------------------------------------------------------------------------

Next ==
  \/ \E u \in Uploads : UploadReceived(u) \/ UploadGoesOn(u)
  \/ DeleteReceived \/ DeleteGoesOn \/ Claim \/ Work
  \/ \E o \in Requests : OperationReceived(o) \/ OperationStep(o) \/ OperationFails(o)
  \/ Prepare \/ Prepared \/ ServerDrains \/ FinalStop \/ Closed

Spec == Init /\ [][Next]_vars

-----------------------------------------------------------------------------
(* Properties.                                                             *)

\* While a backup or a staging runs in its thread no other one does, the worker
\* is stopped and new requests are refused.
ThreadIsAlone ==
  \A o \in Requests : InThread(o) =>
    /\ worker = None /\ maintenance
    /\ \A q \in Requests \ {o} : op[q] \in {"idle", "received", "done"}

\* A published archive holds each of its documents' files as the manifest and
\* the document say, if no upload or deletion was in flight when the flag was set.
BackupIsWhole ==
  archive.published /\ archive.quiet =>
    /\ archive.texts = archive.sums
    /\ \A d \in archive.rows : d.path \notin clashed =>
         d.path \in archive.names /\ archive.texts[d.path] = d.hash

\* A job that says it is running is the worker's, or one whose end, ready,
\* failed or put back, was refused by a locked database since the worker was
\* last started; the worker takes none of those before it is started again.
NoneLeftRunning ==
  /\ {d \in rows : job[d] = "running"} = left \cup ({worker} \ {None, Idle})
  /\ worker \notin left

\* Whatever an operation did, the worker is there whenever requests are taken,
\* unless it was to be started in a locked database.  There is none with a
\* closed runtime, unless an operation started it when the end had begun.
\* Once the application is down nothing works on the profile any more.
WorkerFollowsApp ==
  /\ app = "up" /\ ~maintenance => worker # None \/ unstarted
  /\ worker # None => runtime \/ revived
  /\ app = "down" => worker = None /\ ~runtime /\ InFlight = {} /\ ~maintenance

=============================================================================
