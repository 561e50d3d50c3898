--------------------------- MODULE ModelLifecycle ---------------------------
(***************************************************************************)
(* The model runtime of the backend (inference/lifecycle.py) with the      *)
(* request handlers that use it (models/routes.py, the load-on-demand of   *)
(* chat, search and ingestion) and the two shutdowns of main.py.  One      *)
(* asyncio lock serialises everything that starts or stops a llama-server; *)
(* the model's steps are the code between two awaits.  What a handler does *)
(* before it asks for the lock, and what it writes after it gives the lock *)
(* back, runs without an await and belongs to the neighbouring step.       *)
(***************************************************************************)
EXTENDS Integers, Sequences, FiniteSets

CONSTANTS Models,       \* the models that may ever be imported
          Role,         \* the role each one has
          Handlers,     \* requests in flight at the same time, the worker included
          Ports,        \* the managed port range
          Monitor,      \* the health monitor task
          Startup,      \* the lifespan's startup
          None,
          MaxRequests,  \* bound on the requests of a behaviour
          MayCancel     \* the awaits a cancellation may arrive at

Roles == {"chat", "embedding"}
Awaits == {"lock", "probe", "unload", "spawn", "health"}
Agents == Handlers \cup {Monitor, Startup} \cup Models

ASSUME RoleAssumption == Role \in [Models -> Roles]
ASSUME PortsAssumption == Ports \subseteq Nat \ {0}
ASSUME AgentAssumption ==
  /\ Monitor # Startup
  /\ Handlers \cap ({Monitor, Startup} \cup Models) = {}
  /\ Models \cap {Monitor, Startup, None} = {}
ASSUME BoundAssumption == MaxRequests \in Nat /\ MayCancel \subseteq Awaits

VARIABLES
  row,       \* committed status of each Model row; "new" is not imported yet
  servers,   \* _servers: the port of each registered server, 0 when absent
  provider,  \* chat_provider and embedding_provider with the active model id
  inUse,     \* the port pool's allocated ports
  live,      \* llama-server processes that are running
  lockq,     \* _lifecycle_lock: its holder, then its waiters
  cs,        \* where the holder is in the critical section
  job,       \* the request each handler, and the startup, is working on
  todo,      \* active models the startup has still to restore
  up,        \* startup is complete and requests are served
  quit,      \* the shutdown: its round, where it is, the stop tasks not yet run
  stopping,  \* _stopping
  asked      \* requests so far

manager == <<servers, provider, inUse, live>>
lock == <<lockq, cs>>
vars == <<row, servers, provider, inUse, live, lockq, cs, job, todo, up, quit,
          stopping, asked>>

NoProvider == [model |-> None, port |-> 0, client |-> "none"]
NoJob == [op |-> "idle", model |-> None, was |-> "new"]
Free == [pc |-> "free", role |-> "chat", port |-> 0]
Loads == {"activate", "use", "restore"}
Unloads == {"deactivate", "stop"}

Present(m) == row[m] \notin {"new", "deleted"}
Waiting == {lockq[i] : i \in 1..Len(lockq)}
Running(r) == [model |-> provider[r].model, port |-> provider[r].port] \in live

Init ==
  /\ row \in [Models -> {"new", "imported", "active", "error"}]
  /\ \A m, n \in Models : row[m] = "active" /\ row[n] = "active" /\ Role[m] = Role[n] => m = n
  /\ servers = [m \in Models |-> 0]
  /\ provider = [r \in Roles |-> NoProvider]
  /\ inUse = {} /\ live = {}
  /\ lockq = <<>> /\ cs = Free
  /\ job = [a \in Handlers \cup {Startup} |-> NoJob]
  /\ todo = {m \in Models : row[m] = "active"} /\ up = FALSE
  /\ quit = [round |-> 0, at |-> "no", tasks |-> {}] /\ stopping = FALSE
  /\ asked = 0

-----------------------------------------------------------------------------
(* What the section's holder has asked for.                                *)

OpOf(a) == IF a = Monitor THEN "probe" ELSE IF a \in Models THEN "stop" ELSE job[a].op
ModelOf(a) == IF a \in Models THEN a ELSE job[a].model

\* _persist_model_state: a row that is gone commits nothing, the siblings' update included.
Siblings(rows, m) ==
  {n \in Models \ {m} : Role[n] = Role[m] /\ rows[n] = "active"}
Activated(rows, m) ==
  IF rows[m] = "deleted" THEN rows
  ELSE [n \in Models |-> IF n = m THEN "active"
                         ELSE IF n \in Siblings(rows, m) THEN "imported" ELSE rows[n]]
Marked(rows, m, status) ==
  IF rows[m] = "deleted" THEN rows ELSE [rows EXCEPT ![m] = status]

\* What a handler commits once the manager has answered.  Its session loaded
\* the row before it waited: assigning that same value again is no UPDATE.
Written(a, rows, ok) ==
  LET m == ModelOf(a)
      Assign(status) == IF job[a].was = status THEN rows ELSE Marked(rows, m, status)
  IN CASE OpOf(a) = "activate" /\ ok -> Activated(rows, m)
       [] OpOf(a) \in {"activate", "restore"} /\ ~ok -> Assign("error")
       [] OpOf(a) = "deactivate" -> Assign("imported")
       [] OTHER -> rows

\* The section ends: the lock is released and the agent finishes its request.
Answer(a, rows) ==
  /\ row' = rows
  /\ lockq' = Tail(lockq) /\ cs' = Free
  /\ job' = IF a \in DOMAIN job THEN [job EXCEPT ![a] = NoJob] ELSE job

\* PortPool.acquire: the first free port that can be bound.  Any other program
\* may hold any port, and a port a live process listens on cannot be bound.
Bindable(used, alive) == {p \in Ports \ used : \A q \in alive : q.port # p}

\* The role is clear: a load takes a port and spawns, unless the file, the
\* binary or a port is missing; an unload is done.
Proceed(a, rows, used, alive) ==
  \/ /\ OpOf(a) \in Loads
     /\ \E p \in Bindable(used, alive) :
          /\ cs' = [pc |-> "spawn", role |-> Role[ModelOf(a)], port |-> p]
          /\ inUse' = used \cup {p}
     /\ row' = rows
     /\ UNCHANGED <<lockq, job>>
  \/ /\ OpOf(a) \in Loads
     /\ inUse' = used
     /\ Answer(a, Written(a, rows, FALSE))
  \/ /\ OpOf(a) \in Unloads
     /\ inUse' = used
     /\ Answer(a, Written(a, rows, TRUE))

-----------------------------------------------------------------------------
(* The critical section.                                                   *)

\* The provider an unload is about: that of the role, or of the given id.
Victim(a) ==
  LET pv == provider[Role[ModelOf(a)]]
  IN IF OpOf(a) = "stop" /\ pv.model # ModelOf(a) THEN NoProvider ELSE pv

\* _unload_model_locked up to its first await: the server leaves the registry
\* and the client is being closed.
BeginUnload(r) ==
  /\ servers' = [servers EXCEPT ![provider[r].model] = 0]
  /\ provider' = [provider EXCEPT ![r].client = "closed"]
  /\ cs' = [pc |-> "unload", role |-> r, port |-> servers[provider[r].model]]
  /\ UNCHANGED <<row, inUse, live, lockq, job>>

IsCurrent(m) == provider[Role[m]].model = m /\ Running(Role[m])

EnterLoad(a) ==
  LET m == ModelOf(a)
  IN /\ OpOf(a) \in Loads
     /\ \/ /\ stopping
           /\ Answer(a, Written(a, row, FALSE)) /\ UNCHANGED manager
        \/ /\ ~stopping /\ IsCurrent(m)
           /\ Answer(a, Written(a, row, TRUE)) /\ UNCHANGED manager
        \/ /\ ~stopping /\ ~IsCurrent(m) /\ Victim(a) # NoProvider
           /\ BeginUnload(Role[m])
        \/ /\ ~stopping /\ ~IsCurrent(m) /\ Victim(a) = NoProvider
           /\ Proceed(a, row, inUse, live) /\ UNCHANGED <<servers, provider, live>>

EnterUnload(a) ==
  /\ OpOf(a) \in Unloads
  /\ \/ /\ Victim(a) # NoProvider
        /\ BeginUnload(Role[ModelOf(a)])
     \/ /\ Victim(a) = NoProvider
        /\ Proceed(a, row, inUse, live) /\ UNCHANGED <<servers, provider, live>>

EnterProbe(a) ==
  /\ OpOf(a) = "probe"
  /\ cs' = [pc |-> "probe", role |-> "chat", port |-> 0]
  /\ UNCHANGED <<row, manager, lockq, job>>

Enter ==
  /\ cs.pc = "free" /\ lockq # <<>>
  /\ LET a == Head(lockq) IN EnterLoad(a) \/ EnterUnload(a) \/ EnterProbe(a)

\* reconcile_runtime_state looks at the chat runtime, then at the embedding one.
NextProbe(rows) ==
  IF cs.role = "chat"
  THEN /\ cs' = [cs EXCEPT !.pc = "probe", !.role = "embedding", !.port = 0]
       /\ row' = rows /\ UNCHANGED <<lockq, job>>
  ELSE Answer(Monitor, rows)

\* Mutant: the exit of the process is not looked at.
AssumedGood(r) == provider[r].client # "closed"
LooksGood(r) == provider[r] = NoProvider \/ Running(r)

ProbeGood ==
  /\ cs.pc = "probe"
  /\ LooksGood(cs.role)
  /\ NextProbe(row)
  /\ UNCHANGED manager

\* The process has exited, or does not answer its health endpoint.
ProbeBad ==
  /\ cs.pc = "probe" /\ provider[cs.role] # NoProvider
  /\ BeginUnload(cs.role)

\* The process is gone, by itself or killed; the rest of the unload and what
\* its caller does next follow without an await.
\* Mutant: the port of a stopped server stays allocated.
PortsKept == inUse
PortsReleased == inUse \ {cs.port}
\* Mutant: an unload leaves the row as it was.
RowKept(v) == row
Released(v) == IF stopping THEN row ELSE Marked(row, v, "imported")

\* LlamaServerProcess.stop: whatever it takes, the process is gone when it returns.
Stopped(v) == live \ {[model |-> v, port |-> cs.port]}

Unloaded ==
  /\ cs.pc = "unload"
  /\ LET a == Head(lockq)
         v == provider[cs.role].model
         rows == Released(v)
     IN /\ live' = Stopped(v)
        /\ provider' = [provider EXCEPT ![cs.role] = NoProvider]
        /\ \/ /\ a = Monitor
              /\ inUse' = PortsReleased
              /\ NextProbe(Marked(rows, v, "error"))
           \/ /\ a # Monitor
              /\ Proceed(a, rows, PortsReleased, live')
  /\ UNCHANGED servers

Spawned ==
  /\ cs.pc = "spawn"
  /\ live' = live \cup {[model |-> ModelOf(Head(lockq)), port |-> cs.port]}
  /\ cs' = [cs EXCEPT !.pc = "health"]
  /\ UNCHANGED <<row, servers, provider, inUse, lockq, job>>

\* Spawning fails, the process exits, the readiness budget runs out: the
\* process is killed and the port returned.
\* Mutant: the process that did not become ready is left running.
LeftRunning == live
Killed == live \ {[model |-> ModelOf(Head(lockq)), port |-> cs.port]}

StartFails ==
  /\ cs.pc \in {"spawn", "health"}
  /\ live' = Killed
  /\ inUse' = PortsReleased
  /\ Answer(Head(lockq), Written(Head(lockq), row, FALSE))
  /\ UNCHANGED <<servers, provider>>

Ready ==
  /\ cs.pc = "health"
  /\ LET a == Head(lockq)
         m == ModelOf(a)
     IN /\ servers' = [servers EXCEPT ![m] = cs.port]
        /\ provider' = [provider EXCEPT ![cs.role] =
                          [model |-> m, port |-> cs.port, client |-> "open"]]
        /\ Answer(a, Written(a, Activated(row, m), TRUE))
  /\ UNCHANGED <<inUse, live>>

SectionStep ==
  /\ Enter \/ ProbeGood \/ ProbeBad \/ Unloaded \/ Spawned \/ StartFails \/ Ready
  /\ UNCHANGED <<todo, up, quit, stopping, asked>>

-----------------------------------------------------------------------------
(* Cancellation: of a chat request (stop generation), of the worker        *)
(* (ingestion stop), of the monitor (shutdown).                            *)

Cancellable(a) == (a \in Handlers /\ job[a].op = "use") \/ (a = Monitor /\ stopping)
\* Mutant: a cancelled waiter keeps its place in the queue.
StillQueued(i) == lockq
Dequeued(i) == [k \in 1..Len(lockq) - 1 |-> IF k < i THEN lockq[k] ELSE lockq[k + 1]]

CancelWaiting(a) ==
  /\ "lock" \in MayCancel
  /\ \E i \in 1..Len(lockq) : lockq[i] = a /\ lockq' = Dequeued(i)
  /\ a = Head(lockq) => cs.pc = "free"
  /\ job' = IF a \in DOMAIN job THEN [job EXCEPT ![a] = NoJob] ELSE job
  /\ UNCHANGED <<row, manager, cs>>

\* During a start the new process is killed; during a probe nothing has
\* happened yet; during an unload the rest of it never happens.
CancelHolding(a) ==
  /\ lockq # <<>> /\ a = Head(lockq) /\ cs.pc \in MayCancel
  /\ \/ cs.pc \in {"spawn", "health"} /\ StartFails
     \/ cs.pc \in {"probe", "unload"} /\ Answer(a, row) /\ UNCHANGED manager

Cancel ==
  /\ \E a \in Handlers \cup {Monitor} :
       Cancellable(a) /\ (CancelWaiting(a) \/ CancelHolding(a))
  /\ UNCHANGED <<todo, up, quit, stopping, asked>>

-----------------------------------------------------------------------------
(* Startup, requests, the monitor's clock, the processes.                  *)

Ask(a, op, m) ==
  /\ job' = [job EXCEPT ![a] = [op |-> op, model |-> m, was |-> row[m]]]
  /\ lockq' = Append(lockq, a)

Restore(m) ==
  /\ ~up /\ m \in todo /\ job[Startup] = NoJob
  /\ Ask(Startup, "restore", m)
  /\ todo' = todo \ {m}
  /\ UNCHANGED <<row, manager, cs, up, quit, stopping, asked>>

Started ==
  /\ ~up /\ todo = {} /\ job[Startup] = NoJob
  /\ up' = TRUE
  /\ UNCHANGED <<row, manager, lock, job, todo, quit, stopping, asked>>

Accepts(h) == up /\ quit.round < 2 /\ job[h] = NoJob /\ asked < MaxRequests

\* activate, and the load on demand of chat, search and ingestion.
Request(h, m) ==
  /\ Accepts(h) /\ Present(m)
  /\ \/ Ask(h, "activate", m)
     \/ provider[Role[m]].model # m /\ Ask(h, "use", m)
     \/ provider[Role[m]].model = m /\ Ask(h, "deactivate", m)
  /\ asked' = asked + 1
  /\ UNCHANGED <<row, manager, cs, todo, up, quit, stopping>>

\* import, deactivate of a model that is not loaded, delete: no await.
Importable(m) == row[m] = "new"
Deletable(m) == Present(m) /\ row[m] # "active"

Edit(h, m) ==
  /\ Accepts(h)
  /\ \/ Importable(m) /\ row' = [row EXCEPT ![m] = "imported"]
     \/ Present(m) /\ provider[Role[m]].model # m /\ row' = [row EXCEPT ![m] = "imported"]
     \/ Deletable(m) /\ row' = [row EXCEPT ![m] = "deleted"]
  /\ asked' = asked + 1
  /\ UNCHANGED <<manager, lock, job, todo, up, quit, stopping>>

\* Mutant: the monitor's loop does not look at _stopping.
MonitorStays == up
MonitorRuns == up /\ ~stopping

Tick ==
  /\ MonitorRuns /\ Monitor \notin Waiting
  /\ lockq' = Append(lockq, Monitor)
  /\ UNCHANGED <<row, manager, cs, job, todo, up, quit, stopping, asked>>

Die ==
  /\ \E p \in live : live' = live \ {p}
  /\ UNCHANGED <<row, servers, provider, inUse, lock, job, todo, up, quit, stopping, asked>>

-----------------------------------------------------------------------------
(* ModelLifecycleManager.shutdown: first from prepare-shutdown, with       *)
(* requests still in flight, then from the lifespan's end, after uvicorn   *)
(* has waited for them.                                                    *)

Shutdown(n) ==
  /\ up /\ quit.round < n /\ quit.at \in {"no", "done"}
  /\ n = 2 => \A h \in Handlers : job[h] = NoJob
  /\ stopping' = TRUE
  /\ quit' = [round |-> n, at |-> "monitor", tasks |-> {}]
  /\ UNCHANGED <<row, manager, lock, job, todo, up, asked>>

\* The monitor has ended; one stop task for each registered server.
\* Mutant: only the chat model's server is stopped.
ChatServer == {m \in Models : servers[m] # 0 /\ Role[m] = "chat"}
ToStop == {m \in Models : servers[m] # 0}

StopServers ==
  /\ quit.at = "monitor" /\ Monitor \notin Waiting
  /\ quit' = [quit EXCEPT !.at = "stop", !.tasks = ToStop]
  /\ UNCHANGED <<row, manager, lock, job, todo, up, stopping, asked>>

StopTask(m) ==
  /\ m \in quit.tasks
  /\ quit' = [quit EXCEPT !.tasks = @ \ {m}]
  /\ lockq' = Append(lockq, m)
  /\ UNCHANGED <<row, manager, cs, job, todo, up, stopping, asked>>

StopDone ==
  /\ quit.at = "stop" /\ quit.tasks = {} /\ Waiting \cap Models = {}
  /\ quit' = [quit EXCEPT !.at = "done"]
  /\ UNCHANGED <<row, manager, lock, job, todo, up, stopping, asked>>

Quit == StopServers \/ (\E m \in Models : StopTask(m)) \/ StopDone

Next ==
  \/ SectionStep \/ Cancel
  \/ \E m \in Models : Restore(m)
  \/ Started
  \/ \E h \in Handlers, m \in Models : Request(h, m) \/ Edit(h, m)
  \/ Tick \/ Die
  \/ \E n \in 1..2 : Shutdown(n)
  \/ Quit

Spec == Init /\ [][Next]_vars

\* The event loop runs what is ready: every await of the section ends (stop
\* kills after its timeout, a start has a readiness budget), the monitor's
\* sleep ends, a cancelled monitor and the stop tasks get their turn.
Fairness ==
  /\ WF_vars(SectionStep)
  /\ \A m \in Models : WF_vars(Restore(m))
  /\ WF_vars(Started) /\ WF_vars(Tick) /\ WF_vars(Quit)
LiveSpec == Spec /\ Fairness

-----------------------------------------------------------------------------
(* Properties.                                                             *)

Port == Ports \cup {0}
Registered == {m \in Models : servers[m] # 0}

TypeOK ==
  /\ row \in [Models -> {"new", "imported", "active", "error", "deleted"}]
  /\ servers \in [Models -> Port]
  /\ provider \in [Roles -> [model : Models \cup {None}, port : Port,
                             client : {"none", "open", "closed"}]]
  /\ inUse \in SUBSET Ports
  /\ live \in SUBSET [model : Models, port : Ports]
  /\ lockq \in Seq(Agents)
  /\ cs \in [pc : {"free", "probe", "unload", "spawn", "health"}, role : Roles, port : Port]
  /\ job \in [Handlers \cup {Startup} ->
                [op : Loads \cup {"deactivate", "idle"}, model : Models \cup {None},
                 was : {"new", "imported", "active", "error", "deleted"}]]
  /\ todo \in SUBSET Models /\ up \in BOOLEAN /\ stopping \in BOOLEAN
  /\ quit \in [round : 0..2, at : {"no", "monitor", "stop", "done"}, tasks : SUBSET Models]
  /\ asked \in Nat

\* The database never shows two active models of one role, whatever is
\* activated, removed, cancelled or stopped in between.
OneActive ==
  \A m, n \in Models : row[m] = "active" /\ row[n] = "active" /\ Role[m] = Role[n] => m = n

\* While requests are served, a row is active exactly when the manager has a
\* provider for it; only a row removed during its own load is missing.
RowsMatchRuntime ==
  up /\ ~stopping => \A m \in Models :
    /\ row[m] = "active" => provider[Role[m]].model = m
    /\ provider[Role[m]].model = m => row[m] \in {"active", "deleted"}

\* A port is allocated exactly while a server is registered on it, being
\* started on it or being stopped on it: none is leaked, none is shared.
PortsOwned ==
  /\ inUse = {servers[m] : m \in Registered} \cup ({cs.port} \ {0})
  /\ \A m, n \in Registered : servers[m] = servers[n] => m = n
  /\ \A m \in Registered : servers[m] # cs.port

\* After the lifespan's shutdown no server runs and no port is allocated.
CleanExit == quit.round = 2 /\ quit.at = "done" => live = {} /\ inUse = {}

\* What the manager promises: a role's memory holds one model at a time.
resident == [r \in Roles |-> {p \in live : Role[p.model] = r}]
Slots == INSTANCE ModelSlots
ImplementsSlots == Slots!Spec

\* A runtime that died is noticed: its provider is dropped or replaced.
DeathIsNoticed ==
  \A r \in Roles :
    (up /\ provider[r] # NoProvider /\ ~Running(r)) ~>
      (provider[r] = NoProvider \/ Running(r) \/ stopping)

\* Every request that waits for the runtime is answered, and a shutdown ends.
RequestsAnswered == \A h \in Handlers : job[h] # NoJob ~> job[h] = NoJob
ShutdownEnds == quit.at = "monitor" ~> quit.at = "done"

\* Does not hold (see the README) when a cancellation lands inside an unload.
\* docs/user-guide.md: "One chat model and one embedding model can be active".
OneResident == \A p, q \in live : Role[p.model] = Role[q.model] => p = q
=============================================================================
