----------------------- MODULE ModelLifecycleInvariant -----------------------
(***************************************************************************)
(* The inductive invariant of ModelLifecycle, as long as no cancellation   *)
(* lands inside an unload: who is in the lock's queue, what the section's  *)
(* place says of its holder, and how registry, providers, ports, processes *)
(* and rows follow each other.                                             *)
(***************************************************************************)
EXTENDS ModelLifecycle

UnloadsFinish == "unload" \notin MayCancel

Holder == Head(lockq)

\* The queue holds exactly the agents with something to do, once each.
QueueInv ==
  /\ \A i, j \in 1..Len(lockq) : lockq[i] = lockq[j] => i = j
  /\ \A a \in Handlers \cup {Startup} :
       /\ a \in Waiting <=> job[a].op # "idle"
       /\ job[a].op = "idle" => job[a] = NoJob
       /\ job[a].op # "idle" => job[a].model \in Models
  /\ job[Startup].op \in {"idle", "restore"} /\ \A h \in Handlers : job[h].op # "restore"
  /\ Monitor \in Waiting => up /\ quit.at \notin {"stop", "done"}
  /\ \A m \in Models : m \in Waiting => quit.at = "stop" /\ m \notin quit.tasks

\* Startup, then serving, then the rounds of the shutdown.
PhaseInv ==
  /\ stopping <=> quit.at # "no"
  /\ stopping <=> quit.round > 0
  /\ stopping => up
  /\ quit.at # "stop" => quit.tasks = {}
  /\ up => todo = {} /\ job[Startup].op = "idle"
  /\ ~up => \A h \in Handlers : job[h].op = "idle"
  /\ quit.round = 2 => \A h \in Handlers : job[h].op = "idle"

SectionInv ==
  /\ cs.pc # "free" => lockq # <<>>
  /\ cs.pc \in {"free", "probe"} => cs.port = 0
  /\ cs.pc = "probe" => Holder = Monitor
  /\ cs.pc \in {"spawn", "health"} =>
       /\ OpOf(Holder) \in Loads
       /\ cs.role = Role[ModelOf(Holder)]
       /\ provider[cs.role] = NoProvider
       /\ cs.port # 0
  /\ cs.pc = "unload" =>
       /\ provider[cs.role] # NoProvider
       /\ cs.port = provider[cs.role].port
       /\ servers[provider[cs.role].model] = 0
       /\ Holder # Monitor => cs.role = Role[ModelOf(Holder)]

\* Registry, providers, ports and processes.
RuntimeInv ==
  /\ \A r \in Roles : provider[r] # NoProvider =>
       /\ provider[r].model \in Models /\ Role[provider[r].model] = r
       /\ provider[r].port # 0
       /\ servers[provider[r].model] # provider[r].port => cs.pc = "unload" /\ cs.role = r
  /\ \A m \in Registered :
       provider[Role[m]].model = m /\ provider[Role[m]].port = servers[m]
  /\ \A p \in live :
       \/ servers[p.model] = p.port
       \/ cs.pc = "unload" /\ provider[cs.role].model = p.model /\ cs.port = p.port
       \/ cs.pc = "health" /\ ModelOf(Holder) = p.model /\ cs.port = p.port
  /\ PortsOwned

\* Before serving, an active row is one the startup has still to restore.
StartupInv ==
  ~up =>
    /\ \A m \in Models :
         /\ row[m] = "active" =>
              \/ m \in todo
              \/ job[Startup].op = "restore" /\ job[Startup].model = m
              \/ provider[Role[m]].model = m
         /\ provider[Role[m]].model = m => row[m] = "active" /\ m \notin todo
         /\ m \in todo => row[m] = "active"
    /\ job[Startup].op = "restore" =>
         /\ row[job[Startup].model] = "active" /\ job[Startup].was = "active"
         /\ job[Startup].model \notin todo
         /\ provider[Role[job[Startup].model]] = NoProvider

RowsInv == OneActive /\ RowsMatchRuntime /\ StartupInv

\* The last round misses no server.
ExitInv ==
  quit.round = 2 =>
    /\ quit.at = "stop" => \A m \in Registered : m \in quit.tasks \cup Waiting
    /\ quit.at = "done" => Registered = {} /\ lockq = <<>>

IInv ==
  /\ TypeOK /\ QueueInv /\ PhaseInv /\ SectionInv /\ RuntimeInv /\ RowsInv /\ ExitInv
=============================================================================
