------------------------------ MODULE Supervisor -------------------------------
(***************************************************************************)
(* The supervisor of the backend process in the Electron main process      *)
(* (apps/desktop/electron/backend-supervisor.ts, with the operations and   *)
(* the exit handler of main.ts).                                           *)
(*                                                                         *)
(* start, stop, restart and crashed may be called at any time; each runs   *)
(* to its first await and continues when what it awaits is settled.  The   *)
(* backend may exit by itself at any moment, fail to start, not become     *)
(* ready in time, and refuse to die.                                       *)
(***************************************************************************)
EXTENDS Naturals

CONSTANT
  Budget      \* attempts allowed within the window

ASSUME BudgetAssumption == Budget \in Nat \ {0}

VARIABLES
  state,       \* the published state
  starting,    \* where runStart is, "none" when it is not running
  stopping,    \* where the stop operation is
  restarting,  \* where the restart operation is: "none", "stop" or "start"
  chained,     \* a start was asked for while stopping
  aborted,     \* the controller's signal
  recent,      \* attempts that are younger than the window
  closed,      \* the application is shutting down
  owned,       \* backendProcess # null
  live,        \* backend processes of the operating system
  answered,    \* a positive answer of /health/ready is on its way
  stale,       \* history: the process exited while that answer was on its way
  failures     \* history: attempts failed since the last success or request, at most Budget + 1

vars == <<state, starting, stopping, restarting, chained, aborted, recent, closed,
          owned, live, answered, stale, failures>>

\* main.ts starts the backend as soon as the application is ready.
Init ==
  /\ state = "starting" /\ starting = "port" /\ recent = 1
  /\ stopping = "none" /\ restarting = "none" /\ chained = FALSE
  /\ aborted = FALSE /\ closed = FALSE
  /\ owned = FALSE /\ live = 0 /\ answered = FALSE /\ stale = FALSE /\ failures = 0

-------------------------------------------------------------------------------
(* Synchronous parts *)

\* Mutant: the attempt is not recorded.
AttemptUnrecorded(n) ==
  /\ recent' = n
  /\ state' = "starting"
  /\ starting' = IF owned' THEN "cleanup" ELSE "port"
  /\ answered' = FALSE /\ stale' = FALSE

\* A new attempt: it is recorded, and refused while a process is still owned.
Attempt(n) ==
  /\ recent' = n + 1
  /\ state' = "starting"
  /\ starting' = IF owned' THEN "cleanup" ELSE "port"
  /\ answered' = FALSE /\ stale' = FALSE

\* One turn of runStart's loop with n young attempts.
Loop(n) ==
  IF n >= Budget
    THEN /\ state' = "failed" /\ starting' = "none" /\ recent' = n
         /\ UNCHANGED <<answered, stale>>
    ELSE IF n > 0
      THEN /\ state' = "backing_off" /\ starting' = "delay" /\ recent' = n
           /\ UNCHANGED <<answered, stale>>
      ELSE Attempt(n)

\* runStart is over, and a restart that awaited it too.
Settled(s) ==
  /\ state' = s
  /\ starting' = "none"
  /\ restarting' = IF restarting = "start" THEN "none" ELSE restarting

-------------------------------------------------------------------------------
(* runStart *)

DelayOver ==
  /\ starting = "delay" /\ ~aborted
  /\ UNCHANGED <<stopping, restarting, chained, aborted, closed, owned, live, failures>>
  /\ Attempt(recent)

DelayAborted ==
  /\ starting = "delay" /\ aborted
  /\ Settled(state)
  /\ UNCHANGED <<stopping, chained, aborted, recent, closed, owned, live, answered, stale, failures>>

\* A free port was found: the process is spawned, or cannot be.
Spawn ==
  /\ starting = "port" /\ ~aborted
  /\ \/ owned' = TRUE /\ live' = live + 1 /\ starting' = "wait"
     \/ starting' = "cleanup" /\ UNCHANGED <<owned, live>>
  /\ UNCHANGED <<state, stopping, restarting, chained, aborted, recent, closed, answered, stale, failures>>

PortOpen ==
  /\ starting = "wait" /\ owned /\ ~aborted
  /\ starting' = "probe"
  /\ UNCHANGED <<state, stopping, restarting, chained, aborted, recent, closed, owned, live,
                 answered, stale, failures>>

\* The backend says that it is ready.
Answer ==
  /\ starting = "probe" /\ owned /\ ~answered
  /\ answered' = TRUE
  /\ UNCHANGED <<state, starting, stopping, restarting, chained, aborted, recent, closed, owned,
                 live, stale, failures>>

\* Mutant: an answer that comes after the abort counts.
UsableLate == answered

Usable == answered /\ ~aborted

\* The answer is read: backendProcess is not looked at again.
Ready ==
  /\ starting = "probe" /\ Usable
  /\ Settled("ready")
  /\ failures' = 0
  /\ UNCHANGED <<stopping, chained, aborted, recent, closed, owned, live, answered, stale>>

\* A check finds the signal aborted, or the process gone while no answer waits.
StartFails ==
  /\ starting \in {"port", "wait", "probe"}
  /\ aborted \/ (starting # "port" /\ ~owned /\ ~answered)
  /\ starting' = "cleanup"
  /\ UNCHANGED <<state, stopping, restarting, chained, aborted, recent, closed, owned, live,
                 answered, stale, failures>>

\* waitForPort gives up after 60 s, the length of the window, so that every
\* recorded attempt is old; the 45 probes give up whatever has expired meanwhile.
TimesOut ==
  /\ owned /\ ~answered
  /\ starting \in {"wait", "probe"}
  /\ starting' = "cleanup"
  /\ recent' = IF starting = "wait" THEN 0 ELSE recent
  /\ UNCHANGED <<state, stopping, restarting, chained, aborted, closed, owned, live, answered,
                 stale, failures>>

\* Mutant: the process is forgotten, not stopped.
ForgotChild == owned' = FALSE /\ UNCHANGED live

\* stopBackend succeeds: the owned process, if any, has exited.
StoppedChild == owned' = FALSE /\ live' = IF owned THEN live - 1 ELSE live

\* The failed attempt was cleaned up: give up if cancelled, else go round.
CleanupDone ==
  /\ starting = "cleanup"
  /\ StoppedChild
  /\ failures' = IF aborted \/ failures > Budget THEN failures ELSE failures + 1
  /\ IF aborted
       THEN Settled(state) /\ UNCHANGED <<recent, answered, stale>>
       ELSE /\ Loop(recent)
            /\ restarting' = IF starting' = "none" /\ restarting = "start" THEN "none" ELSE restarting
  /\ UNCHANGED <<stopping, chained, aborted, closed>>

\* Not even SIGKILL ended the process.
CleanupFails ==
  /\ starting = "cleanup" /\ owned
  /\ Settled("failed")
  /\ UNCHANGED <<stopping, chained, aborted, recent, closed, owned, live, answered, stale, failures>>

-------------------------------------------------------------------------------
(* stop and restart *)

StopFirst == IF starting = "none" THEN "cleanup" ELSE "waiting"

StopCall ==
  IF stopping # "none"
    THEN UNCHANGED <<state, stopping, aborted>>
    ELSE state' = "stopping" /\ stopping' = StopFirst /\ aborted' = TRUE

\* shutdown(): stop(true).
Shutdown ==
  /\ ~closed
  /\ closed' = TRUE
  /\ StopCall
  /\ UNCHANGED <<starting, restarting, chained, recent, owned, live, answered, stale, failures>>

\* The user's restart; a second call joins the first.
Restart ==
  /\ restarting = "none" /\ ~closed
  /\ restarting' = "stop"
  /\ recent' = IF state = "ready" THEN 0 ELSE recent
  /\ failures' = 0
  /\ StopCall
  /\ UNCHANGED <<starting, chained, closed, owned, live, answered, stale>>

StopProceeds ==
  /\ stopping = "waiting" /\ starting = "none"
  /\ stopping' = "cleanup"
  /\ UNCHANGED <<state, starting, restarting, chained, aborted, recent, closed, owned, live,
                 answered, stale, failures>>

\* What awaited the stop: a restart's start, and a start asked for meanwhile.
Continues == (restarting = "stop" \/ chained) /\ ~closed

StopDone ==
  /\ stopping = "cleanup"
  /\ StoppedChild
  /\ stopping' = "none" /\ chained' = FALSE
  /\ IF Continues
       THEN /\ aborted' = FALSE
            /\ Loop(recent)
            /\ restarting' = IF restarting = "stop" /\ starting' # "none" THEN "start" ELSE "none"
       ELSE /\ state' = "stopped"
            /\ restarting' = "none"
            /\ UNCHANGED <<starting, aborted, recent, answered, stale>>
  /\ UNCHANGED <<closed, failures>>

StopFails ==
  /\ stopping = "cleanup" /\ owned
  /\ state' = "failed" /\ stopping' = "none" /\ chained' = FALSE
  /\ restarting' = IF restarting = "stop" THEN "none" ELSE restarting
  /\ UNCHANGED <<starting, aborted, recent, closed, owned, live, answered, stale, failures>>

-------------------------------------------------------------------------------
(* The process and the clock *)

\* Exits the handler leaves to the operation that is under way.
Expected == closed \/ state \in {"stopped", "stopping", "starting", "backing_off"}

\* The process exits, with or without its last answer reaching the supervisor.
\* The handler forgets it and reports a crash, whose start joins a running
\* one, waits for a stop, or begins at once.
Exit ==
  /\ owned
  /\ owned' = FALSE /\ live' = live - 1
  /\ IF Expected
       THEN /\ answered' \in {answered, FALSE}
            /\ stale' = (stale \/ answered')
            /\ UNCHANGED <<state, starting, chained, aborted, recent, failures>>
       ELSE /\ failures' = 0
            /\ IF starting # "none" \/ stopping # "none"
                 THEN /\ state' = "degraded"
                      /\ chained' = (chained \/ starting = "none")
                      /\ UNCHANGED <<starting, aborted, recent, answered, stale>>
                 ELSE /\ aborted' = FALSE
                      /\ Loop(recent)
                      /\ UNCHANGED chained
  /\ UNCHANGED <<stopping, restarting, closed>>

\* An attempt grows older than the window, at rest or while a start waits for a
\* delay, the port, a probe or the end of a process: a backend that exits after
\* 20 s or more of waiting for its port does so before three have failed.
Expire ==
  /\ recent > 0
  /\ recent' = recent - 1
  /\ UNCHANGED <<state, starting, stopping, restarting, chained, aborted, closed, owned, live,
                 answered, stale, failures>>

RunStart ==
  \/ DelayOver \/ DelayAborted \/ Spawn \/ PortOpen \/ Ready \/ StartFails \/ TimesOut
  \/ CleanupDone \/ CleanupFails
StopSteps == StopProceeds \/ StopDone \/ StopFails

Next == RunStart \/ StopSteps \/ Answer \/ Shutdown \/ Restart \/ Exit \/ Expire

Spec == Init /\ [][Next]_vars

\* Timers fire, probes end and the stop operation has time limits throughout:
\* whatever is under way goes on.  Nothing makes the backend answer, or exit.
FairSpec == Spec /\ WF_vars(RunStart) /\ WF_vars(StopSteps)
===============================================================================
