-------------------------- MODULE SupervisorProperties --------------------------
(* What the supervisor promises the rest of the application. *)
EXTENDS Supervisor

TypeOK ==
  /\ state \in {"stopped", "starting", "ready", "degraded", "backing_off", "failed", "stopping"}
  /\ starting \in {"none", "delay", "port", "wait", "probe", "cleanup"}
  /\ stopping \in {"none", "waiting", "cleanup"}
  /\ restarting \in {"none", "stop", "start"}
  /\ chained \in BOOLEAN /\ aborted \in BOOLEAN /\ closed \in BOOLEAN
  /\ owned \in BOOLEAN /\ answered \in BOOLEAN /\ stale \in BOOLEAN
  /\ recent \in 0..Budget /\ live \in Nat /\ failures \in Nat

\* No call order and no failed cleanup leads to a second backend process or to
\* one that the application does not own.
OneBackend == live = IF owned THEN 1 ELSE 0

\* A stop that has succeeded leaves nothing behind: no process, no start under
\* way and none to come.
StoppedIsQuiet ==
  state = "stopped" => live = 0 /\ starting = "none" /\ ~chained /\ restarting = "none"

\* stop cancels readiness: from its call to its end the supervisor does not
\* become ready, whatever the start it cancelled has already received.
StopPrevails == [][stopping # "none" => state' # "ready"]_vars

\* A stop ends, whatever the start that it aborts was waiting for.  Unless attempts
\* leave the window for ever while starts go on, everything under way ends: ready,
\* stopped, or failed within the budget.
Busy == starting # "none" \/ stopping # "none" \/ state \in {"degraded", "backing_off"}
OutlivesWindow == starting # "none" /\ recent' < recent
OperationsEnd ==
  /\ stopping # "none" ~> stopping = "none"
  /\ []<><<OutlivesWindow>>_vars \/ (Busy ~> ~Busy)

\* Does not hold (see the README).  The comment at backend-supervisor.ts:17: a bounded restart budget.
BudgetBounds == failures <= Budget
===============================================================================
