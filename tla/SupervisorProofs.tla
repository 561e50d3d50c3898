---------------------------- MODULE SupervisorProofs ----------------------------
(***************************************************************************)
(* Proofs about Supervisor, for every budget and without fairness.         *)
(***************************************************************************)
EXTENDS SupervisorProperties, TLAPS

\* A spawn follows a look at the owned process, and a delayed attempt has room in
\* the budget.
SpawnsAlone == starting = "port" => ~owned
DelayHasRoom == starting = "delay" => recent < Budget

\* A stop aborts the start that runs, and touches the process when it has ended.
StopAborts == stopping # "none" => aborted /\ state \notin {"ready", "stopped"}
StopWaits == stopping = "cleanup" => starting = "none"

IInv ==
  /\ TypeOK /\ OneBackend /\ SpawnsAlone /\ DelayHasRoom
  /\ StopAborts /\ StopWaits /\ StoppedIsQuiet

-------------------------------------------------------------------------------

\* The start with which the application begins.
LEMMA Initially == Init => IInv
<1>1. Init => TypeOK
  <2> SUFFICES ASSUME Init PROVE TypeOK
    OBVIOUS
  <2>1. recent \in 0..Budget /\ live \in Nat /\ failures \in Nat
    BY BudgetAssumption DEF Init
  <2>2. /\ chained \in BOOLEAN /\ aborted \in BOOLEAN /\ closed \in BOOLEAN
        /\ owned \in BOOLEAN /\ answered \in BOOLEAN /\ stale \in BOOLEAN
    BY DEF Init
  <2> QED
    BY <2>1, <2>2 DEF Init, TypeOK
<1>2. Init => OneBackend /\ SpawnsAlone /\ DelayHasRoom
  BY DEF Init, OneBackend, SpawnsAlone, DelayHasRoom
<1>3. Init => StopAborts /\ StopWaits /\ StoppedIsQuiet
  BY DEF Init, StopAborts, StopWaits, StoppedIsQuiet
<1> QED
  BY <1>1, <1>2, <1>3 DEF IInv

\* What a turn of the loop leaves: a new attempt only without a process, a delay
\* only below the budget.
Turned ==
  /\ state' \in {"failed", "backing_off", "starting"}
  /\ starting' \in {"none", "delay", "port", "cleanup"}
  /\ state' = "failed" <=> starting' = "none"
  /\ recent' \in 0..Budget
  /\ answered' \in BOOLEAN /\ stale' \in BOOLEAN
  /\ starting' = "port" => ~owned'
  /\ starting' = "delay" => recent' < Budget
\* This is what a turn does.
LEMMA LoopTurns == ASSUME TypeOK, Loop(recent) PROVE Turned
<1> USE DEF Turned
<1>1. CASE recent >= Budget
  BY <1>1 DEF Loop, TypeOK
<1>2. CASE ~(recent >= Budget) /\ recent > 0
  <2>1. recent' = recent /\ state' = "backing_off" /\ starting' = "delay"
    BY <1>2 DEF Loop
  <2>2. answered' \in BOOLEAN /\ stale' \in BOOLEAN
    BY <1>2 DEF Loop, TypeOK
  <2>3. recent' < Budget
    BY <1>2, <2>1, BudgetAssumption DEF TypeOK
  <2> QED
    BY <2>1, <2>2, <2>3 DEF TypeOK
<1>3. CASE ~(recent >= Budget) /\ ~(recent > 0)
  <2>1. recent' \in 0..Budget
    BY <1>3, BudgetAssumption DEF Loop, Attempt, TypeOK
  <2> QED
    BY <1>3, <2>1, BudgetAssumption DEF Loop, Attempt
<1> QED
  BY <1>1, <1>2, <1>3

\* Every step keeps the types: the attempts of the window never pass the budget.
LEMMA TypesKept == ASSUME IInv, [Next]_vars PROVE TypeOK'
<1> USE BudgetAssumption DEF IInv, TypeOK, DelayHasRoom, OneBackend, SpawnsAlone
<1>1. CASE DelayOver
  <2>1. recent' \in 0..Budget /\ live' \in Nat /\ failures' \in Nat
    BY <1>1 DEF DelayOver, Attempt
  <2>2. /\ chained' \in BOOLEAN /\ aborted' \in BOOLEAN /\ closed' \in BOOLEAN
        /\ owned' \in BOOLEAN /\ answered' \in BOOLEAN /\ stale' \in BOOLEAN
    BY <1>1 DEF DelayOver, Attempt
  <2>3. /\ state' \in {"stopped", "starting", "ready", "degraded", "backing_off", "failed", "stopping"}
        /\ starting' \in {"none", "delay", "port", "wait", "probe", "cleanup"}
        /\ stopping' \in {"none", "waiting", "cleanup"}
        /\ restarting' \in {"none", "stop", "start"}
    BY <1>1 DEF DelayOver, Attempt
  <2> QED
    BY <2>1, <2>2, <2>3
<1>2. CASE DelayAborted
  BY <1>2 DEF DelayAborted, Settled
<1>3. CASE Spawn
  <2>1. recent' \in 0..Budget /\ live' \in Nat /\ failures' \in Nat
    BY <1>3 DEF Spawn
  <2>2. /\ chained' \in BOOLEAN /\ aborted' \in BOOLEAN /\ closed' \in BOOLEAN
        /\ owned' \in BOOLEAN /\ answered' \in BOOLEAN /\ stale' \in BOOLEAN
    BY <1>3 DEF Spawn
  <2>3. /\ state' \in {"stopped", "starting", "ready", "degraded", "backing_off", "failed", "stopping"}
        /\ starting' \in {"none", "delay", "port", "wait", "probe", "cleanup"}
        /\ stopping' \in {"none", "waiting", "cleanup"}
        /\ restarting' \in {"none", "stop", "start"}
    BY <1>3 DEF Spawn
  <2> QED
    BY <2>1, <2>2, <2>3
<1>4. CASE PortOpen
  BY <1>4 DEF PortOpen
<1>5. CASE Ready
  BY <1>5 DEF Ready, Usable, Settled
<1>6. CASE StartFails
  BY <1>6 DEF StartFails
<1>7. CASE TimesOut
  BY <1>7 DEF TimesOut
<1>8. CASE CleanupDone
  <2>1. recent' \in 0..Budget /\ live' \in Nat /\ failures' \in Nat
    BY <1>8, LoopTurns DEF CleanupDone, StoppedChild, Settled, Turned
  <2>2. /\ chained' \in BOOLEAN /\ aborted' \in BOOLEAN /\ closed' \in BOOLEAN
        /\ owned' \in BOOLEAN /\ answered' \in BOOLEAN /\ stale' \in BOOLEAN
    BY <1>8, LoopTurns DEF CleanupDone, StoppedChild, Settled, Turned
  <2>3. /\ state' \in {"stopped", "starting", "ready", "degraded", "backing_off", "failed", "stopping"}
        /\ starting' \in {"none", "delay", "port", "wait", "probe", "cleanup"}
        /\ stopping' \in {"none", "waiting", "cleanup"}
        /\ restarting' \in {"none", "stop", "start"}
    BY <1>8, LoopTurns DEF CleanupDone, StoppedChild, Settled, Turned
  <2> QED
    BY <2>1, <2>2, <2>3
<1>9. CASE CleanupFails
  BY <1>9 DEF CleanupFails, Settled
<1>10. CASE StopProceeds
  BY <1>10 DEF StopProceeds
<1>11. CASE StopDone
  <2>1. recent' \in 0..Budget /\ live' \in Nat /\ failures' \in Nat
    BY <1>11, LoopTurns DEF StopDone, StoppedChild, Continues, Turned
  <2>2. /\ chained' \in BOOLEAN /\ aborted' \in BOOLEAN /\ closed' \in BOOLEAN
        /\ owned' \in BOOLEAN /\ answered' \in BOOLEAN /\ stale' \in BOOLEAN
    BY <1>11, LoopTurns DEF StopDone, StoppedChild, Continues, Turned
  <2>3. /\ state' \in {"stopped", "starting", "ready", "degraded", "backing_off", "failed", "stopping"}
        /\ starting' \in {"none", "delay", "port", "wait", "probe", "cleanup"}
        /\ stopping' \in {"none", "waiting", "cleanup"}
        /\ restarting' \in {"none", "stop", "start"}
    BY <1>11, LoopTurns DEF StopDone, StoppedChild, Continues, Turned
  <2> QED
    BY <2>1, <2>2, <2>3
<1>12. CASE StopFails
  BY <1>12 DEF StopFails
<1>13. CASE Answer
  BY <1>13 DEF Answer
<1>14. CASE Shutdown
  <2>1. recent' \in 0..Budget /\ live' \in Nat /\ failures' \in Nat
    BY <1>14 DEF Shutdown
  <2>2. /\ chained' \in BOOLEAN /\ aborted' \in BOOLEAN /\ closed' \in BOOLEAN
        /\ owned' \in BOOLEAN /\ answered' \in BOOLEAN /\ stale' \in BOOLEAN
    BY <1>14 DEF Shutdown, StopCall
  <2>3. /\ state' \in {"stopped", "starting", "ready", "degraded", "backing_off", "failed", "stopping"}
        /\ stopping' \in {"none", "waiting", "cleanup"}
    BY <1>14 DEF Shutdown, StopCall, StopFirst
  <2>4. /\ starting' \in {"none", "delay", "port", "wait", "probe", "cleanup"}
        /\ restarting' \in {"none", "stop", "start"}
    BY <1>14 DEF Shutdown
  <2> QED
    BY <2>1, <2>2, <2>3, <2>4
<1>15. CASE Restart
  <2>1. recent' \in 0..Budget /\ live' \in Nat /\ failures' \in Nat
    BY <1>15 DEF Restart, StopCall, StopFirst
  <2>2. /\ chained' \in BOOLEAN /\ aborted' \in BOOLEAN /\ closed' \in BOOLEAN
        /\ owned' \in BOOLEAN /\ answered' \in BOOLEAN /\ stale' \in BOOLEAN
    BY <1>15 DEF Restart, StopCall, StopFirst
  <2>3. /\ state' \in {"stopped", "starting", "ready", "degraded", "backing_off", "failed", "stopping"}
        /\ starting' \in {"none", "delay", "port", "wait", "probe", "cleanup"}
        /\ stopping' \in {"none", "waiting", "cleanup"}
        /\ restarting' \in {"none", "stop", "start"}
    BY <1>15 DEF Restart, StopCall, StopFirst
  <2> QED
    BY <2>1, <2>2, <2>3
<1>16. CASE Exit
  <2>1. live' \in Nat
    BY <1>16 DEF Exit
  <2>2. owned' = FALSE /\ UNCHANGED <<stopping, restarting, closed>>
    BY <1>16 DEF Exit
  <2>3. /\ chained' \in BOOLEAN /\ aborted' \in BOOLEAN
        /\ answered' \in BOOLEAN /\ stale' \in BOOLEAN
    BY <1>16, LoopTurns DEF Exit, Turned
  <2>4. recent' \in 0..Budget /\ failures' \in Nat
    <3>1. recent' = recent \/ Turned
      BY <1>16, LoopTurns DEF Exit
    <3>2. failures' \in {0, failures}
      BY <1>16 DEF Exit
    <3> QED
      BY <3>1, <3>2 DEF Turned
  <2>5. /\ state' \in {state, "degraded", "failed", "backing_off", "starting"}
        /\ starting' \in {starting, "none", "delay", "port", "cleanup"}
    BY <1>16, LoopTurns DEF Exit, Turned
  <2> QED
    BY <2>1, <2>2, <2>3, <2>4, <2>5, ZenonT(60)
<1>17. CASE Expire
  BY <1>17 DEF Expire
<1>18. CASE UNCHANGED vars
  BY <1>18 DEF vars
<1> QED
  BY <1>1, <1>2, <1>3, <1>4, <1>5, <1>6, <1>7, <1>8, <1>9, <1>10, <1>11,
    <1>12, <1>13, <1>14, <1>15, <1>16, <1>17, <1>18 DEF Next, RunStart,
    StopSteps

\* A process is spawned only when none is owned, a process that is forgotten has
\* exited, and a delay is entered only below the budget.
LEMMA ProcessKept == ASSUME IInv, [Next]_vars PROVE OneBackend' /\ SpawnsAlone' /\ DelayHasRoom'
<1> USE BudgetAssumption DEF IInv, TypeOK, OneBackend, SpawnsAlone, DelayHasRoom
<1>1. CASE DelayOver
  BY <1>1 DEF DelayOver, Attempt
<1>2. CASE DelayAborted
  BY <1>2 DEF DelayAborted, Settled
<1>3. CASE Spawn
  BY <1>3 DEF Spawn
<1>4. CASE PortOpen
  BY <1>4 DEF PortOpen
<1>5. CASE Ready
  BY <1>5 DEF Ready, Usable, Settled
<1>6. CASE StartFails
  BY <1>6 DEF StartFails
<1>7. CASE TimesOut
  BY <1>7 DEF TimesOut
<1>8. CASE CleanupDone
  BY <1>8, LoopTurns DEF CleanupDone, StoppedChild, Settled, Turned
<1>9. CASE CleanupFails
  BY <1>9 DEF CleanupFails, Settled
<1>10. CASE StopProceeds
  BY <1>10 DEF StopProceeds
<1>11. CASE StopDone
  BY <1>11, LoopTurns DEF StopDone, StoppedChild, Continues, Turned
<1>12. CASE StopFails
  BY <1>12 DEF StopFails
<1>13. CASE Answer
  BY <1>13 DEF Answer
<1>14. CASE Shutdown
  BY <1>14 DEF Shutdown, StopCall, StopFirst
<1>15. CASE Restart
  BY <1>15 DEF Restart, StopCall, StopFirst
<1>16. CASE Exit
  <2>0. owned /\ owned' = FALSE /\ live' = live - 1 /\ UNCHANGED <<stopping, restarting, closed>>
    BY <1>16 DEF Exit
  <2>1. CASE Expected
    BY <1>16, <2>0, <2>1 DEF Exit
  <2>2. CASE ~Expected /\ (starting # "none" \/ stopping # "none")
    BY <1>16, <2>0, <2>2 DEF Exit
  <2>3. CASE ~Expected /\ ~(starting # "none" \/ stopping # "none")
    <3>1. Turned /\ aborted' = FALSE /\ chained' = chained /\ failures' = 0
      BY <1>16, <2>3, LoopTurns DEF Exit
    <3> QED
      BY <2>0, <2>3, <3>1 DEF Turned
  <2> QED
    BY <2>1, <2>2, <2>3
<1>17. CASE Expire
  BY <1>17 DEF Expire
<1>18. CASE UNCHANGED vars
  BY <1>18 DEF vars
<1> QED
  BY <1>1, <1>2, <1>3, <1>4, <1>5, <1>6, <1>7, <1>8, <1>9, <1>10, <1>11,
    <1>12, <1>13, <1>14, <1>15, <1>16, <1>17, <1>18 DEF Next, RunStart,
    StopSteps

\* From its call to its end a stop keeps the start aborted.
LEMMA StopKept == ASSUME IInv, [Next]_vars PROVE StopAborts' /\ StopWaits'
<1> USE BudgetAssumption DEF IInv, TypeOK, StopAborts, StopWaits
<1>1. CASE DelayOver
  BY <1>1 DEF DelayOver, Attempt
<1>2. CASE DelayAborted
  BY <1>2 DEF DelayAborted, Settled
<1>3. CASE Spawn
  BY <1>3 DEF Spawn
<1>4. CASE PortOpen
  BY <1>4 DEF PortOpen
<1>5. CASE Ready
  BY <1>5 DEF Ready, Usable, Settled
<1>6. CASE StartFails
  BY <1>6 DEF StartFails
<1>7. CASE TimesOut
  BY <1>7 DEF TimesOut
<1>8. CASE CleanupDone
  BY <1>8, LoopTurns DEF CleanupDone, StoppedChild, Settled, Turned
<1>9. CASE CleanupFails
  BY <1>9 DEF CleanupFails, Settled
<1>10. CASE StopProceeds
  BY <1>10 DEF StopProceeds
<1>11. CASE StopDone
  BY <1>11, LoopTurns DEF StopDone, StoppedChild, Continues, Turned
<1>12. CASE StopFails
  BY <1>12 DEF StopFails
<1>13. CASE Answer
  BY <1>13 DEF Answer
<1>14. CASE Shutdown
  BY <1>14 DEF Shutdown, StopCall, StopFirst
<1>15. CASE Restart
  BY <1>15 DEF Restart, StopCall, StopFirst
<1>16. CASE Exit
  <2>0. owned /\ owned' = FALSE /\ live' = live - 1 /\ UNCHANGED <<stopping, restarting, closed>>
    BY <1>16 DEF Exit
  <2>1. CASE Expected
    BY <1>16, <2>0, <2>1 DEF Exit
  <2>2. CASE ~Expected /\ (starting # "none" \/ stopping # "none")
    BY <1>16, <2>0, <2>2 DEF Exit
  <2>3. CASE ~Expected /\ ~(starting # "none" \/ stopping # "none")
    <3>1. Turned /\ aborted' = FALSE /\ chained' = chained /\ failures' = 0
      BY <1>16, <2>3, LoopTurns DEF Exit
    <3> QED
      BY <2>0, <2>3, <3>1 DEF Turned
  <2> QED
    BY <2>1, <2>2, <2>3
<1>17. CASE Expire
  BY <1>17 DEF Expire
<1>18. CASE UNCHANGED vars
  BY <1>18 DEF vars
<1> QED
  BY <1>1, <1>2, <1>3, <1>4, <1>5, <1>6, <1>7, <1>8, <1>9, <1>10, <1>11,
    <1>12, <1>13, <1>14, <1>15, <1>16, <1>17, <1>18 DEF Next, RunStart,
    StopSteps

\* After a stop nothing begins before the next request.
LEMMA QuietKept == ASSUME IInv, [Next]_vars PROVE StoppedIsQuiet'
<1> USE BudgetAssumption DEF IInv, TypeOK, OneBackend, StopWaits, StopAborts, StoppedIsQuiet
<1>1. CASE DelayOver
  BY <1>1 DEF DelayOver, Attempt
<1>2. CASE DelayAborted
  BY <1>2 DEF DelayAborted, Settled
<1>3. CASE Spawn
  BY <1>3 DEF Spawn
<1>4. CASE PortOpen
  BY <1>4 DEF PortOpen
<1>5. CASE Ready
  BY <1>5 DEF Ready, Usable, Settled
<1>6. CASE StartFails
  BY <1>6 DEF StartFails
<1>7. CASE TimesOut
  BY <1>7 DEF TimesOut
<1>8. CASE CleanupDone
  BY <1>8, LoopTurns DEF CleanupDone, StoppedChild, Settled, Turned
<1>9. CASE CleanupFails
  BY <1>9 DEF CleanupFails, Settled
<1>10. CASE StopProceeds
  BY <1>10 DEF StopProceeds
<1>11. CASE StopDone
  <2>1. owned' = FALSE /\ live' = 0 /\ starting = "none" /\ chained' = FALSE
    BY <1>11 DEF StopDone, StoppedChild
  <2>2. CASE Continues
    BY <1>11, <2>2, LoopTurns DEF StopDone, Turned
  <2>3. CASE ~Continues
    BY <1>11, <2>1, <2>3 DEF StopDone
  <2> QED
    BY <2>2, <2>3
<1>12. CASE StopFails
  BY <1>12 DEF StopFails
<1>13. CASE Answer
  BY <1>13 DEF Answer
<1>14. CASE Shutdown
  BY <1>14 DEF Shutdown, StopCall, StopFirst
<1>15. CASE Restart
  BY <1>15 DEF Restart, StopCall, StopFirst
<1>16. CASE Exit
  <2>0. owned /\ owned' = FALSE /\ live' = live - 1 /\ UNCHANGED <<stopping, restarting, closed>>
    BY <1>16 DEF Exit
  <2>1. CASE Expected
    BY <1>16, <2>0, <2>1 DEF Exit
  <2>2. CASE ~Expected /\ (starting # "none" \/ stopping # "none")
    BY <1>16, <2>0, <2>2 DEF Exit
  <2>3. CASE ~Expected /\ ~(starting # "none" \/ stopping # "none")
    <3>1. Turned /\ aborted' = FALSE /\ chained' = chained /\ failures' = 0
      BY <1>16, <2>3, LoopTurns DEF Exit
    <3> QED
      BY <2>0, <2>3, <3>1 DEF Turned
  <2> QED
    BY <2>1, <2>2, <2>3
<1>17. CASE Expire
  BY <1>17 DEF Expire
<1>18. CASE UNCHANGED vars
  BY <1>18 DEF vars
<1> QED
  BY <1>1, <1>2, <1>3, <1>4, <1>5, <1>6, <1>7, <1>8, <1>9, <1>10, <1>11,
    <1>12, <1>13, <1>14, <1>15, <1>16, <1>17, <1>18 DEF Next, RunStart,
    StopSteps

-------------------------------------------------------------------------------

\* The invariant of the supervisor holds in every state.
THEOREM SupervisorInvariance == Spec => []IInv
<1>1. IInv /\ [Next]_vars => IInv'
  BY TypesKept, ProcessKept, StopKept, QuietKept DEF IInv
<1> QED
  BY Initially, <1>1, PTL DEF Spec

\* At every moment there is at most one backend process, and it is owned.
THEOREM OneBackendAlways == Spec => []OneBackend
<1>1. IInv => OneBackend
  BY DEF IInv
<1> QED
  BY SupervisorInvariance, <1>1, PTL

\* A stop that has succeeded leaves no process, no start and none to come.
THEOREM StoppedStaysQuiet == Spec => []StoppedIsQuiet
<1>1. IInv => StoppedIsQuiet
  BY DEF IInv
<1> QED
  BY SupervisorInvariance, <1>1, PTL

\* A stop in progress is never overtaken by the readiness of the start it aborts.
THEOREM StopAlwaysPrevails == Spec => StopPrevails
<1>1. IInv /\ IInv' /\ [Next]_vars => [stopping # "none" => state' # "ready"]_vars
  <2> SUFFICES ASSUME IInv, [Next]_vars, stopping # "none" PROVE state' # "ready"
    OBVIOUS
  <2> USE DEF IInv, StopAborts
  <2>1. CASE DelayOver
    BY <2>1 DEF DelayOver, Attempt
  <2>2. CASE DelayAborted
    BY <2>2 DEF DelayAborted, Settled
  <2>3. CASE Spawn
    BY <2>3 DEF Spawn
  <2>4. CASE PortOpen
    BY <2>4 DEF PortOpen
  <2>5. CASE Ready
    BY <2>5 DEF Ready, Settled, Usable
  <2>6. CASE StartFails
    BY <2>6 DEF StartFails
  <2>7. CASE TimesOut
    BY <2>7 DEF TimesOut
  <2>8. CASE CleanupDone
    BY <2>8 DEF CleanupDone, StoppedChild, Settled, Loop, Attempt
  <2>9. CASE CleanupFails
    BY <2>9 DEF CleanupFails, Settled
  <2>10. CASE StopProceeds
    BY <2>10 DEF StopProceeds
  <2>11. CASE StopDone
    BY <2>11 DEF StopDone, StoppedChild, Continues, Loop, Attempt
  <2>12. CASE StopFails
    BY <2>12 DEF StopFails
  <2>13. CASE Answer
    BY <2>13 DEF Answer
  <2>14. CASE Shutdown
    BY <2>14 DEF Shutdown, StopCall, StopFirst
  <2>15. CASE Restart
    BY <2>15 DEF Restart, StopCall, StopFirst
  <2>16. CASE Exit
    BY <2>16 DEF Exit, Expected, Loop, Attempt
  <2>17. CASE Expire
    BY <2>17 DEF Expire
  <2>18. CASE UNCHANGED vars
    BY <2>18 DEF vars
  <2> QED
    BY <2>1, <2>2, <2>3, <2>4, <2>5, <2>6, <2>7, <2>8, <2>9, <2>10, <2>11,
      <2>12, <2>13, <2>14, <2>15, <2>16, <2>17, <2>18 DEF Next, RunStart,
      StopSteps
<1> QED
  BY SupervisorInvariance, <1>1, PTL DEF Spec, StopPrevails

-------------------------------------------------------------------------------

\* Whatever the supervisor says is under way, an operation is at work on; a restart
\* and a start asked for meanwhile have the operation they await.
NothingAdrift ==
  /\ state \in {"degraded", "backing_off", "starting", "stopping"} =>
       starting # "none" \/ stopping # "none"
  /\ restarting = "stop" \/ chained => stopping # "none"
  /\ restarting = "start" => starting # "none"

\* Ready is said of a process that is owned, or was lost with its answer on its
\* way, and only while nothing is under way.
ReadyIsAlive == state = "ready" => starting = "none" /\ stopping = "none" /\ (owned \/ stale)

\* What makes both inductive: the state of a start, the answer a probe holds, and the end of the application.
ProbeInv == starting = "probe" /\ answered => owned \/ stale
ClosedInv == closed => state # "ready" /\ (stopping # "none" \/ starting = "none")

StartInv == starting # "none" =>
  state \in {"starting", "backing_off", "stopping"} /\ (aborted => stopping # "none")

OperationsInv == NothingAdrift /\ ReadyIsAlive /\ StartInv /\ ProbeInv /\ ClosedInv

\* Every step keeps them, given the invariant of the supervisor.
LEMMA OperationsKept == ASSUME IInv, OperationsInv, [Next]_vars PROVE OperationsInv'
<1> USE BudgetAssumption DEF IInv, TypeOK, OneBackend, StopWaits, StopAborts, OperationsInv, NothingAdrift,
      ReadyIsAlive, StartInv, ProbeInv, ClosedInv
<1>1. CASE DelayOver
  BY <1>1 DEF DelayOver, Attempt
<1>2. CASE DelayAborted
  BY <1>2 DEF DelayAborted, Settled
<1>3. CASE Spawn
  BY <1>3 DEF Spawn
<1>4. CASE PortOpen
  BY <1>4 DEF PortOpen
<1>5. CASE Ready
  BY <1>5 DEF Ready, Usable, Settled
<1>6. CASE StartFails
  BY <1>6 DEF StartFails
<1>7. CASE TimesOut
  BY <1>7 DEF TimesOut
<1>8. CASE CleanupDone
  BY <1>8, LoopTurns DEF CleanupDone, StoppedChild, Settled, Turned
<1>9. CASE CleanupFails
  BY <1>9 DEF CleanupFails, Settled
<1>10. CASE StopProceeds
  BY <1>10 DEF StopProceeds
<1>11. CASE StopDone
  <2>1. owned' = FALSE /\ live' = 0 /\ starting = "none" /\ chained' = FALSE
    BY <1>11 DEF StopDone, StoppedChild
  <2>2. CASE Continues
    <3>1. /\ Turned /\ aborted' = FALSE /\ ~closed' /\ stopping' = "none"
          /\ restarting' = IF restarting = "stop" /\ starting' # "none" THEN "start" ELSE "none"
      BY <1>11, <2>2, LoopTurns DEF StopDone, Continues
    <3> QED
      BY <2>1, <3>1 DEF Turned
  <2>3. CASE ~Continues
    BY <1>11, <2>1, <2>3 DEF StopDone
  <2> QED
    BY <2>2, <2>3
<1>12. CASE StopFails
  BY <1>12 DEF StopFails
<1>13. CASE Answer
  BY <1>13 DEF Answer
<1>14. CASE Shutdown
  BY <1>14 DEF Shutdown, StopCall, StopFirst
<1>15. CASE Restart
  BY <1>15 DEF Restart, StopCall, StopFirst
<1>16. CASE Exit
  <2>0. owned /\ owned' = FALSE /\ live' = live - 1 /\ UNCHANGED <<stopping, restarting, closed>>
    BY <1>16 DEF Exit, Expected
  <2>1. CASE Expected
    <3>1. /\ answered' => stale'
          /\ stale => stale'
          /\ UNCHANGED <<state, starting, chained, aborted>>
      BY <1>16, <2>1 DEF Exit
    <3>2. state # "ready"
      BY <2>1 DEF Expected
    <3> QED
      BY <2>0, <3>1, <3>2
  <2>2. CASE ~Expected /\ (starting # "none" \/ stopping # "none")
    BY <1>16, <2>0, <2>2 DEF Exit, Expected
  <2>3. CASE ~Expected /\ ~(starting # "none" \/ stopping # "none")
    <3>1. Turned /\ aborted' = FALSE /\ chained' = chained /\ failures' = 0
      BY <1>16, <2>3, LoopTurns DEF Exit, Expected
    <3>2. ~closed' /\ ~chained
      BY <2>0, <2>3 DEF Expected
    <3>3. restarting' = "none"
      BY <2>0, <2>3
    <3> QED
      BY <2>0, <2>3, <3>1, <3>2, <3>3 DEF Turned
  <2> QED
    BY <2>1, <2>2, <2>3
<1>17. CASE Expire
  BY <1>17 DEF Expire
<1>18. CASE UNCHANGED vars
  BY <1>18 DEF vars
<1> QED
  BY <1>1, <1>2, <1>3, <1>4, <1>5, <1>6, <1>7, <1>8, <1>9, <1>10, <1>11,
    <1>12, <1>13, <1>14, <1>15, <1>16, <1>17, <1>18 DEF Next, RunStart,
    StopSteps

\* What the supervisor says is under way has an operation that will end it, and a
\* backend it says is ready has not been lost since.
THEOREM NoOperationLost == Spec => [](NothingAdrift /\ ReadyIsAlive)
<1>1. Init => OperationsInv
  BY DEF Init, OperationsInv, NothingAdrift, ReadyIsAlive, StartInv, ProbeInv, ClosedInv
<1>2. IInv /\ OperationsInv /\ [Next]_vars => OperationsInv'
  BY OperationsKept
<1>3. OperationsInv => NothingAdrift /\ ReadyIsAlive
  BY DEF OperationsInv
<1> QED
  BY SupervisorInvariance, <1>1, <1>2, <1>3, PTL DEF Spec
===============================================================================
