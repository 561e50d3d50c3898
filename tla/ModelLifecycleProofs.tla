------------------------ MODULE ModelLifecycleProofs ------------------------
(***************************************************************************)
(* Proofs about ModelLifecycle, for every set of models, requests and      *)
(* ports.                                                                  *)
(***************************************************************************)
EXTENDS ModelLifecycleInvariant, TLAPS

USE RoleAssumption, PortsAssumption, AgentAssumption, BoundAssumption

------------------------------------------------------------------------------
(* The lock's queue.                                                       *)

Distinct(q) == \A i, j \in 1..Len(q) : q[i] = q[j] => i = j
Elements(q) == {q[i] : i \in 1..Len(q)}
Removed(q, i) == [k \in 1..Len(q) - 1 |-> IF k < i THEN q[k] ELSE q[k + 1]]

\* The head of a queue is its first element.
LEMMA HeadIsFirst ==
  ASSUME NEW q \in Seq(Agents), Len(q) # 0
  PROVE  q # <<>> /\ Head(q) = q[1]
OBVIOUS

\* The head leaves the queue and nobody else does.
LEMMA PopQueue ==
  ASSUME NEW q \in Seq(Agents), q # <<>>, Distinct(q)
  PROVE  /\ Tail(q) \in Seq(Agents) /\ Distinct(Tail(q))
         /\ Elements(Tail(q)) = Elements(q) \ {Head(q)}
         /\ Head(q) \in Elements(q) /\ Head(q) \in Agents
<1>1. Tail(q) \in Seq(Agents) /\ Len(Tail(q)) = Len(q) - 1 /\ Len(q) \in Nat \ {0}
  OBVIOUS
<1>2. \A i \in 1..Len(Tail(q)) : Tail(q)[i] = q[i + 1]
  OBVIOUS
<1>3. Head(q) = q[1] /\ q[1] \in Agents
  OBVIOUS
<1>4. Distinct(Tail(q))
  BY <1>1, <1>2 DEF Distinct
<1>5. Elements(Tail(q)) = Elements(q) \ {Head(q)}
  <2>1. ASSUME NEW i \in 1..Len(q), q[i] # q[1] PROVE q[i] \in Elements(Tail(q))
    <3>1. i - 1 \in 1..Len(Tail(q)) /\ Tail(q)[i - 1] = q[i]
      BY <1>1, <1>2, <2>1
    <3> QED BY <3>1 DEF Elements
  <2>2. ASSUME NEW i \in 1..Len(Tail(q)) PROVE Tail(q)[i] \in Elements(q) \ {q[1]}
    <3>1. i + 1 \in 1..Len(q) /\ Tail(q)[i] = q[i + 1] /\ q[i + 1] # q[1]
      BY <1>1, <1>2 DEF Distinct
    <3> QED BY <3>1 DEF Elements
  <2> QED BY <1>3, <2>1, <2>2 DEF Elements
<1> QED BY <1>1, <1>3, <1>4, <1>5 DEF Elements

\* A newcomer goes to the end of the queue.
LEMMA PushQueue ==
  ASSUME NEW q \in Seq(Agents), Distinct(q), NEW a \in Agents, a \notin Elements(q)
  PROVE  /\ Append(q, a) \in Seq(Agents) /\ Distinct(Append(q, a))
         /\ Elements(Append(q, a)) = Elements(q) \cup {a}
         /\ q # <<>> => Head(Append(q, a)) = Head(q)
         /\ Append(q, a) # <<>>
<1>1. /\ Append(q, a) \in Seq(Agents) /\ Len(Append(q, a)) = Len(q) + 1 /\ Len(q) \in Nat
      /\ \A i \in 1..Len(q) : Append(q, a)[i] = q[i]
      /\ Append(q, a)[Len(q) + 1] = a
  OBVIOUS
<1>2. Distinct(Append(q, a))
  BY <1>1 DEF Distinct, Elements
<1>3. Elements(Append(q, a)) = Elements(q) \cup {a}
  <2>1. ASSUME NEW i \in 1..Len(q) PROVE q[i] \in Elements(Append(q, a))
    BY <1>1 DEF Elements
  <2>2. a \in Elements(Append(q, a))
    BY <1>1 DEF Elements
  <2>3. ASSUME NEW i \in 1..Len(Append(q, a)) PROVE Append(q, a)[i] \in Elements(q) \cup {a}
    BY <1>1 DEF Elements
  <2> QED BY <2>1, <2>2, <2>3 DEF Elements
<1>4. Append(q, a) # <<>>
  BY <1>1
<1>5. q # <<>> => Head(Append(q, a)) = Head(q)
  <2>1. q # <<>> => 1 \in 1..Len(q) /\ Head(q) = q[1]
    OBVIOUS
  <2>2. Head(Append(q, a)) = Append(q, a)[1]
    BY <1>1
  <2> QED BY <1>1, <2>1, <2>2
<1> QED BY <1>1, <1>2, <1>3, <1>4, <1>5

\* A cancelled waiter leaves its place, whoever is before and behind it.
LEMMA DropQueue ==
  ASSUME NEW q \in Seq(Agents), Distinct(q), NEW i \in 1..Len(q)
  PROVE  /\ Removed(q, i) \in Seq(Agents) /\ Distinct(Removed(q, i))
         /\ Elements(Removed(q, i)) = Elements(q) \ {q[i]}
         /\ i # 1 => Removed(q, i) # <<>> /\ Head(Removed(q, i)) = Head(q)
<1>0. PICK d : d = Removed(q, i)
  OBVIOUS
<1>1. d \in Seq(Agents) /\ Len(d) = Len(q) - 1 /\ Len(q) \in Nat \ {0} /\ DOMAIN d = 1..Len(d)
  <2>1. Len(q) - 1 \in Nat /\ \A k \in 1..Len(q) - 1 : k \in 1..Len(q) /\ k + 1 \in 1..Len(q)
    OBVIOUS
  <2>2. d \in [1..Len(q) - 1 -> Agents]
    BY <1>0, <2>1 DEF Removed
  <2>3. PICK n \in Nat : n = Len(q) - 1
    BY <2>1
  <2>4. d \in Seq(Agents) /\ Len(d) = n /\ DOMAIN d = 1..n
    BY <2>2, <2>3
  <2> QED BY <2>3, <2>4
<1>2. \A k \in 1..Len(d) : d[k] = IF k < i THEN q[k] ELSE q[k + 1]
  BY <1>0, <1>1 DEF Removed
<1>3. Distinct(d)
  BY <1>1, <1>2 DEF Distinct
<1>4. ASSUME NEW k \in 1..Len(q), q[k] # q[i] PROVE q[k] \in Elements(d)
  <2>1. CASE k < i
    BY <1>1, <1>2, <2>1 DEF Elements
  <2>2. CASE k > i
    <3>1. k - 1 \in 1..Len(d) /\ d[k - 1] = q[k]
      BY <1>1, <1>2, <2>2
    <3> QED BY <3>1 DEF Elements
  <2> QED BY <1>4, <2>1, <2>2
<1>5. ASSUME NEW k \in 1..Len(d) PROVE d[k] \in Elements(q) \ {q[i]}
  BY <1>1, <1>2 DEF Distinct, Elements
<1>6. ASSUME i # 1 PROVE d # <<>> /\ Head(d) = Head(q)
  <2>1. Len(d) # 0 /\ 1 \in 1..Len(d) /\ d[1] = q[1]
    BY <1>1, <1>2, <1>6, SMTT(30)
  <2>2. Head(q) = q[1] /\ q # <<>>
    OBVIOUS
  <2>3. d # <<>> /\ Head(d) = d[1]
    BY <1>1, <2>1, HeadIsFirst
  <2> QED BY <2>1, <2>2, <2>3
<1>7. Elements(d) = Elements(q) \ {q[i]}
  <2>1. Elements(d) \subseteq Elements(q) \ {q[i]}
    BY <1>5 DEF Elements
  <2>2. Elements(q) \ {q[i]} \subseteq Elements(d)
    <3> SUFFICES ASSUME NEW k \in 1..Len(q), q[k] # q[i] PROVE q[k] \in Elements(d)
      BY DEF Elements
    <3> QED BY <1>4
  <2> QED BY <2>1, <2>2
<1> QED BY <1>0, <1>1, <1>3, <1>6, <1>7

------------------------------------------------------------------------------
(* One active model for each role.  This needs nothing else.               *)

RowStates == {"new", "imported", "active", "error", "deleted"}
RowType == row \in [Models -> RowStates]
One(rows) ==
  \A m, n \in Models : rows[m] = "active" /\ rows[n] = "active" /\ Role[m] = Role[n] => m = n

\* Marking a row keeps the rest, and activating one demotes its siblings.
LEMMA MarkedRows ==
  ASSUME NEW rows \in [Models -> RowStates], NEW m, NEW s \in RowStates
  PROVE  /\ Marked(rows, m, s) \in [Models -> RowStates]
         /\ \A n \in Models : n # m => Marked(rows, m, s)[n] = rows[n]
         /\ m \in Models => Marked(rows, m, s)[m] = IF rows[m] = "deleted" THEN "deleted" ELSE s
         /\ s # "active" /\ One(rows) => One(Marked(rows, m, s))
BY DEF Marked, One

LEMMA ActivatedRows ==
  ASSUME NEW rows \in [Models -> RowStates], NEW m
  PROVE  /\ Activated(rows, m) \in [Models -> RowStates]
         /\ \A n \in Models : n # m /\ Activated(rows, m)[n] = "active" => rows[n] = "active"
         /\ m \in Models => Activated(rows, m)[m] = IF rows[m] = "deleted" THEN "deleted" ELSE "active"
         /\ \A n \in Models : rows[n] # "active" /\ n # m => Activated(rows, m)[n] = rows[n]
         /\ m \in Models /\ rows[m] # "deleted" =>
              \A n \in Models : n # m /\ Role[n] = Role[m] => Activated(rows, m)[n] # "active"
         /\ \A n \in Models : m \in Models /\ Role[n] # Role[m] => Activated(rows, m)[n] = rows[n]
         /\ One(rows) => One(Activated(rows, m))
<1>1. Activated(rows, m) \in [Models -> RowStates]
  BY DEF Activated, RowStates
<1>2. CASE rows[m] = "deleted"
  BY <1>2 DEF Activated
<1>3. CASE rows[m] # "deleted"
  <2>1. \A n \in Models : Activated(rows, m)[n] =
          IF n = m THEN "active"
          ELSE IF Role[n] = Role[m] /\ rows[n] = "active" THEN "imported" ELSE rows[n]
    BY <1>3 DEF Activated, Siblings
  <2>2. One(rows) => One(Activated(rows, m))
    BY <2>1 DEF One
  <2> QED BY <1>1, <1>3, <2>1, <2>2
<1> QED BY <1>2, <1>3

\* What a handler commits keeps the rows' type and one active model.
LEMMA WrittenRows ==
  ASSUME NEW rows \in [Models -> RowStates], NEW a, NEW ok \in BOOLEAN
  PROVE  /\ Written(a, rows, ok) \in [Models -> RowStates]
         /\ One(rows) => One(Written(a, rows, ok))
<1>1. "error" \in RowStates /\ "imported" \in RowStates
  BY DEF RowStates
<1> QED BY <1>1, MarkedRows, ActivatedRows DEF Written

\* What follows the end of an unload writes one of these.
LEMMA ProceedRows ==
  ASSUME NEW rows \in [Models -> RowStates], NEW a, NEW used, NEW alive,
         Proceed(a, rows, used, alive)
  PROVE  row' \in [Models -> RowStates] /\ (One(rows) => One(row'))
<1>1. row' = rows \/ \E ok \in BOOLEAN : row' = Written(a, rows, ok)
  <2>1. row' = rows \/ row' = Written(a, rows, FALSE) \/ row' = Written(a, rows, TRUE)
    BY DEF Proceed, Answer
  <2> QED BY <2>1
<1>2. CASE \E ok \in BOOLEAN : row' = Written(a, rows, ok)
  <2>1. PICK ok \in BOOLEAN : row' = Written(a, rows, ok)
    BY <1>2
  <2> QED BY <2>1, WrittenRows
<1> QED BY <1>1, <1>2

LEMMA NextProbeRows ==
  ASSUME NEW rows, NextProbe(rows)
  PROVE  row' = rows
BY DEF NextProbe, Answer

LEMMA RowStep ==
  ASSUME RowType, OneActive, [Next]_vars
  PROVE  RowType' /\ OneActive'
<1> USE DEF RowType
<1>0. One(row) /\ (One(row') => OneActive')
  BY DEF One, OneActive
<1>u. CASE UNCHANGED row
  BY <1>u DEF OneActive
<1>1. CASE SectionStep
  <2>1. CASE Enter
    <3>1. PICK a : EnterLoad(a) \/ EnterUnload(a) \/ EnterProbe(a)
      BY <2>1 DEF Enter
    <3>2. \/ UNCHANGED row \/ Proceed(a, row, inUse, live)
          \/ row' = Written(a, row, FALSE) \/ row' = Written(a, row, TRUE)
      BY <3>1 DEF EnterLoad, EnterUnload, EnterProbe, Answer, BeginUnload
    <3>3. CASE row' = Written(a, row, FALSE)
      BY <1>0, <3>3, WrittenRows
    <3>4. CASE row' = Written(a, row, TRUE)
      BY <1>0, <3>4, WrittenRows
    <3>5. CASE Proceed(a, row, inUse, live)
      BY <1>0, <3>5, ProceedRows
    <3> QED BY <1>u, <3>2, <3>3, <3>4, <3>5
  <2>2. CASE ProbeGood \/ ProbeBad \/ Spawned
    BY <1>u, <2>2, NextProbeRows DEF ProbeGood, ProbeBad, BeginUnload, Spawned
  <2>3. CASE Unloaded
    <3>1. PICK a, v : \/ NextProbe(Marked(Released(v), v, "error"))
                      \/ Proceed(a, Released(v), PortsReleased, live')
      BY <2>3 DEF Unloaded, Stopped
    <3>2. "imported" \in RowStates /\ "error" \in RowStates
      BY DEF RowStates
    <3>3. Released(v) \in [Models -> RowStates] /\ One(Released(v))
      BY <1>0, <3>2, MarkedRows DEF Released
    <3>4. Marked(Released(v), v, "error") \in [Models -> RowStates]
            /\ One(Marked(Released(v), v, "error"))
      BY <3>2, <3>3, MarkedRows
    <3> QED BY <1>0, <3>1, <3>3, <3>4, NextProbeRows, ProceedRows
  <2>4. CASE StartFails
    <3>1. row' = Written(Head(lockq), row, FALSE)
      BY <2>4 DEF StartFails, Answer
    <3> QED BY <1>0, <3>1, WrittenRows
  <2>5. CASE Ready
    <3>1. PICK a, m : row' = Written(a, Activated(row, m), TRUE)
      BY <2>5 DEF Ready, Answer
    <3>2. Activated(row, m) \in [Models -> RowStates] /\ One(Activated(row, m))
      BY <1>0, ActivatedRows
    <3> QED BY <1>0, <3>1, <3>2, WrittenRows
  <2> QED BY <1>1, <2>1, <2>2, <2>3, <2>4, <2>5 DEF SectionStep
<1>2. CASE Cancel
  <2>1. UNCHANGED row \/ row' = Written(Head(lockq), row, FALSE)
    BY <1>2 DEF Cancel, CancelWaiting, CancelHolding, StartFails, Answer
  <2>2. CASE row' = Written(Head(lockq), row, FALSE)
    BY <1>0, <2>2, WrittenRows
  <2> QED BY <1>u, <2>1, <2>2
<1>3. CASE \E h \in Handlers, m \in Models : Edit(h, m)
  <2>1. PICK m \in Models : \/ row' = [row EXCEPT ![m] = "imported"]
                            \/ row' = [row EXCEPT ![m] = "deleted"]
    BY <1>3 DEF Edit, Importable
  <2>2. "imported" \in RowStates /\ "deleted" \in RowStates
    BY DEF RowStates
  <2> QED BY <1>0, <2>1, <2>2 DEF One
<1>4. CASE \/ \E m \in Models : Restore(m)
           \/ Started \/ \E h \in Handlers, m \in Models : Request(h, m)
           \/ Tick \/ Die \/ \E n \in 1..2 : Shutdown(n)
           \/ Quit
  BY <1>4, <1>u DEF Restore, Started, Request, Tick, Die, Shutdown, Quit, StopServers, StopTask, StopDone
<1>5. CASE UNCHANGED vars
  BY <1>5, <1>u DEF vars
<1> QED BY <1>1, <1>2, <1>3, <1>4, <1>5 DEF Next

\* No behaviour, however requests, cancellations, failures and shutdowns
\* interleave, commits two active models of one role.
THEOREM OneActiveModel == Spec => []OneActive
<1>1. Init => RowType /\ OneActive
  BY DEF Init, RowType, OneActive, RowStates
<1>2. RowType /\ OneActive /\ [Next]_vars => (RowType /\ OneActive)'
  BY RowStep
<1> QED BY <1>1, <1>2, PTL DEF Spec

------------------------------------------------------------------------------
(* Moves of the queue, and what they leave of the invariant.               *)

JobType == [op : Loads \cup {"deactivate", "idle"}, model : Models \cup {None},
            was : RowStates]

\* The holder is waiting in the queue and has something to do.
LEMMA HolderWaits ==
  ASSUME TypeOK, QueueInv, lockq # <<>>
  PROVE  Holder \in Waiting /\ Holder \in Agents
BY PopQueue DEF TypeOK, QueueInv, Waiting, Elements, Distinct, Holder

LEMMA Popped ==
  ASSUME TypeOK, QueueInv, lockq # <<>>, lockq' = Tail(lockq)
  PROVE  /\ lockq' \in Seq(Agents) /\ Distinct(lockq')
         /\ Waiting' = Waiting \ {Holder}
<1>1. Distinct(lockq) /\ lockq \in Seq(Agents)
  BY DEF QueueInv, TypeOK, Distinct
<1> QED BY <1>1, PopQueue DEF Waiting, Elements, Holder

LEMMA Pushed ==
  ASSUME TypeOK, QueueInv, NEW a \in Agents, a \notin Waiting, lockq' = Append(lockq, a)
  PROVE  /\ lockq' \in Seq(Agents) /\ Distinct(lockq')
         /\ Waiting' = Waiting \cup {a}
         /\ lockq' # <<>>
         /\ lockq # <<>> => Head(lockq') = Holder
<1>1. Distinct(lockq) /\ lockq \in Seq(Agents) /\ a \notin Elements(lockq)
  BY DEF QueueInv, TypeOK, Distinct, Waiting, Elements
<1> QED BY <1>1, PushQueue DEF Waiting, Elements, Holder

LEMMA Dropped ==
  ASSUME TypeOK, QueueInv, NEW i \in 1..Len(lockq), lockq' = Dequeued(i)
  PROVE  /\ lockq' \in Seq(Agents) /\ Distinct(lockq')
         /\ Waiting' = Waiting \ {lockq[i]}
         /\ lockq[i] # Holder => lockq' # <<>> /\ Head(lockq') = Holder
<1>1. Distinct(lockq) /\ lockq \in Seq(Agents)
  BY DEF QueueInv, TypeOK, Distinct
<1>2. lockq[i] # Holder => i # 1
  <2>1. Len(lockq) # 0 /\ Holder = lockq[1]
    BY <1>1, HeadIsFirst DEF Holder
  <2> QED BY <2>1
<1>3. /\ lockq' \in Seq(Agents) /\ Distinct(lockq')
      /\ Elements(lockq') = Elements(lockq) \ {lockq[i]}
      /\ i # 1 => lockq' # <<>> /\ Head(lockq') = Head(lockq)
  <2>1. lockq' = Removed(lockq, i)
    BY DEF Dequeued, Removed
  <2> QED BY <1>1, <2>1, DropQueue
<1> QED BY <1>2, <1>3 DEF Waiting, Elements, Holder

\* One agent leaves the queue and forgets its request.
LEMMA LeaveQueue ==
  ASSUME TypeOK, QueueInv, PhaseInv, NEW a \in Waiting,
         lockq' \in Seq(Agents), Distinct(lockq'), Waiting' = Waiting \ {a},
         job' = IF a \in DOMAIN job THEN [job EXCEPT ![a] = NoJob] ELSE job,
         UNCHANGED <<up, quit, todo, stopping>>
  PROVE  job' \in [Handlers \cup {Startup} -> JobType] /\ QueueInv' /\ PhaseInv'
<1>1. job \in [Handlers \cup {Startup} -> JobType] /\ NoJob \in JobType
  BY DEF TypeOK, JobType, RowStates, NoJob
<1>2. job' \in [Handlers \cup {Startup} -> JobType]
  BY <1>1
<1>3. \A b \in Handlers \cup {Startup} : job'[b] = IF b = a THEN NoJob ELSE job[b]
  BY <1>1
<1>4. NoJob.op = "idle"
  BY DEF NoJob
<1>5. QueueInv'
  <2>1. (\A i, j \in 1..Len(lockq) : lockq[i] = lockq[j] => i = j)'
    BY DEF Distinct
  <2>2. (\A b \in Handlers \cup {Startup} :
           /\ b \in Waiting <=> job[b].op # "idle"
           /\ job[b].op = "idle" => job[b] = NoJob
           /\ job[b].op # "idle" => job[b].model \in Models)'
    BY <1>3, <1>4 DEF QueueInv
  <2>3. (job[Startup].op \in {"idle", "restore"} /\ \A h \in Handlers : job[h].op # "restore")'
    BY <1>3, <1>4 DEF QueueInv
  <2> QED BY <2>1, <2>2, <2>3 DEF QueueInv
<1>6. PhaseInv'
  BY <1>3, <1>4 DEF PhaseInv
<1> QED BY <1>2, <1>5, <1>6

\* The section's end, as far as the queue is concerned.
LEMMA AnswerQueue ==
  ASSUME TypeOK, QueueInv, PhaseInv, lockq # <<>>, NEW rows, Answer(Holder, rows),
         UNCHANGED <<up, quit, todo, stopping>>
  PROVE  /\ lockq' \in Seq(Agents) /\ Waiting' = Waiting \ {Holder}
         /\ job' \in [Handlers \cup {Startup} -> JobType]
         /\ QueueInv' /\ PhaseInv' /\ cs' = Free /\ row' = rows
<1>1. lockq' = Tail(lockq) /\ cs' = Free /\ row' = rows
        /\ job' = IF Holder \in DOMAIN job THEN [job EXCEPT ![Holder] = NoJob] ELSE job
  BY DEF Answer, Holder
<1>2. lockq' \in Seq(Agents) /\ Distinct(lockq') /\ Waiting' = Waiting \ {Holder}
  BY <1>1, Popped
<1>3. Holder \in Waiting
  BY HolderWaits
<1> QED BY <1>1, <1>2, <1>3, LeaveQueue

\* While the section's place, registry, providers and ports stay and no
\* process is added, the holder keeping its request keeps what they say.
LEMMA QuietRuntime ==
  ASSUME TypeOK, SectionInv, RuntimeInv,
         UNCHANGED <<servers, provider, inUse, cs>>, live' \subseteq live,
         cs.pc # "free" => /\ lockq' # <<>> /\ Head(lockq') = Holder
                           /\ OpOf(Holder)' = OpOf(Holder)
                           /\ Holder # Monitor => ModelOf(Holder)' = ModelOf(Holder)
  PROVE  SectionInv' /\ RuntimeInv'
<1>1. SectionInv'
  <2>1. cs.pc # "free" => Holder' = Holder
    BY DEF Holder
  <2>2. OpOf(Holder) \in Loads => Holder # Monitor
    BY DEF OpOf, Loads
  <2> QED BY <2>1, <2>2 DEF SectionInv
<1>2. cs.pc = "health" => Holder # Monitor /\ Holder' = Holder
  BY DEF SectionInv, OpOf, Loads, Holder
<1>3. RuntimeInv'
  BY <1>2 DEF RuntimeInv, Registered, PortsOwned
<1> QED BY <1>1, <1>3

\* Asking for the lock adds the agent behind the others.
LEMMA Asked ==
  ASSUME TypeOK, QueueInv, SectionInv, NEW a \in Handlers \cup {Startup}, job[a] = NoJob,
         NEW m \in Models, NEW op \in Loads \cup {"deactivate"},
         a = Startup <=> op = "restore",
         Ask(a, op, m), UNCHANGED <<up, quit, cs>>
  PROVE  /\ lockq' \in Seq(Agents) /\ Waiting' = Waiting \cup {a}
         /\ job' \in [Handlers \cup {Startup} -> JobType]
         /\ \A b \in Handlers \cup {Startup} : job'[b] =
              IF b = a THEN [op |-> op, model |-> m, was |-> row[m]] ELSE job[b]
         /\ QueueInv'
         /\ cs.pc # "free" => /\ lockq' # <<>> /\ Head(lockq') = Holder
                              /\ OpOf(Holder)' = OpOf(Holder)
                              /\ Holder # Monitor => ModelOf(Holder)' = ModelOf(Holder)
<1>1. job \in [Handlers \cup {Startup} -> JobType] /\ row[m] \in RowStates
  BY DEF TypeOK, JobType, RowStates
<1>2. \A b \in Handlers \cup {Startup} : job'[b] =
         IF b = a THEN [op |-> op, model |-> m, was |-> row[m]] ELSE job[b]
  BY <1>1 DEF Ask
<1>3. job' \in [Handlers \cup {Startup} -> JobType]
  BY <1>1 DEF Ask, JobType
<1>4. a \notin Waiting /\ a \in Agents /\ lockq' = Append(lockq, a) /\ op # "idle"
  BY DEF QueueInv, Ask, NoJob, Agents, Loads
<1>5. /\ lockq' \in Seq(Agents) /\ Distinct(lockq') /\ Waiting' = Waiting \cup {a}
      /\ lockq' # <<>> /\ (lockq # <<>> => Head(lockq') = Holder)
  BY <1>4, Pushed
<1>6. QueueInv'
  <2>1. (\A i, j \in 1..Len(lockq) : lockq[i] = lockq[j] => i = j)'
    BY <1>5 DEF Distinct
  <2>2. (\A b \in Handlers \cup {Startup} :
           /\ b \in Waiting <=> job[b].op # "idle"
           /\ job[b].op = "idle" => job[b] = NoJob
           /\ job[b].op # "idle" => job[b].model \in Models)'
    BY <1>2, <1>4, <1>5 DEF QueueInv
  <2>3. (job[Startup].op \in {"idle", "restore"} /\ \A h \in Handlers : job[h].op # "restore")'
    BY <1>2 DEF QueueInv
  <2>4. a # Monitor /\ a \notin Models
    OBVIOUS
  <2> QED BY <1>5, <2>1, <2>2, <2>3, <2>4 DEF QueueInv
<1>7. ASSUME cs.pc # "free"
      PROVE  /\ lockq' # <<>> /\ Head(lockq') = Holder
             /\ OpOf(Holder)' = OpOf(Holder)
             /\ Holder # Monitor => ModelOf(Holder)' = ModelOf(Holder)
  <2>1. lockq # <<>>
    BY <1>7 DEF SectionInv
  <2>2. Holder \in Waiting /\ Holder \in Agents /\ Holder' = Holder
    BY <1>5, <2>1, HolderWaits DEF Holder
  <2>3. Holder # a
    BY <1>4, <2>2
  <2>4. Holder \notin Models /\ Holder # Monitor => job'[Holder] = job[Holder]
    BY <1>2, <2>2, <2>3 DEF Agents
  <2> QED BY <1>5, <2>1, <2>2, <2>4 DEF OpOf, ModelOf
<1> QED BY <1>2, <1>3, <1>5, <1>6, <1>7

------------------------------------------------------------------------------
(* Steps outside the section.                                              *)

QuietStep ==
  \/ \E m \in Models : Restore(m)
  \/ Started
  \/ \E h \in Handlers, m \in Models : Request(h, m) \/ Edit(h, m)
  \/ Tick \/ Die
  \/ \E n \in 1..2 : Shutdown(n)
  \/ Quit

LEMMA RestoreInv ==
  ASSUME IInv, NEW m \in Models, Restore(m)
  PROVE  IInv'
<1> USE DEF IInv
<1>1. job[Startup] = NoJob /\ m \in todo /\ ~up /\ todo' = todo \ {m} /\ Ask(Startup, "restore", m)
        /\ UNCHANGED <<row, servers, provider, inUse, live, cs, up, quit, stopping, asked>>
  BY DEF Restore, manager
<1>2. /\ lockq' \in Seq(Agents)
      /\ job' \in [Handlers \cup {Startup} -> JobType]
      /\ \A b \in Handlers \cup {Startup} : job'[b] =
           IF b = Startup THEN [op |-> "restore", model |-> m, was |-> row[m]] ELSE job[b]
      /\ QueueInv'
      /\ cs.pc # "free" => /\ lockq' # <<>> /\ Head(lockq') = Holder
                           /\ OpOf(Holder)' = OpOf(Holder)
                           /\ Holder # Monitor => ModelOf(Holder)' = ModelOf(Holder)
  BY <1>1, Asked, ZenonT(60) DEF Loads
<1>3. TypeOK'
  BY <1>1, <1>2 DEF TypeOK, JobType, RowStates
<1>4. PhaseInv'
  BY <1>1, <1>2 DEF PhaseInv
<1>5. SectionInv' /\ RuntimeInv'
  BY <1>1, <1>2, QuietRuntime
<1>6. StartupInv'
  <2>1. row[m] = "active" /\ provider[Role[m]].model # m
    BY <1>1 DEF StartupInv, RowsInv
  <2>2. provider[Role[m]] = NoProvider
    <3>1. SUFFICES ASSUME provider[Role[m]] # NoProvider PROVE FALSE
      OBVIOUS
    <3> DEFINE n == provider[Role[m]].model
    <3>2. n \in Models /\ Role[n] = Role[m]
      BY <3>1 DEF RuntimeInv
    <3>3. row[n] = "active"
      BY <1>1, <3>2 DEF StartupInv, RowsInv
    <3> QED BY <2>1, <3>2, <3>3 DEF RowsInv, OneActive
  <2>3. job'[Startup] = [op |-> "restore", model |-> m, was |-> "active"]
    BY <1>2, <2>1
  <2>4. job[Startup].op = "idle"
    BY <1>1 DEF NoJob
  <2> QED BY <1>1, <2>1, <2>2, <2>3, <2>4 DEF StartupInv, RowsInv
<1>7. OneActive' /\ RowsMatchRuntime' /\ ExitInv'
  BY <1>1 DEF RowsInv, OneActive, RowsMatchRuntime, ExitInv, PhaseInv
<1> QED BY <1>2, <1>3, <1>4, <1>5, <1>6, <1>7 DEF RowsInv

LEMMA StartedInv ==
  ASSUME IInv, Started
  PROVE  IInv'
<1> USE DEF IInv
<1>1. /\ todo = {} /\ job[Startup] = NoJob /\ up'
      /\ UNCHANGED <<row, servers, provider, inUse, live, lockq, cs, job, todo, quit, stopping, asked>>
  BY DEF Started, manager, lock
<1>2. TypeOK'
  BY <1>1 DEF TypeOK, Started
<1>3. QueueInv' /\ PhaseInv'
  BY <1>1 DEF QueueInv, PhaseInv, NoJob, Waiting, Started
<1>4. SectionInv' /\ RuntimeInv'
  <2>1. cs.pc # "free" => lockq # <<>>
    BY DEF SectionInv
  <2> QED BY <1>1, <2>1, QuietRuntime DEF Holder, OpOf, ModelOf
<1>5. RowsInv'
  <2>1. ~up
    BY DEF Started
  <2>2. job[Startup].op = "idle"
    BY <1>1 DEF NoJob
  <2> QED BY <1>1, <2>1, <2>2 DEF RowsInv, OneActive, RowsMatchRuntime, StartupInv, Started
<1>6. ExitInv'
  BY <1>1 DEF ExitInv, Registered, Waiting
<1> QED BY <1>2, <1>3, <1>4, <1>5, <1>6

LEMMA RequestInv ==
  ASSUME IInv, NEW h \in Handlers, NEW m \in Models, Request(h, m)
  PROVE  IInv'
<1> USE DEF IInv
<1>1. /\ up /\ quit.round < 2 /\ job[h] = NoJob
      /\ \E op \in {"activate", "use", "deactivate"} : Ask(h, op, m)
      /\ asked' = asked + 1
      /\ UNCHANGED <<row, servers, provider, inUse, live, cs, todo, up, quit, stopping>>
  BY DEF Request, Accepts, manager
<1>2. PICK op \in {"activate", "use", "deactivate"} : Ask(h, op, m)
  BY <1>1
<1>3. op \in Loads \cup {"deactivate"} /\ op # "restore" /\ h # Startup
  BY DEF Loads
<1>4. /\ lockq' \in Seq(Agents)
      /\ job' \in [Handlers \cup {Startup} -> JobType]
      /\ \A b \in Handlers \cup {Startup} : job'[b] =
           IF b = h THEN [op |-> op, model |-> m, was |-> row[m]] ELSE job[b]
      /\ QueueInv'
      /\ cs.pc # "free" => /\ lockq' # <<>> /\ Head(lockq') = Holder
                           /\ OpOf(Holder)' = OpOf(Holder)
                           /\ Holder # Monitor => ModelOf(Holder)' = ModelOf(Holder)
  BY <1>1, <1>2, <1>3, Asked
<1>5. TypeOK'
  BY <1>1, <1>4 DEF TypeOK, JobType, RowStates
<1>6. PhaseInv'
  <2>1. job'[Startup] = job[Startup]
    BY <1>3, <1>4
  <2> QED BY <1>1, <2>1 DEF PhaseInv, TypeOK
<1>7. SectionInv' /\ RuntimeInv'
  BY <1>1, <1>4, QuietRuntime
<1>8. RowsInv'
  BY <1>1 DEF RowsInv, OneActive, RowsMatchRuntime, StartupInv
<1>9. ExitInv'
  BY <1>1 DEF ExitInv, TypeOK
<1> QED BY <1>4, <1>5, <1>6, <1>7, <1>8, <1>9

LEMMA EditInv ==
  ASSUME IInv, OneActive', NEW h \in Handlers, NEW m \in Models, Edit(h, m)
  PROVE  IInv'
<1> USE DEF IInv
<1>1. /\ up /\ asked' = asked + 1
      /\ UNCHANGED <<servers, provider, inUse, live, lockq, cs, job, todo, up, quit, stopping>>
  BY DEF Edit, Importable, Accepts, manager, lock
<1>2. PICK s \in {"imported", "deleted"} :
        /\ row' = [row EXCEPT ![m] = s]
        /\ s = "imported" => row[m] = "new" \/ provider[Role[m]].model # m
  BY DEF Edit, Importable
<1>3. TypeOK'
  BY <1>1, <1>2 DEF TypeOK
<1>4. QueueInv' /\ PhaseInv' /\ ExitInv'
  BY <1>1 DEF QueueInv, PhaseInv, Waiting, ExitInv, Registered
<1>5. SectionInv' /\ RuntimeInv'
  <2>1. cs.pc # "free" => lockq # <<>>
    BY DEF SectionInv
  <2> QED BY <1>1, <2>1, QuietRuntime DEF Holder, OpOf, ModelOf
<1>6. RowsMatchRuntime' /\ StartupInv'
  <2>1. \A n \in Models : row'[n] = IF n = m THEN s ELSE row[n]
    BY <1>2 DEF TypeOK
  <2> QED BY <1>1, <1>2, <2>1 DEF RowsInv, RowsMatchRuntime, StartupInv
<1> QED BY <1>3, <1>4, <1>5, <1>6 DEF RowsInv

LEMMA TickInv ==
  ASSUME IInv, Tick
  PROVE  IInv'
<1> USE DEF IInv
<1>1. /\ up /\ ~stopping /\ Monitor \notin Waiting /\ lockq' = Append(lockq, Monitor)
      /\ UNCHANGED <<row, servers, provider, inUse, live, cs, job, todo, up, quit, stopping, asked>>
  BY DEF Tick, MonitorRuns, manager
<1>2. /\ lockq' \in Seq(Agents) /\ Distinct(lockq') /\ Waiting' = Waiting \cup {Monitor}
      /\ lockq' # <<>> /\ (lockq # <<>> => Head(lockq') = Holder)
  BY <1>1, Pushed DEF Agents
<1>3. TypeOK'
  BY <1>1, <1>2 DEF TypeOK
<1>4. quit.at = "no"
  BY <1>1 DEF PhaseInv
<1>5. QueueInv' /\ PhaseInv'
  <2>1. Monitor \notin Models /\ Monitor # Startup /\ Monitor \notin Handlers
    OBVIOUS
  <2> QED BY <1>1, <1>2, <1>4, <2>1 DEF QueueInv, PhaseInv, Distinct
<1>6. SectionInv' /\ RuntimeInv'
  <2>1. cs.pc # "free" => lockq # <<>>
    BY DEF SectionInv
  <2> QED BY <1>1, <1>2, <2>1, QuietRuntime DEF Holder, OpOf, ModelOf
<1>7. RowsInv'
  BY <1>1 DEF RowsInv, OneActive, RowsMatchRuntime, StartupInv
<1>8. ExitInv'
  BY <1>1, <1>4 DEF ExitInv
<1> QED BY <1>3, <1>5, <1>6, <1>7, <1>8

LEMMA DieInv ==
  ASSUME IInv, Die
  PROVE  IInv'
<1> USE DEF IInv
<1>1. /\ live' \subseteq live
      /\ UNCHANGED <<row, servers, provider, inUse, lockq, cs, job, todo, up, quit, stopping, asked>>
  BY DEF Die, lock
<1>2. TypeOK'
  BY <1>1 DEF TypeOK
<1>3. QueueInv' /\ PhaseInv' /\ ExitInv'
  BY <1>1 DEF QueueInv, PhaseInv, Waiting, ExitInv, Registered
<1>4. SectionInv' /\ RuntimeInv'
  <2>1. cs.pc # "free" => lockq # <<>>
    BY DEF SectionInv
  <2> QED BY <1>1, <2>1, QuietRuntime DEF Holder, OpOf, ModelOf
<1>5. RowsInv'
  BY <1>1 DEF RowsInv, OneActive, RowsMatchRuntime, StartupInv
<1> QED BY <1>2, <1>3, <1>4, <1>5

LEMMA ShutdownInv ==
  ASSUME IInv, NEW n \in 1..2, Shutdown(n)
  PROVE  IInv'
<1> USE DEF IInv
<1>1. /\ up /\ stopping' = TRUE /\ quit' = [round |-> n, at |-> "monitor", tasks |-> {}]
      /\ quit.at \in {"no", "done"}
      /\ n = 2 => \A h \in Handlers : job[h].op = "idle"
      /\ UNCHANGED <<row, servers, provider, inUse, live, lockq, cs, job, todo, up, asked>>
  BY DEF Shutdown, manager, lock, NoJob
<1>2. TypeOK'
  BY <1>1 DEF TypeOK
<1>3. QueueInv' /\ PhaseInv'
  <2>1. \A m \in Models : m \notin Waiting
    BY <1>1 DEF QueueInv
  <2> QED BY <1>1, <2>1 DEF QueueInv, PhaseInv, Waiting
<1>4. SectionInv' /\ RuntimeInv'
  <2>1. cs.pc # "free" => lockq # <<>>
    BY DEF SectionInv
  <2> QED BY <1>1, <2>1, QuietRuntime DEF Holder, OpOf, ModelOf
<1>5. RowsInv'
  BY <1>1 DEF RowsInv, OneActive, RowsMatchRuntime, StartupInv
<1>6. ExitInv'
  BY <1>1 DEF ExitInv
<1> QED BY <1>2, <1>3, <1>4, <1>5, <1>6

LEMMA StopServersInv ==
  ASSUME IInv, StopServers
  PROVE  IInv'
<1> USE DEF IInv
<1>1. /\ quit.at = "monitor" /\ Monitor \notin Waiting
      /\ quit' = [quit EXCEPT !.at = "stop", !.tasks = ToStop]
      /\ UNCHANGED <<row, servers, provider, inUse, live, lockq, cs, job, todo, up, stopping, asked>>
  BY DEF StopServers, manager, lock
<1>2. ToStop \subseteq Models /\ ToStop = Registered
  BY DEF ToStop, Registered
<1>3. quit' = [round |-> quit.round, at |-> "stop", tasks |-> ToStop]
  BY <1>1 DEF TypeOK
<1>4. TypeOK'
  BY <1>1, <1>2, <1>3 DEF TypeOK
<1>5. QueueInv' /\ PhaseInv'
  <2>1. \A m \in Models : m \notin Waiting
    BY <1>1 DEF QueueInv
  <2> QED BY <1>1, <1>3, <2>1 DEF QueueInv, PhaseInv, Waiting
<1>6. SectionInv' /\ RuntimeInv'
  <2>1. cs.pc # "free" => lockq # <<>>
    BY DEF SectionInv
  <2> QED BY <1>1, <2>1, QuietRuntime DEF Holder, OpOf, ModelOf
<1>7. RowsInv'
  BY <1>1 DEF RowsInv, OneActive, RowsMatchRuntime, StartupInv
<1>8. ExitInv'
  BY <1>1, <1>2, <1>3 DEF ExitInv, Registered
<1> QED BY <1>4, <1>5, <1>6, <1>7, <1>8

LEMMA StopTaskInv ==
  ASSUME IInv, NEW m \in Models, StopTask(m)
  PROVE  IInv'
<1> USE DEF IInv
<1>1. /\ m \in quit.tasks /\ lockq' = Append(lockq, m)
      /\ quit' = [round |-> quit.round, at |-> quit.at, tasks |-> quit.tasks \ {m}]
      /\ UNCHANGED <<row, servers, provider, inUse, live, cs, job, todo, up, stopping, asked>>
  BY DEF StopTask, manager, TypeOK
<1>2. quit.at = "stop" /\ m \notin Waiting /\ m \in Agents
  BY <1>1 DEF PhaseInv, QueueInv, Agents
<1>3. /\ lockq' \in Seq(Agents) /\ Distinct(lockq') /\ Waiting' = Waiting \cup {m}
      /\ lockq' # <<>> /\ (lockq # <<>> => Head(lockq') = Holder)
  BY <1>1, <1>2, Pushed
<1>4. TypeOK'
  BY <1>1, <1>3 DEF TypeOK
<1>5. QueueInv' /\ PhaseInv'
  <2>1. m # Monitor /\ m # Startup /\ m \notin Handlers
    OBVIOUS
  <2> QED BY <1>1, <1>2, <1>3, <2>1 DEF QueueInv, PhaseInv, Distinct
<1>6. SectionInv' /\ RuntimeInv'
  <2>1. cs.pc # "free" => lockq # <<>>
    BY DEF SectionInv
  <2> QED BY <1>1, <1>3, <2>1, QuietRuntime DEF Holder, OpOf, ModelOf
<1>7. RowsInv'
  BY <1>1 DEF RowsInv, OneActive, RowsMatchRuntime, StartupInv
<1>8. ExitInv'
  BY <1>1, <1>2, <1>3 DEF ExitInv, Registered
<1> QED BY <1>4, <1>5, <1>6, <1>7, <1>8

\* In the last round nothing but stop tasks can be in the queue.
LEMMA StopDoneInv ==
  ASSUME IInv, StopDone
  PROVE  IInv'
<1> USE DEF IInv
<1>1. /\ quit.at = "stop" /\ quit.tasks = {} /\ Waiting \cap Models = {}
      /\ quit' = [round |-> quit.round, at |-> "done", tasks |-> {}]
      /\ UNCHANGED <<row, servers, provider, inUse, live, lockq, cs, job, todo, up, stopping, asked>>
  BY DEF StopDone, manager, lock, TypeOK
<1>2. TypeOK'
  BY <1>1 DEF TypeOK
<1>3. QueueInv' /\ PhaseInv'
  BY <1>1 DEF QueueInv, PhaseInv, Waiting
<1>4. SectionInv' /\ RuntimeInv'
  <2>1. cs.pc # "free" => lockq # <<>>
    BY DEF SectionInv
  <2> QED BY <1>1, <2>1, QuietRuntime DEF Holder, OpOf, ModelOf
<1>5. RowsInv'
  BY <1>1 DEF RowsInv, OneActive, RowsMatchRuntime, StartupInv
<1>6. ExitInv'
  <2>1. SUFFICES ASSUME quit.round = 2 PROVE Registered = {} /\ lockq = <<>>
    BY <1>1 DEF ExitInv, Registered
  <2>2. Registered = {}
    BY <1>1, <2>1 DEF ExitInv, Registered
  <2>3. Waiting = {}
    <3>1. \A a \in Handlers \cup {Startup} : a \notin Waiting
      BY <1>1, <2>1 DEF PhaseInv, QueueInv
    <3>2. Monitor \notin Waiting
      BY <1>1 DEF QueueInv
    <3>3. Waiting \subseteq Agents
      BY DEF Waiting, TypeOK
    <3> QED BY <1>1, <3>1, <3>2, <3>3 DEF Agents
  <2>4. lockq = <<>>
    BY <2>3, HolderWaits
  <2> QED BY <2>2, <2>4
<1> QED BY <1>2, <1>3, <1>4, <1>5, <1>6

LEMMA StutterInv ==
  ASSUME IInv, UNCHANGED vars
  PROVE  IInv'
<1>1. UNCHANGED <<row, servers, provider, inUse, live, lockq, cs, job, todo, up, quit, stopping, asked>>
  BY DEF vars
<1> USE DEF IInv
<1>2. TypeOK' /\ QueueInv' /\ PhaseInv' /\ ExitInv' /\ RowsInv'
  BY <1>1 DEF TypeOK, QueueInv, PhaseInv, Waiting, ExitInv, Registered, RowsInv, OneActive,
              RowsMatchRuntime, StartupInv
<1>3. SectionInv' /\ RuntimeInv'
  <2>1. cs.pc # "free" => lockq # <<>>
    BY DEF SectionInv
  <2> QED BY <1>1, <2>1, QuietRuntime DEF Holder, OpOf, ModelOf
<1> QED BY <1>2, <1>3

LEMMA QuietInv ==
  ASSUME IInv, OneActive', QuietStep
  PROVE  IInv'
BY RestoreInv, StartedInv, RequestInv, EditInv, TickInv, DieInv, ShutdownInv,
   StopServersInv, StopTaskInv, StopDoneInv DEF QuietStep, Quit

------------------------------------------------------------------------------
(* Who can hold the lock, and what the rows look like when it has done.    *)

LEMMA HolderJob ==
  ASSUME TypeOK, QueueInv, PhaseInv, lockq # <<>>
  PROVE  /\ Holder \in Agents /\ Holder \in Waiting
         /\ OpOf(Holder) \in Loads \cup Unloads \cup {"probe"}
         /\ OpOf(Holder) = "probe" <=> Holder = Monitor
         /\ OpOf(Holder) = "restore" <=> Holder = Startup
         /\ OpOf(Holder) = "stop" <=> Holder \in Models
         /\ Holder # Monitor => ModelOf(Holder) \in Models
         /\ ~up => Holder = Startup
         /\ OpOf(Holder) \in Loads \/ OpOf(Holder) = "deactivate" =>
              /\ Holder \in Handlers \cup {Startup}
              /\ quit.round # 2
<1>1. Holder \in Agents /\ Holder \in Waiting
  BY HolderWaits
<1>2. CASE Holder = Monitor
  BY <1>1, <1>2 DEF OpOf, QueueInv, Loads, Unloads
<1>3. CASE Holder \in Models
  <2>1. Holder # Monitor /\ Holder # Startup /\ Holder \notin Handlers
    BY <1>3
  <2>2. OpOf(Holder) = "stop" /\ ModelOf(Holder) = Holder
    BY <1>3, <2>1 DEF OpOf, ModelOf
  <2>3. up
    BY <1>1, <1>3 DEF QueueInv, PhaseInv
  <2> QED BY <1>1, <1>3, <2>1, <2>2, <2>3 DEF Loads, Unloads
<1>4. CASE Holder \in Handlers \cup {Startup}
  <2>1. Holder # Monitor /\ Holder \notin Models
    BY <1>4
  <2>2. OpOf(Holder) = job[Holder].op /\ ModelOf(Holder) = job[Holder].model
    BY <2>1 DEF OpOf, ModelOf
  <2>3. job[Holder].op # "idle" /\ job[Holder].model \in Models
    BY <1>1, <1>4 DEF QueueInv
  <2>4. job[Holder].op \in Loads \cup {"deactivate"}
    BY <1>4, <2>3 DEF TypeOK
  <2>5. job[Holder].op = "restore" <=> Holder = Startup
    BY <1>4, <2>3 DEF QueueInv
  <2>6. ~up => Holder = Startup
    BY <1>4, <2>3 DEF PhaseInv
  <2>7. quit.round # 2
    BY <1>4, <2>3 DEF PhaseInv
  <2>8. Loads \cap {"probe", "stop"} = {}
    BY DEF Loads
  <2> QED BY <1>1, <1>4, <2>1, <2>2, <2>3, <2>4, <2>5, <2>6, <2>7, <2>8 DEF Unloads
<1> QED BY <1>1, <1>2, <1>3, <1>4 DEF Agents

\* The rows and the providers name the same models.
Match(rows, pv) ==
  \A m \in Models : /\ rows[m] = "active" => pv[Role[m]].model = m
                    /\ pv[Role[m]].model = m => rows[m] \in {"active", "deleted"}

LEMMA MatchMarked ==
  ASSUME NEW rows \in [Models -> RowStates], NEW pv, Match(rows, pv),
         NEW m \in Models, pv[Role[m]].model # m, NEW s \in RowStates \ {"active"}
  PROVE  Match(Marked(rows, m, s), pv)
<1>1. \A n \in Models : n # m => Marked(rows, m, s)[n] = rows[n]
  BY MarkedRows
<1>2. Marked(rows, m, s)[m] # "active"
  BY MarkedRows DEF RowStates
<1> QED BY <1>1, <1>2 DEF Match

LEMMA MatchActivated ==
  ASSUME NEW rows \in [Models -> RowStates], NEW pv, Match(rows, pv), One(rows),
         NEW m \in Models, pv[Role[m]].model = m
  PROVE  Match(Activated(rows, m), pv)
<1>1. Activated(rows, m)[m] \in {"active", "deleted"}
  BY ActivatedRows
<1>2. ASSUME NEW n \in Models, n # m
      PROVE  /\ Activated(rows, m)[n] = "active" => pv[Role[n]].model = n
             /\ pv[Role[n]].model = n => Activated(rows, m)[n] \in {"active", "deleted"}
  <2>1. Activated(rows, m)[n] = "active" => rows[n] = "active"
    BY <1>2, ActivatedRows
  <2>2. pv[Role[n]].model = n => Role[n] # Role[m]
    BY <1>2
  <2>3. Role[n] # Role[m] => Activated(rows, m)[n] = rows[n]
    BY <1>2, ActivatedRows
  <2> QED BY <2>1, <2>2, <2>3 DEF Match
<1> QED BY <1>1, <1>2 DEF Match

\* The provider of a role is dropped with its row set back, and set with its
\* row activated.
LEMMA MatchDropped ==
  ASSUME NEW rows \in [Models -> RowStates], NEW pv, NEW qv, Match(rows, pv),
         NEW v \in Models, pv[Role[v]].model = v,
         qv[Role[v]] = NoProvider, \A r \in Roles : r # Role[v] => qv[r] = pv[r]
  PROVE  Match(Marked(rows, v, "imported"), qv)
<1>1. \A n \in Models : n # v => Marked(rows, v, "imported")[n] = rows[n]
  BY MarkedRows DEF RowStates
<1>2. Marked(rows, v, "imported")[v] # "active"
  BY MarkedRows DEF RowStates
<1>3. \A n \in Models : Role[n] \in Roles /\ n # None
  OBVIOUS
<1>4. ASSUME NEW n \in Models
      PROVE  /\ Marked(rows, v, "imported")[n] = "active" => qv[Role[n]].model = n
             /\ qv[Role[n]].model = n => Marked(rows, v, "imported")[n] \in {"active", "deleted"}
  <2>1. CASE Role[n] = Role[v]
    BY <1>1, <1>2, <1>3, <2>1 DEF Match, NoProvider
  <2>2. CASE Role[n] # Role[v]
    <3>1. qv[Role[n]] = pv[Role[n]] /\ n # v
      BY <1>3, <2>2
    <3> QED BY <1>1, <3>1 DEF Match
  <2> QED BY <2>1, <2>2
<1> QED BY <1>4 DEF Match

LEMMA MatchSet ==
  ASSUME NEW rows \in [Models -> RowStates], NEW pv, NEW qv, Match(rows, pv),
         NEW m \in Models, pv[Role[m]] = NoProvider,
         qv[Role[m]].model = m, \A r \in Roles : r # Role[m] => qv[r] = pv[r]
  PROVE  Match(Activated(rows, m), qv)
<1>1. Activated(rows, m)[m] \in {"active", "deleted"}
  BY ActivatedRows
<1>2. \A n \in Models : Role[n] \in Roles /\ n # None
  OBVIOUS
<1>3. ASSUME NEW n \in Models, n # m
      PROVE  /\ Activated(rows, m)[n] = "active" => qv[Role[n]].model = n
             /\ qv[Role[n]].model = n => Activated(rows, m)[n] \in {"active", "deleted"}
  <2>1. CASE Role[n] = Role[m]
    <3>1. rows[n] # "active"
      BY <1>2, <2>1 DEF Match, NoProvider
    <3>2. Activated(rows, m)[n] # "active"
      BY <1>3, <3>1, ActivatedRows
    <3> QED BY <1>3, <2>1, <3>2
  <2>2. CASE Role[n] # Role[m]
    <3>1. qv[Role[n]] = pv[Role[n]]
      BY <1>2, <2>2
    <3>2. Activated(rows, m)[n] = rows[n]
      BY <2>2, ActivatedRows
    <3> QED BY <3>1, <3>2 DEF Match
  <2> QED BY <2>1, <2>2
<1> QED BY <1>1, <1>3 DEF Match

\* A handler whose model ended without a provider writes no active row.
LEMMA MatchWritten ==
  ASSUME NEW rows \in [Models -> RowStates], NEW pv, Match(rows, pv),
         NEW a, NEW ok \in BOOLEAN, ModelOf(a) \in Models, pv[Role[ModelOf(a)]].model # ModelOf(a),
         OpOf(a) = "activate" => ~ok
  PROVE  Match(Written(a, rows, ok), pv)
<1>1. Written(a, rows, ok) \in {rows, Marked(rows, ModelOf(a), "error"), Marked(rows, ModelOf(a), "imported")}
  BY DEF Written
<1>2. "error" \in RowStates \ {"active"} /\ "imported" \in RowStates \ {"active"}
  BY DEF RowStates
<1> QED BY <1>1, <1>2, MatchMarked

------------------------------------------------------------------------------
(* Frames of the section's steps: the holder leaves, or stays.             *)

ProviderType == [model : Models \cup {None}, port : Port, client : {"none", "open", "closed"}]
CsType == [pc : {"free", "probe", "unload", "spawn", "health"}, role : Roles, port : Port]

ManagerType ==
  /\ servers \in [Models -> Port]
  /\ provider \in [Roles -> ProviderType]
  /\ inUse \in SUBSET Ports
  /\ live \in SUBSET [model : Models, port : Ports]

LEMMA AnswerFrame ==
  ASSUME IInv, lockq # <<>>, NEW rows, Answer(Holder, rows),
         UNCHANGED <<todo, up, quit, stopping, asked>>, RowType', ManagerType',
         quit.round = 2 => \A m \in Models : servers'[m] # 0 => servers[m] # 0 /\ m # Holder
  PROVE  /\ TypeOK' /\ QueueInv' /\ PhaseInv' /\ SectionInv' /\ ExitInv'
         /\ cs' = Free /\ row' = rows
         /\ Holder = Startup => job'[Startup].op = "idle"
         /\ Holder # Startup => job'[Startup] = job[Startup]
<1> USE DEF IInv
<1>1. /\ lockq' \in Seq(Agents) /\ Waiting' = Waiting \ {Holder}
      /\ job' \in [Handlers \cup {Startup} -> JobType]
      /\ QueueInv' /\ PhaseInv' /\ cs' = Free /\ row' = rows
  BY AnswerQueue
<1>2. TypeOK'
  <2>1. cs' \in CsType
    BY <1>1, PortsAssumption DEF CsType, Free, Roles, Port
  <2> QED BY <1>1, <2>1 DEF TypeOK, ManagerType, ProviderType, RowType, RowStates, JobType, CsType
<1>3. SectionInv'
  BY <1>1 DEF SectionInv, Free
<1>4. ExitInv'
  BY <1>1 DEF ExitInv, Registered
<1>5. /\ Holder = Startup => job'[Startup].op = "idle"
      /\ Holder # Startup => job'[Startup] = job[Startup]
  <2>1. job \in [Handlers \cup {Startup} -> JobType] /\ NoJob.op = "idle"
    BY DEF TypeOK, JobType, RowStates, NoJob
  <2>2. job' = IF Holder \in DOMAIN job THEN [job EXCEPT ![Holder] = NoJob] ELSE job
    BY DEF Answer
  <2> QED BY <2>1, <2>2
<1> QED BY <1>1, <1>2, <1>3, <1>4, <1>5

LEMMA StayFrame ==
  ASSUME IInv, UNCHANGED <<lockq, job, todo, up, quit, stopping, asked>>, RowType', ManagerType',
         cs' \in CsType,
         quit.round = 2 => \A m \in Models : servers'[m] # 0 => servers[m] # 0
  PROVE  TypeOK' /\ QueueInv' /\ PhaseInv' /\ ExitInv'
<1> USE DEF IInv
<1>1. TypeOK'
  BY DEF TypeOK, ManagerType, ProviderType, RowType, RowStates, CsType
<1>2. QueueInv' /\ PhaseInv'
  BY DEF QueueInv, PhaseInv, Waiting
<1>3. ExitInv'
  BY DEF ExitInv, Registered, Waiting
<1> QED BY <1>1, <1>2, <1>3

\* An answer that leaves the manager as it was.
LEMMA IdleAnswer ==
  ASSUME IInv, OneActive', RowType', cs.pc \in {"free", "probe"}, lockq # <<>>,
         NEW rows, Answer(Holder, rows),
         UNCHANGED <<servers, provider, inUse, live, todo, up, quit, stopping, asked>>,
         up /\ ~stopping => Match(rows, provider),
         ~up => \/ rows = row /\ provider[Role[ModelOf(Holder)]].model = ModelOf(Holder)
                \/ rows = Marked(row, ModelOf(Holder), "error"),
         Holder \in Models => servers[Holder] = 0
  PROVE  IInv'
<1> USE DEF IInv
<1>1. ManagerType'
  BY DEF TypeOK, ManagerType, ProviderType
<1>2. /\ TypeOK' /\ QueueInv' /\ PhaseInv' /\ SectionInv' /\ ExitInv'
      /\ cs' = Free /\ row' = rows
      /\ Holder = Startup => job'[Startup].op = "idle"
      /\ Holder # Startup => job'[Startup] = job[Startup]
  BY <1>1, AnswerFrame
<1>3. RuntimeInv'
  BY <1>2 DEF RuntimeInv, Registered, PortsOwned, Free, SectionInv
<1>4. RowsMatchRuntime'
  BY <1>2 DEF RowsMatchRuntime, Match
<1>5. StartupInv'
  <2>1. SUFFICES ASSUME ~up PROVE StartupInv'
    BY DEF StartupInv
  <2>2. Holder = Startup /\ job'[Startup].op = "idle"
    BY <1>2, <2>1, HolderJob
  <2> DEFINE m == ModelOf(Holder)
  <2>3. m = job[Startup].model /\ m \in Models
    BY <2>1, <2>2, HolderJob DEF ModelOf
  <2>a. row \in [Models -> RowStates] /\ "error" \in RowStates
    BY DEF TypeOK, RowStates
  <2>b. /\ \A n \in Models : n # m => Marked(row, m, "error")[n] = row[n]
        /\ Marked(row, m, "error")[m] # "active"
    BY <2>3, <2>a, MarkedRows
  <2>4. \A n \in Models : n # m => row'[n] = row[n]
    BY <1>2, <2>1, <2>b
  <2>5. \/ row'[m] = row[m] /\ provider[Role[m]].model = m
        \/ row'[m] # "active"
    BY <1>2, <2>1, <2>b
  <2>6. OpOf(Holder) = "restore" /\ job[Startup].op = "restore"
    BY <2>1, <2>2, HolderJob DEF OpOf
  <2>7. m \notin todo /\ provider[Role[m]] = NoProvider /\ m # None
    BY <2>1, <2>3, <2>6 DEF RowsInv, StartupInv
  <2>8. provider[Role[m]].model # m
    BY <2>7 DEF NoProvider
  <2> QED BY <2>1, <2>2, <2>3, <2>4, <2>5, <2>7, <2>8 DEF RowsInv, StartupInv
<1> QED BY <1>2, <1>3, <1>4, <1>5 DEF RowsInv

------------------------------------------------------------------------------
(* The section's steps.                                                    *)

\* Nothing is unloaded before the startup is over.
LEMMA StartupFinds ==
  ASSUME IInv, ~up, lockq # <<>>
  PROVE  /\ Holder = Startup /\ OpOf(Holder) = "restore"
         /\ ModelOf(Holder) = job[Startup].model /\ ModelOf(Holder) \in Models
         /\ provider[Role[ModelOf(Holder)]] = NoProvider
         /\ row[ModelOf(Holder)] = "active" /\ job[Startup].was = "active"
<1> USE DEF IInv
<1>1. Holder = Startup /\ OpOf(Holder) = "restore" /\ ModelOf(Holder) \in Models
  BY HolderJob
<1>2. ModelOf(Holder) = job[Startup].model /\ job[Startup].op = "restore"
  BY <1>1 DEF ModelOf, OpOf
<1> QED BY <1>1, <1>2 DEF RowsInv, StartupInv

LEMMA BeginUnloadInv ==
  ASSUME IInv, NEW r \in Roles, provider[r] # NoProvider, cs.pc \in {"free", "probe"},
         lockq # <<>>, up, Holder # Monitor => r = Role[ModelOf(Holder)],
         BeginUnload(r), UNCHANGED <<todo, up, quit, stopping, asked>>
  PROVE  IInv'
<1> USE DEF IInv
<1> DEFINE v == provider[r].model
           p == provider[r].port
<1>1. /\ v \in Models /\ Role[v] = r /\ p # 0 /\ servers[v] = p /\ p \in Ports
      /\ cs.port = 0
  BY DEF RuntimeInv, SectionInv, TypeOK, Port
<1>2. /\ servers' = [servers EXCEPT ![v] = 0]
      /\ provider' = [provider EXCEPT ![r].client = "closed"]
      /\ cs' = [pc |-> "unload", role |-> r, port |-> p]
      /\ UNCHANGED <<row, inUse, live, lockq, job>>
  BY <1>1 DEF BeginUnload
<1>3. \A m \in Models : servers'[m] = IF m = v THEN 0 ELSE servers[m]
  BY <1>1, <1>2 DEF TypeOK
<1>4. /\ provider'[r] = [model |-> v, port |-> p, client |-> "closed"]
      /\ \A q \in Roles : q # r => provider'[q] = provider[q]
      /\ \A q \in Roles : provider'[q].model = provider[q].model
                          /\ provider'[q].port = provider[q].port
  BY <1>2 DEF TypeOK
<1>5. ManagerType' /\ cs' \in CsType
  <2>1. servers' \in [Models -> Port]
    BY <1>1, <1>2 DEF TypeOK, Port
  <2>2. provider' \in [Roles -> ProviderType]
    <3>1. provider'[r] \in ProviderType
      BY <1>1, <1>4 DEF ProviderType, Port
    <3>2. provider \in [Roles -> ProviderType]
      BY DEF TypeOK, ProviderType
    <3> QED BY <1>2, <1>4, <3>1, <3>2
  <2>3. cs' \in CsType
    BY <1>1, <1>2 DEF CsType, Port
  <2> QED BY <1>2, <2>1, <2>2, <2>3 DEF ManagerType, TypeOK
<1>6. TypeOK' /\ QueueInv' /\ PhaseInv' /\ ExitInv'
  <2>1. RowType'
    BY <1>2 DEF RowType, TypeOK, RowStates
  <2> QED BY <1>2, <1>3, <1>5, <2>1, StayFrame
<1>7. SectionInv'
  <2>1. Holder' = Holder
    BY <1>2 DEF Holder
  <2>2. Holder # Monitor => ModelOf(Holder)' = ModelOf(Holder)
    BY <1>2, <2>1 DEF ModelOf
  <2>3. (provider[r] # NoProvider)'
    BY <1>4 DEF NoProvider
  <2> QED BY <1>1, <1>2, <1>3, <1>4, <2>1, <2>2, <2>3 DEF SectionInv
<1>8. RuntimeInv'
  <2>1. Registered' = Registered \ {v}
    BY <1>3 DEF Registered
  <2>2. v \in Registered
    BY <1>1 DEF Registered
  <2>3. PortsOwned'
    <3>1. \A m, n \in Registered : servers[m] = servers[n] => m = n
      BY DEF RuntimeInv, PortsOwned
    <3>2. inUse = {servers[m] : m \in Registered}
      BY <1>1 DEF RuntimeInv, PortsOwned
    <3>3. \A m \in Registered' : servers'[m] = servers[m] /\ servers[m] # p
      BY <1>1, <1>3, <2>1, <2>2, <3>1 DEF Registered
    <3>4. {servers'[m] : m \in Registered'} \cup {p} = {servers[m] : m \in Registered}
      BY <1>1, <2>1, <2>2, <3>3
    <3>5. {cs'.port} \ {0} = {p}
      BY <1>1, <1>2
    <3>6. inUse' = {servers'[m] : m \in Registered'} \cup ({cs'.port} \ {0})
      BY <1>2, <3>2, <3>4, <3>5
    <3>7. \A m, n \in Registered' : servers'[m] = servers'[n] => m = n
      BY <2>1, <3>1, <3>3
    <3>8. \A m \in Registered' : servers'[m] # cs'.port
      BY <1>2, <3>3
    <3> QED BY <3>6, <3>7, <3>8 DEF PortsOwned
  <2>4. (\A q \in Roles : provider[q] # NoProvider =>
           /\ provider[q].model \in Models /\ Role[provider[q].model] = q
           /\ provider[q].port # 0
           /\ servers[provider[q].model] # provider[q].port => cs.pc = "unload" /\ cs.role = q)'
    <3>1. SUFFICES ASSUME NEW q \in Roles, provider'[q] # NoProvider
                   PROVE  /\ provider'[q].model \in Models /\ Role[provider'[q].model] = q
                          /\ provider'[q].port # 0
                          /\ q # r => servers'[provider'[q].model] = provider'[q].port
      BY <1>2
    <3>2. CASE q = r
      BY <1>1, <1>4, <3>2
    <3>3. CASE q # r
      <4>1. provider'[q] = provider[q]
        BY <1>4, <3>3
      <4>2. provider[q].model \in Models /\ Role[provider[q].model] = q /\ provider[q].port # 0
              /\ servers[provider[q].model] = provider[q].port
        BY <3>1, <4>1 DEF RuntimeInv
      <4> QED BY <1>1, <1>3, <3>3, <4>1, <4>2
    <3> QED BY <3>2, <3>3
  <2>5. (\A m \in Registered :
           provider[Role[m]].model = m /\ provider[Role[m]].port = servers[m])'
    BY <1>3, <1>4, <2>1 DEF RuntimeInv, Registered
  <2>6. \A l \in live : servers'[l.model] = l.port \/ (provider'[r].model = l.model /\ p = l.port)
    <3>1. \A l \in live : servers[l.model] = l.port /\ l.model \in Models
      BY DEF RuntimeInv, TypeOK
    <3>2. provider'[r].model = v
      BY <1>4
    <3> QED BY <1>1, <1>3, <3>1, <3>2
  <2> QED BY <1>2, <2>3, <2>4, <2>5, <2>6 DEF RuntimeInv
<1>9. RowsInv'
  BY <1>2, <1>4 DEF RowsInv, OneActive, RowsMatchRuntime, StartupInv
<1> QED BY <1>6, <1>7, <1>8, <1>9

\* A load takes a port for a role that has no provider.
LEMMA TakePortInv ==
  ASSUME IInv, OneActive', RowType', cs.pc \in {"free", "unload"}, lockq # <<>>,
         OpOf(Holder) \in Loads,
         NEW used \in SUBSET Ports, used = {servers[m] : m \in Registered},
         NEW q \in Ports \ used,
         provider' \in [Roles -> ProviderType], live' \in SUBSET [model : Models, port : Ports],
         provider'[Role[ModelOf(Holder)]] = NoProvider,
         \A r \in Roles : r # Role[ModelOf(Holder)] => provider'[r] = provider[r],
         \A p \in live' : servers[p.model] = p.port,
         \A m \in Registered : Role[m] # Role[ModelOf(Holder)],
         cs.pc = "unload" => cs.role = Role[ModelOf(Holder)],
         cs' = [pc |-> "spawn", role |-> Role[ModelOf(Holder)], port |-> q],
         inUse' = used \cup {q},
         UNCHANGED <<servers, lockq, job, todo, up, quit, stopping, asked>>,
         up /\ ~stopping => Match(row', provider'),
         ~up => row' = row /\ provider' = provider
  PROVE  IInv'
<1> USE DEF IInv
<1> DEFINE m == ModelOf(Holder)
<1>1. m \in Models /\ Holder # Monitor /\ Holder \in Handlers \cup {Startup} /\ q # 0
  BY HolderJob DEF Loads
<1>2. ManagerType' /\ cs' \in CsType
  <2>1. cs' \in CsType
    BY <1>1 DEF CsType, Port, Roles
  <2>2. servers' \in [Models -> Port] /\ inUse' \in SUBSET Ports
    BY DEF TypeOK
  <2> QED BY <2>1, <2>2 DEF ManagerType
<1>3. TypeOK' /\ QueueInv' /\ PhaseInv' /\ ExitInv'
  BY <1>2, StayFrame
<1>4. Holder' = Holder /\ OpOf(Holder)' = OpOf(Holder) /\ ModelOf(Holder)' = m
  BY DEF Holder, OpOf, ModelOf
<1>5. SectionInv'
  BY <1>1, <1>4 DEF SectionInv
<1>6. RuntimeInv'
  <2>1. Registered' = Registered /\ \A n \in Registered : servers[n] # q
    BY DEF Registered
  <2>2. PortsOwned'
    <3>1. inUse' = {servers'[n] : n \in Registered'} \cup ({cs'.port} \ {0})
      BY <1>1, <2>1
    <3>2. \A n, k \in Registered' : servers'[n] = servers'[k] => n = k
      BY <2>1 DEF RuntimeInv, PortsOwned
    <3>3. \A n \in Registered' : servers'[n] # cs'.port
      BY <2>1
    <3> QED BY <3>1, <3>2, <3>3 DEF PortsOwned
  <2>3. \A r \in Roles : provider'[r] # NoProvider =>
          /\ provider'[r].model \in Models /\ Role[provider'[r].model] = r
          /\ provider'[r].port # 0
          /\ servers'[provider'[r].model] = provider'[r].port
    BY DEF RuntimeInv
  <2>4. \A n \in Registered' :
          provider'[Role[n]].model = n /\ provider'[Role[n]].port = servers'[n]
    BY <2>1 DEF RuntimeInv, Registered
  <2> QED BY <2>2, <2>3, <2>4 DEF RuntimeInv
<1>7. RowsMatchRuntime'
  BY DEF RowsMatchRuntime, Match
<1>8. StartupInv'
  BY DEF StartupInv, RowsInv
<1> QED BY <1>3, <1>5, <1>6, <1>7, <1>8 DEF RowsInv

\* The section starts, or ends without touching the runtime.
LEMMA EnterInv ==
  ASSUME IInv, OneActive', RowType', Enter, UNCHANGED <<todo, up, quit, stopping, asked>>
  PROVE  IInv'
<1> USE DEF IInv
<1> DEFINE m == ModelOf(Holder)
<1>1. cs.pc = "free" /\ lockq # <<>> /\ cs.port = 0
        /\ (EnterLoad(Holder) \/ EnterUnload(Holder) \/ EnterProbe(Holder))
  BY DEF Enter, Holder, SectionInv
<1>2. /\ OpOf(Holder) \in Loads \cup Unloads \cup {"probe"}
      /\ OpOf(Holder) = "probe" <=> Holder = Monitor
      /\ OpOf(Holder) = "restore" <=> Holder = Startup
      /\ OpOf(Holder) = "stop" <=> Holder \in Models
      /\ Holder # Monitor => m \in Models
      /\ ~up => Holder = Startup
  BY <1>1, HolderJob
<1>3. /\ Loads \cap Unloads = {} /\ "probe" \notin Loads \cup Unloads
      /\ "stop" \notin Loads /\ "restore" \notin Unloads /\ "activate" \notin Unloads
      /\ "activate" \in Loads
  BY DEF Loads, Unloads
<1>4. /\ row \in [Models -> RowStates] /\ One(row)
      /\ up /\ ~stopping => Match(row, provider)
      /\ NoProvider.model = None
  BY DEF TypeOK, RowStates, RowsInv, OneActive, One, RowsMatchRuntime, Match, NoProvider
<1>5. ASSUME Victim(Holder) = NoProvider, OpOf(Holder) \in Loads \cup Unloads
      PROVE  m \in Models /\ provider[Role[m]].model # m
  <2>1. m \in Models
    BY <1>2, <1>3, <1>5
  <2>2. Victim(Holder) = provider[Role[m]] \/ provider[Role[m]].model # m
    BY DEF Victim
  <2> QED BY <1>4, <1>5, <2>1, <2>2
<1>6. ASSUME OpOf(Holder) \in Loads \cup Unloads, OpOf(Holder) = "stop" => Victim(Holder) = NoProvider,
             provider[Role[m]].model # m, NEW ok \in BOOLEAN, OpOf(Holder) = "activate" => ~ok,
             OpOf(Holder) \in Loads => ~ok,
             Answer(Holder, Written(Holder, row, ok)), UNCHANGED manager
      PROVE  IInv'
  <2>1. m \in Models /\ UNCHANGED <<servers, provider, inUse, live>>
    BY <1>2, <1>3, <1>6 DEF manager
  <2>2. up /\ ~stopping => Match(Written(Holder, row, ok), provider)
    BY <1>4, <1>6, <2>1, MatchWritten
  <2>3. ASSUME ~up PROVE Written(Holder, row, ok) = Marked(row, m, "error")
    <3>1. Holder = Startup /\ OpOf(Holder) = "restore" /\ job[Holder].was = "active"
      BY <1>1, <2>3, StartupFinds
    <3>2. ~ok
      BY <1>6, <3>1 DEF Loads
    <3> QED BY <3>1, <3>2 DEF Written
  <2>4. Holder \in Models => servers[Holder] = 0
    <3>1. SUFFICES ASSUME Holder \in Models PROVE servers[Holder] = 0
      OBVIOUS
    <3>2. m = Holder /\ provider[Role[Holder]].model # Holder
      BY <1>6, <3>1 DEF ModelOf
    <3> QED BY <3>1, <3>2 DEF RuntimeInv, Registered
  <2> QED BY <1>1, <1>6, <2>1, <2>2, <2>3, <2>4, IdleAnswer
<1>7. ASSUME OpOf(Holder) \in Loads \cup Unloads, Victim(Holder) = NoProvider,
             Proceed(Holder, row, inUse, live), UNCHANGED <<servers, provider, live>>
      PROVE  IInv'
  <2>1. m \in Models /\ provider[Role[m]].model # m
    BY <1>5, <1>7
  <2>2. CASE \E q \in Bindable(inUse, live) :
                /\ cs' = [pc |-> "spawn", role |-> Role[m], port |-> q]
                /\ inUse' = inUse \cup {q} /\ row' = row /\ OpOf(Holder) \in Loads
                /\ UNCHANGED <<lockq, job>>
    <3>1. PICK q \in Bindable(inUse, live) :
                /\ cs' = [pc |-> "spawn", role |-> Role[m], port |-> q]
                /\ inUse' = inUse \cup {q} /\ row' = row /\ OpOf(Holder) \in Loads
                /\ UNCHANGED <<lockq, job>>
      BY <2>2
    <3>2. q \in Ports \ inUse
      BY DEF Bindable
    <3>3. inUse \in SUBSET Ports /\ inUse = {servers[n] : n \in Registered}
      BY <1>1 DEF TypeOK, RuntimeInv, PortsOwned
    <3>4. provider' \in [Roles -> ProviderType] /\ live' \in SUBSET [model : Models, port : Ports]
      BY <1>7 DEF TypeOK, ProviderType
    <3>5. Victim(Holder) = provider[Role[m]]
      BY <1>3, <3>1 DEF Victim
    <3>6. provider[Role[m]] = NoProvider
      BY <1>7, <3>5
    <3>7. \A n \in Registered : Role[n] # Role[m]
      BY <1>4, <3>6, <2>1 DEF RuntimeInv, Registered
    <3>8. \A p \in live' : servers[p.model] = p.port
      BY <1>1, <1>7 DEF RuntimeInv
    <3> QED BY <1>1, <1>4, <1>7, <2>1, <3>1, <3>2, <3>3, <3>4, <3>6, <3>7, <3>8, TakePortInv
  <2>3. CASE OpOf(Holder) \in Loads /\ inUse' = inUse /\ Answer(Holder, Written(Holder, row, FALSE))
    BY <1>3, <1>6, <1>7, <2>1, <2>3 DEF manager
  <2>4. CASE OpOf(Holder) \in Unloads /\ inUse' = inUse /\ Answer(Holder, Written(Holder, row, TRUE))
    BY <1>3, <1>6, <1>7, <2>1, <2>4 DEF manager
  <2> QED BY <1>7, <2>2, <2>3, <2>4 DEF Proceed
<1>8. ASSUME OpOf(Holder) \in Loads \cup Unloads, Victim(Holder) # NoProvider, BeginUnload(Role[m])
      PROVE  IInv'
  <2>1. m \in Models /\ Role[m] \in Roles
    BY <1>2, <1>3, <1>8
  <2>2. provider[Role[m]] # NoProvider
    BY <1>8 DEF Victim
  <2>3. up
    BY <1>1, <2>2, StartupFinds
  <2> QED BY <1>1, <1>8, <2>1, <2>2, <2>3, BeginUnloadInv
<1>9. CASE EnterLoad(Holder)
  <2>1. CASE stopping /\ Answer(Holder, Written(Holder, row, FALSE)) /\ UNCHANGED manager
    <3>1. up /\ m \in Models /\ OpOf(Holder) \in Loads
      BY <1>2, <1>3, <1>9, <2>1 DEF PhaseInv, EnterLoad
    <3>2. Holder \notin Models
      BY <1>2, <1>3, <3>1
    <3> QED BY <1>1, <2>1, <3>1, <3>2, IdleAnswer DEF manager
  <2>2. CASE IsCurrent(m) /\ Answer(Holder, Written(Holder, row, TRUE)) /\ UNCHANGED manager
    <3>1. m \in Models /\ OpOf(Holder) \in Loads /\ Holder \notin Models
      BY <1>2, <1>3, <1>9 DEF EnterLoad
    <3>2. provider[Role[m]].model = m
      BY <2>2 DEF IsCurrent
    <3>3. up
      BY <1>1, <1>4, <3>1, <3>2, StartupFinds
    <3>4. Written(Holder, row, TRUE) = row \/ Written(Holder, row, TRUE) = Activated(row, m)
      BY <3>1 DEF Written, Loads
    <3>5. up /\ ~stopping => Match(Written(Holder, row, TRUE), provider)
      <4>1. up /\ ~stopping => Match(Activated(row, m), provider)
        BY <1>4, <3>1, <3>2, MatchActivated
      <4> QED BY <1>4, <3>4, <4>1
    <3> QED BY <1>1, <2>2, <3>1, <3>3, <3>5, IdleAnswer DEF manager
  <2> QED BY <1>7, <1>8, <1>9, <2>1, <2>2 DEF EnterLoad
<1>10. CASE EnterUnload(Holder)
  BY <1>7, <1>8, <1>10 DEF EnterUnload
<1>11. CASE EnterProbe(Holder)
  <2>1. /\ cs' = [pc |-> "probe", role |-> "chat", port |-> 0] /\ Holder = Monitor
        /\ UNCHANGED <<row, servers, provider, inUse, live, lockq, job>>
    BY <1>2, <1>11 DEF EnterProbe, manager
  <2>2. ManagerType' /\ cs' \in CsType
    BY <2>1 DEF ManagerType, TypeOK, ProviderType, CsType, Port, Roles
  <2>3. TypeOK' /\ QueueInv' /\ PhaseInv' /\ ExitInv'
    BY <2>1, <2>2, StayFrame
  <2>4. SectionInv' /\ RuntimeInv'
    <3>1. SectionInv'
      BY <1>1, <2>1 DEF SectionInv, Holder
    <3>2. RuntimeInv'
      BY <1>1, <2>1 DEF RuntimeInv, Registered, PortsOwned
    <3> QED BY <3>1, <3>2
  <2>5. RowsInv'
    BY <2>1 DEF RowsInv, OneActive, RowsMatchRuntime, StartupInv
  <2> QED BY <2>3, <2>4, <2>5
<1> QED BY <1>1, <1>9, <1>10, <1>11

\* The monitor looks at the next role, or gives the lock back.
LEMMA ProbeGoodInv ==
  ASSUME IInv, OneActive', RowType', ProbeGood, UNCHANGED <<todo, up, quit, stopping, asked>>
  PROVE  IInv'
<1> USE DEF IInv
<1>1. /\ cs.pc = "probe" /\ lockq # <<>> /\ Holder = Monitor /\ cs.port = 0
      /\ NextProbe(row)
      /\ UNCHANGED <<servers, provider, inUse, live>>
  BY DEF ProbeGood, SectionInv, manager
<1>2. up
  BY <1>1, HolderJob
<1>3. CASE cs.role = "chat"
  <2>1. /\ cs' = [pc |-> "probe", role |-> "embedding", port |-> 0]
        /\ UNCHANGED <<row, lockq, job>>
    <3>1. cs \in CsType
      BY DEF TypeOK, CsType
    <3>2. cs' = [cs EXCEPT !.pc = "probe", !.role = "embedding", !.port = 0]
            /\ UNCHANGED <<row, lockq, job>>
      BY <1>1, <1>3 DEF NextProbe
    <3> QED BY <3>1, <3>2 DEF CsType
  <2>2. ManagerType' /\ cs' \in CsType
    BY <1>1, <2>1 DEF ManagerType, TypeOK, ProviderType, CsType, Port, Roles
  <2>3. TypeOK' /\ QueueInv' /\ PhaseInv' /\ ExitInv'
    BY <1>1, <2>1, <2>2, StayFrame
  <2>4. SectionInv'
    BY <1>1, <2>1 DEF SectionInv, Holder
  <2>5. RuntimeInv'
    BY <1>1, <2>1 DEF RuntimeInv, Registered, PortsOwned
  <2>6. RowsInv'
    BY <1>1, <2>1 DEF RowsInv, OneActive, RowsMatchRuntime, StartupInv
  <2> QED BY <2>3, <2>4, <2>5, <2>6
<1>4. CASE cs.role # "chat"
  <2>1. Answer(Holder, row)
    BY <1>1, <1>4 DEF NextProbe
  <2>2. up /\ ~stopping => Match(row, provider)
    BY DEF RowsInv, RowsMatchRuntime, Match
  <2>3. Holder \notin Models
    BY <1>1
  <2> QED BY <1>1, <1>2, <2>1, <2>2, <2>3, IdleAnswer
<1> QED BY <1>3, <1>4

LEMMA ProbeBadInv ==
  ASSUME IInv, ProbeBad, UNCHANGED <<todo, up, quit, stopping, asked>>
  PROVE  IInv'
<1> USE DEF IInv
<1>1. cs.pc = "probe" /\ lockq # <<>> /\ Holder = Monitor /\ cs.role \in Roles
        /\ provider[cs.role] # NoProvider /\ BeginUnload(cs.role)
  BY DEF ProbeBad, SectionInv, TypeOK
<1>2. up
  BY <1>1, HolderJob
<1> QED BY <1>1, <1>2, BeginUnloadInv

LEMMA SpawnedInv ==
  ASSUME IInv, Spawned, UNCHANGED <<todo, up, quit, stopping, asked>>
  PROVE  IInv'
<1> USE DEF IInv
<1> DEFINE m == ModelOf(Holder)
<1>1. /\ cs.pc = "spawn" /\ lockq # <<>> /\ OpOf(Holder) \in Loads /\ cs.port # 0 /\ cs.port \in Ports
      /\ cs.role = Role[m] /\ provider[cs.role] = NoProvider
      /\ live' = live \cup {[model |-> m, port |-> cs.port]}
      /\ cs' = [pc |-> "health", role |-> cs.role, port |-> cs.port]
      /\ UNCHANGED <<row, servers, provider, inUse, lockq, job>>
  BY DEF Spawned, SectionInv, TypeOK, Port, Holder
<1>2. m \in Models /\ Holder # Monitor
  BY <1>1, HolderJob DEF Loads
<1>3. Holder' = Holder /\ OpOf(Holder)' = OpOf(Holder) /\ ModelOf(Holder)' = m
  BY <1>1 DEF Holder, OpOf, ModelOf
<1>4. ManagerType' /\ cs' \in CsType /\ RowType'
  <2>1. live' \in SUBSET [model : Models, port : Ports]
    BY <1>1, <1>2 DEF TypeOK
  <2>2. cs' \in CsType
    BY <1>1 DEF TypeOK, CsType
  <2> QED BY <1>1, <2>1, <2>2 DEF ManagerType, TypeOK, ProviderType, RowType, RowStates
<1>5. TypeOK' /\ QueueInv' /\ PhaseInv' /\ ExitInv'
  BY <1>1, <1>4, StayFrame
<1>6. SectionInv'
  BY <1>1, <1>3 DEF SectionInv
<1>7. RuntimeInv'
  <2>1. PortsOwned'
    BY <1>1 DEF RuntimeInv, PortsOwned, Registered
  <2>2. \A p \in live' : servers'[p.model] = p.port \/ (p.model = m /\ p.port = cs.port)
    BY <1>1 DEF RuntimeInv
  <2> QED BY <1>1, <1>3, <2>1, <2>2 DEF RuntimeInv, Registered
<1>8. RowsInv'
  BY <1>1 DEF RowsInv, OneActive, RowsMatchRuntime, StartupInv
<1> QED BY <1>5, <1>6, <1>7, <1>8

\* What the end of an unload does to registry, providers, ports and processes.
LEMMA Cleared ==
  ASSUME IInv, Unloaded
  PROVE  LET r == cs.role
             v == provider[r].model
         IN /\ cs.pc = "unload" /\ lockq # <<>> /\ up /\ servers' = servers
            /\ r \in Roles /\ v \in Models /\ Role[v] = r /\ servers[v] = 0
            /\ Holder # Monitor => ModelOf(Holder) \in Models /\ Role[ModelOf(Holder)] = r
            /\ \A m \in Models : m = Holder => servers[m] = 0
            /\ \A m \in Registered : Role[m] # r
            /\ provider'[r] = NoProvider /\ \A q \in Roles : q # r => provider'[q] = provider[q]
            /\ provider' \in [Roles -> ProviderType]
            /\ PortsReleased = {servers[m] : m \in Registered} /\ PortsReleased \in SUBSET Ports
            /\ live' \in SUBSET [model : Models, port : Ports]
            /\ \A p \in live' : servers[p.model] = p.port
<1> USE DEF IInv
<1> DEFINE r == cs.role
           v == provider[r].model
<1>1. /\ cs.pc = "unload" /\ servers' = servers
      /\ live' = live \ {[model |-> v, port |-> cs.port]}
      /\ provider' = [provider EXCEPT ![r] = NoProvider]
  BY DEF Unloaded, Stopped
<1>2. /\ lockq # <<>> /\ r \in Roles /\ provider[r] # NoProvider /\ cs.port = provider[r].port
      /\ servers[v] = 0 /\ (Holder # Monitor => r = Role[ModelOf(Holder)])
  BY <1>1 DEF SectionInv, TypeOK
<1>3. v \in Models /\ Role[v] = r /\ cs.port # 0
  BY <1>2 DEF RuntimeInv
<1>4. Holder # Monitor => ModelOf(Holder) \in Models
  BY <1>2, HolderJob
<1>5. up
  BY <1>2, StartupFinds
<1>6. provider'[r] = NoProvider /\ \A q \in Roles : q # r => provider'[q] = provider[q]
  BY <1>1, <1>2 DEF TypeOK
<1>7. provider' \in [Roles -> ProviderType]
  <2>1. NoProvider \in ProviderType
    BY DEF NoProvider, ProviderType, Port
  <2> QED BY <1>1, <2>1 DEF TypeOK, ProviderType
<1>8. \A m \in Registered : Role[m] # r
  <2>1. SUFFICES ASSUME NEW m \in Registered, Role[m] = r PROVE FALSE
    OBVIOUS
  <2>2. v = m
    BY <2>1 DEF RuntimeInv
  <2> QED BY <1>2, <2>2 DEF Registered
<1>9. \A m \in Models : m = Holder => servers[m] = 0
  <2>1. SUFFICES ASSUME Holder \in Models, servers[Holder] # 0 PROVE FALSE
    OBVIOUS
  <2>2. Role[Holder] = r
    BY <1>2, <2>1 DEF ModelOf
  <2> QED BY <1>8, <2>1, <2>2 DEF Registered
<1>10. PortsReleased = {servers[m] : m \in Registered} /\ PortsReleased \in SUBSET Ports
  <2>1. inUse = {servers[m] : m \in Registered} \cup {cs.port}
          /\ \A m \in Registered : servers[m] # cs.port
    BY <1>3 DEF RuntimeInv, PortsOwned
  <2> QED BY <2>1 DEF PortsReleased, TypeOK
<1>11. live' \in SUBSET [model : Models, port : Ports] /\ \A p \in live' : servers[p.model] = p.port
  <2>1. live \in SUBSET [model : Models, port : Ports]
    BY DEF TypeOK
  <2>2. ASSUME NEW p \in live' PROVE servers[p.model] = p.port
    <3>1. p = [model |-> p.model, port |-> p.port] /\ p \in live
      BY <1>1, <2>1
    <3>2. ~(v = p.model /\ cs.port = p.port)
      BY <1>1, <3>1
    <3> QED BY <1>1, <3>1, <3>2 DEF RuntimeInv
  <2> QED BY <1>1, <2>1, <2>2
<1> QED BY <1>1, <1>2, <1>3, <1>4, <1>5, <1>6, <1>7, <1>8, <1>9, <1>10, <1>11

\* Nothing is being started or stopped afterwards.
LEMMA ClearedRuntime ==
  ASSUME IInv, Unloaded, inUse' = PortsReleased, cs'.pc \in {"free", "probe"}, cs'.port = 0
  PROVE  RuntimeInv'
<1> USE DEF IInv
<1>1. /\ servers' = servers /\ Registered' = Registered
      /\ \A m \in Registered : Role[m] # cs.role
      /\ cs.role \in Roles /\ provider'[cs.role] = NoProvider
      /\ \A q \in Roles : q # cs.role => provider'[q] = provider[q]
      /\ inUse' = {servers[m] : m \in Registered}
      /\ \A p \in live' : servers[p.model] = p.port
      /\ cs.pc = "unload"
  BY Cleared DEF Registered
<1>2. PortsOwned'
  <2>1. \A m \in Registered : servers[m] # 0
    BY DEF Registered
  <2> QED BY <1>1, <2>1 DEF PortsOwned, RuntimeInv
<1>3. \A q \in Roles : provider'[q] # NoProvider =>
        /\ provider'[q].model \in Models /\ Role[provider'[q].model] = q
        /\ provider'[q].port # 0
        /\ servers'[provider'[q].model] = provider'[q].port
  BY <1>1 DEF RuntimeInv
<1>4. \A n \in Registered' :
        provider'[Role[n]].model = n /\ provider'[Role[n]].port = servers'[n]
  BY <1>1 DEF RuntimeInv, Registered
<1> QED BY <1>1, <1>2, <1>3, <1>4 DEF RuntimeInv

LEMMA UnloadedInv ==
  ASSUME IInv, OneActive', RowType', Unloaded, UNCHANGED <<todo, up, quit, stopping, asked>>
  PROVE  IInv'
<1> USE DEF IInv
<1> DEFINE m == ModelOf(Holder)
           r == cs.role
           v == provider[r].model
           rows == Released(v)
<1>1. /\ cs.pc = "unload" /\ lockq # <<>> /\ up /\ servers' = servers
      /\ r \in Roles /\ v \in Models /\ Role[v] = r /\ servers[v] = 0
      /\ Holder # Monitor => m \in Models /\ Role[m] = r
      /\ \A n \in Models : n = Holder => servers[n] = 0
      /\ \A n \in Registered : Role[n] # r
      /\ provider'[r] = NoProvider /\ \A q \in Roles : q # r => provider'[q] = provider[q]
      /\ provider' \in [Roles -> ProviderType]
      /\ PortsReleased = {servers[n] : n \in Registered} /\ PortsReleased \in SUBSET Ports
      /\ live' \in SUBSET [model : Models, port : Ports]
      /\ \A p \in live' : servers[p.model] = p.port
  BY Cleared
<1>2. \/ Holder = Monitor /\ inUse' = PortsReleased /\ NextProbe(Marked(rows, v, "error"))
      \/ Holder # Monitor /\ Proceed(Holder, rows, PortsReleased, live')
  BY DEF Unloaded, Stopped, Holder
<1>3. rows \in [Models -> RowStates]
  BY MarkedRows DEF Released, TypeOK, RowStates
<1>4. up /\ ~stopping => Match(rows, provider')
  <2>1. SUFFICES ASSUME up, ~stopping PROVE Match(rows, provider')
    OBVIOUS
  <2>2. Match(row, provider) /\ row \in [Models -> RowStates] /\ rows = Marked(row, v, "imported")
    BY <2>1 DEF RowsInv, RowsMatchRuntime, Match, TypeOK, RowStates, Released
  <2> QED BY <1>1, <2>2, MatchDropped
<1>5. \A n \in Models : Role[n] = r => provider'[Role[n]].model # n
  BY <1>1 DEF NoProvider
<1>6. ASSUME NEW table, Answer(Holder, table), inUse' = PortsReleased,
             up /\ ~stopping => Match(table, provider')
      PROVE  IInv'
  <2>1. ManagerType'
    BY <1>1, <1>6 DEF ManagerType, TypeOK
  <2>2. TypeOK' /\ QueueInv' /\ PhaseInv' /\ SectionInv' /\ ExitInv' /\ cs' = Free /\ row' = table
    BY <1>1, <1>6, <2>1, AnswerFrame
  <2>3. RuntimeInv'
    BY <1>6, <2>2, ClearedRuntime DEF Free
  <2>4. RowsMatchRuntime' /\ StartupInv'
    BY <1>1, <1>6, <2>2 DEF RowsMatchRuntime, Match, StartupInv
  <2> QED BY <2>2, <2>3, <2>4 DEF RowsInv
<1>7. CASE Holder = Monitor /\ inUse' = PortsReleased /\ NextProbe(Marked(rows, v, "error"))
  <2>1. up /\ ~stopping => Match(Marked(rows, v, "error"), provider')
    <3>1. "error" \in RowStates \ {"active"}
      BY DEF RowStates
    <3> QED BY <1>1, <1>3, <1>4, <1>5, <3>1, MatchMarked
  <2>2. CASE r # "chat"
    BY <1>6, <1>7, <2>1, <2>2 DEF NextProbe
  <2>3. CASE r = "chat"
    <3>1. /\ cs' = [pc |-> "probe", role |-> "embedding", port |-> 0]
          /\ row' = Marked(rows, v, "error") /\ UNCHANGED <<lockq, job>>
      <4>1. cs \in CsType
        BY DEF TypeOK, CsType
      <4>2. cs' = [cs EXCEPT !.pc = "probe", !.role = "embedding", !.port = 0]
              /\ row' = Marked(rows, v, "error") /\ UNCHANGED <<lockq, job>>
        BY <1>7, <2>3 DEF NextProbe
      <4> QED BY <4>1, <4>2 DEF CsType
    <3>2. ManagerType' /\ cs' \in CsType
      BY <1>1, <1>7, <3>1 DEF ManagerType, TypeOK, CsType, Port, Roles
    <3>3. TypeOK' /\ QueueInv' /\ PhaseInv' /\ ExitInv'
      BY <1>1, <3>1, <3>2, StayFrame
    <3>4. SectionInv'
      BY <1>1, <1>7, <3>1 DEF SectionInv, Holder
    <3>5. RuntimeInv'
      BY <1>7, <3>1, ClearedRuntime, SMTT(30)
    <3>6. RowsMatchRuntime' /\ StartupInv'
      BY <1>1, <2>1, <3>1 DEF RowsMatchRuntime, Match, StartupInv
    <3> QED BY <3>3, <3>4, <3>5, <3>6 DEF RowsInv
  <2> QED BY <2>2, <2>3
<1>8. CASE Holder # Monitor /\ Proceed(Holder, rows, PortsReleased, live')
  <2>1. CASE \E q \in Bindable(PortsReleased, live') :
                /\ cs' = [pc |-> "spawn", role |-> Role[m], port |-> q]
                /\ inUse' = PortsReleased \cup {q} /\ row' = rows /\ OpOf(Holder) \in Loads
                /\ UNCHANGED <<lockq, job>>
    <3>1. PICK q \in Bindable(PortsReleased, live') :
                /\ cs' = [pc |-> "spawn", role |-> Role[m], port |-> q]
                /\ inUse' = PortsReleased \cup {q} /\ row' = rows /\ OpOf(Holder) \in Loads
                /\ UNCHANGED <<lockq, job>>
      BY <2>1
    <3>2. q \in Ports \ PortsReleased
      BY DEF Bindable
    <3> QED BY <1>1, <1>4, <1>8, <3>1, <3>2, TakePortInv, ZenonT(60)
  <2>2. ASSUME NEW ok \in BOOLEAN, OpOf(Holder) = "activate" => ~ok,
               inUse' = PortsReleased, Answer(Holder, Written(Holder, rows, ok))
        PROVE  IInv'
    <3>1. up /\ ~stopping => Match(Written(Holder, rows, ok), provider')
      BY <1>1, <1>3, <1>4, <1>5, <1>8, <2>2, MatchWritten
    <3> QED BY <1>6, <2>2, <3>1
  <2>3. CASE inUse' = PortsReleased /\ Answer(Holder, Written(Holder, rows, FALSE))
    BY <2>2, <2>3
  <2>4. CASE OpOf(Holder) \in Unloads /\ inUse' = PortsReleased
               /\ Answer(Holder, Written(Holder, rows, TRUE))
    BY <2>2, <2>4 DEF Unloads
  <2> QED BY <1>8, <2>1, <2>3, <2>4 DEF Proceed
<1> QED BY <1>2, <1>7, <1>8

\* A failed start kills the process, returns the port and marks the row.
LEMMA StartFailsInv ==
  ASSUME IInv, OneActive', RowType', StartFails, UNCHANGED <<todo, up, quit, stopping, asked>>
  PROVE  IInv'
<1> USE DEF IInv
<1> DEFINE m == ModelOf(Holder)
           table == Written(Holder, row, FALSE)
<1>1. /\ cs.pc \in {"spawn", "health"} /\ live' = live \ {[model |-> m, port |-> cs.port]}
      /\ inUse' = inUse \ {cs.port} /\ Answer(Holder, table) /\ UNCHANGED <<servers, provider>>
  BY DEF StartFails, Killed, PortsReleased, Holder
<1>2. /\ lockq # <<>> /\ OpOf(Holder) \in Loads /\ cs.role = Role[m]
      /\ provider[cs.role] = NoProvider /\ cs.port # 0
  BY <1>1 DEF SectionInv
<1>3. m \in Models /\ Holder \in Handlers \cup {Startup} /\ Holder \notin Models
        /\ (~up => Holder = Startup)
  BY <1>2, HolderJob DEF Loads
<1>4. provider[Role[m]].model # m
  BY <1>2, <1>3 DEF NoProvider
<1>5. row \in [Models -> RowStates]
  BY DEF TypeOK, RowStates
<1>6. up /\ ~stopping => Match(table, provider)
  <2>1. up /\ ~stopping => Match(row, provider)
    BY DEF RowsInv, RowsMatchRuntime, Match
  <2> QED BY <1>3, <1>4, <1>5, <2>1, MatchWritten
<1>7. ManagerType'
  BY <1>1 DEF ManagerType, TypeOK, ProviderType
<1>8. /\ TypeOK' /\ QueueInv' /\ PhaseInv' /\ SectionInv' /\ ExitInv' /\ cs' = Free /\ row' = table
      /\ Holder = Startup => job'[Startup].op = "idle"
  BY <1>1, <1>2, <1>3, <1>7, AnswerFrame
<1>9. RuntimeInv'
  <2>1. PortsOwned'
    <3>1. inUse = {servers[n] : n \in Registered} \cup {cs.port}
            /\ \A n \in Registered : servers[n] # cs.port
      BY <1>2 DEF RuntimeInv, PortsOwned
    <3>2. inUse' = {servers[n] : n \in Registered}
      BY <1>1, <3>1
    <3>3. Registered' = Registered /\ cs'.port = 0 /\ \A n \in Registered : servers[n] # 0
      BY <1>1, <1>8 DEF Registered, Free
    <3> QED BY <1>1, <3>2, <3>3 DEF PortsOwned, RuntimeInv
  <2>2. \A p \in live' : servers[p.model] = p.port
    <3>1. SUFFICES ASSUME NEW p \in live' PROVE servers[p.model] = p.port
      OBVIOUS
    <3>2. p = [model |-> p.model, port |-> p.port] /\ p \in live
      BY <1>1 DEF TypeOK
    <3>3. ~(m = p.model /\ cs.port = p.port)
      BY <1>1, <3>2
    <3> QED BY <1>1, <3>2, <3>3 DEF RuntimeInv
  <2>3. \A q \in Roles : provider[q] # NoProvider =>
          /\ provider[q].model \in Models /\ Role[provider[q].model] = q
          /\ provider[q].port # 0
          /\ servers[provider[q].model] = provider[q].port
    BY <1>1 DEF RuntimeInv
  <2> QED BY <1>1, <2>1, <2>2, <2>3 DEF RuntimeInv, Registered
<1>10. RowsMatchRuntime'
  BY <1>1, <1>6, <1>8 DEF RowsMatchRuntime, Match
<1>11. StartupInv'
  <2>1. SUFFICES ASSUME ~up PROVE StartupInv'
    BY DEF StartupInv
  <2>2. /\ Holder = Startup /\ OpOf(Holder) = "restore" /\ m = job[Startup].model
        /\ job[Startup].was = "active"
    BY <1>2, <2>1, StartupFinds
  <2>3. job[Startup].op = "restore" /\ job'[Startup].op = "idle"
    BY <1>3, <1>8, <2>2 DEF OpOf
  <2>4. table = Marked(row, m, "error")
    BY <2>2 DEF Written
  <2>5. (\A n \in Models : n # m => row'[n] = row[n]) /\ row'[m] # "active"
    <3>1. "error" \in RowStates
      BY DEF RowStates
    <3>2. /\ \A n \in Models : n # m => Marked(row, m, "error")[n] = row[n]
          /\ Marked(row, m, "error")[m] # "active"
      BY <1>3, <1>5, <3>1, MarkedRows
    <3> QED BY <1>8, <2>4, <3>2
  <2>6. m \notin todo
    BY <2>1, <2>2, <2>3 DEF RowsInv, StartupInv
  <2> QED BY <1>1, <1>4, <2>1, <2>2, <2>3, <2>5, <2>6 DEF RowsInv, StartupInv
<1> QED BY <1>8, <1>9, <1>10, <1>11 DEF RowsInv

\* A ready server is registered, its provider installed and its row active.
LEMMA ReadyInv ==
  ASSUME IInv, OneActive', RowType', Ready, UNCHANGED <<todo, up, quit, stopping, asked>>
  PROVE  IInv'
<1> USE DEF IInv
<1> DEFINE m == ModelOf(Holder)
           table == Written(Holder, Activated(row, m), TRUE)
           new == [model |-> m, port |-> cs.port, client |-> "open"]
<1>1. /\ cs.pc = "health" /\ servers' = [servers EXCEPT ![m] = cs.port]
      /\ provider' = [provider EXCEPT ![cs.role] = new]
      /\ Answer(Holder, table) /\ UNCHANGED <<inUse, live>>
  BY DEF Ready, Holder
<1>2. /\ lockq # <<>> /\ OpOf(Holder) \in Loads /\ cs.role = Role[m]
      /\ provider[cs.role] = NoProvider /\ cs.port # 0 /\ cs.port \in Ports
  BY <1>1 DEF SectionInv, TypeOK, Port
<1>3. m \in Models /\ Holder \notin Models /\ quit.round # 2 /\ (~up => Holder = Startup)
  BY <1>2, HolderJob DEF Loads
<1>4. /\ \A n \in Models : servers'[n] = IF n = m THEN cs.port ELSE servers[n]
      /\ provider'[Role[m]] = new /\ \A r \in Roles : r # Role[m] => provider'[r] = provider[r]
  BY <1>1, <1>2, <1>3 DEF TypeOK
<1>5. \A n \in Registered : Role[n] # Role[m]
  BY <1>2, <1>3 DEF RuntimeInv, Registered, NoProvider
<1>6. servers[m] = 0 /\ Registered' = Registered \cup {m}
  BY <1>2, <1>3, <1>4, <1>5 DEF Registered
<1>7. ManagerType'
  <2>1. servers' \in [Models -> Port]
    BY <1>1, <1>2, <1>3 DEF TypeOK, Port
  <2>2. new \in ProviderType
    BY <1>2, <1>3 DEF ProviderType, Port
  <2>3. provider' \in [Roles -> ProviderType]
    BY <1>1, <2>2 DEF TypeOK, ProviderType
  <2> QED BY <1>1, <2>1, <2>3 DEF ManagerType, TypeOK
<1>8. /\ TypeOK' /\ QueueInv' /\ PhaseInv' /\ SectionInv' /\ ExitInv' /\ cs' = Free /\ row' = table
      /\ Holder = Startup => job'[Startup].op = "idle"
  BY <1>1, <1>2, <1>3, <1>7, AnswerFrame
<1>9. RuntimeInv'
  <2>1. PortsOwned'
    <3>1. /\ inUse = {servers[n] : n \in Registered} \cup {cs.port}
          /\ \A n \in Registered : servers[n] # cs.port
          /\ \A n, k \in Registered : servers[n] = servers[k] => n = k
      BY <1>2 DEF RuntimeInv, PortsOwned
    <3>2. \A n \in Registered : servers'[n] = servers[n]
      BY <1>4, <1>5 DEF Registered
    <3>3. servers'[m] = cs.port /\ cs'.port = 0
      BY <1>3, <1>4, <1>8 DEF Free
    <3>4. inUse' = {servers'[n] : n \in Registered'} \cup ({cs'.port} \ {0})
      BY <1>1, <1>6, <3>1, <3>2, <3>3
    <3>5. \A n, k \in Registered' : servers'[n] = servers'[k] => n = k
      BY <1>6, <3>1, <3>2, <3>3
    <3>6. \A n \in Registered' : servers'[n] # cs'.port
      BY <1>2, <1>6, <3>2, <3>3 DEF Registered
    <3> QED BY <3>4, <3>5, <3>6 DEF PortsOwned
  <2>2. \A p \in live' : servers'[p.model] = p.port
    <3>1. \A p \in live : p.model \in Models /\ p.port # 0
      BY DEF TypeOK
    <3> QED BY <1>1, <1>4, <1>6, <3>1 DEF RuntimeInv
  <2>3. \A q \in Roles : provider'[q] # NoProvider =>
          /\ provider'[q].model \in Models /\ Role[provider'[q].model] = q
          /\ provider'[q].port # 0
          /\ servers'[provider'[q].model] = provider'[q].port
    BY <1>1, <1>2, <1>3, <1>4 DEF RuntimeInv
  <2>4. \A n \in Registered' :
          provider'[Role[n]].model = n /\ provider'[Role[n]].port = servers'[n]
    BY <1>3, <1>4, <1>5, <1>6 DEF RuntimeInv, Registered
  <2> QED BY <2>1, <2>2, <2>3, <2>4 DEF RuntimeInv
<1>10. row \in [Models -> RowStates] /\ One(row)
  BY DEF TypeOK, RowStates, RowsInv, OneActive, One
<1>11. table = Activated(row, m) \/ table = Activated(Activated(row, m), m)
  BY <1>2 DEF Written, Loads
<1>12. up /\ ~stopping => Match(table, provider')
  <2>1. SUFFICES ASSUME up, ~stopping PROVE Match(table, provider')
    OBVIOUS
  <2>2. Match(row, provider)
    BY <2>1 DEF RowsInv, RowsMatchRuntime, Match
  <2>3. Match(Activated(row, m), provider')
    BY <1>2, <1>3, <1>4, <1>10, <2>2, MatchSet
  <2>4. Activated(row, m) \in [Models -> RowStates] /\ One(Activated(row, m))
    BY <1>10, ActivatedRows
  <2>5. Match(Activated(Activated(row, m), m), provider')
    BY <1>3, <1>4, <2>3, <2>4, MatchActivated
  <2> QED BY <1>11, <2>3, <2>5
<1>13. RowsMatchRuntime'
  BY <1>8, <1>12 DEF RowsMatchRuntime, Match
<1>14. StartupInv'
  <2>1. SUFFICES ASSUME ~up PROVE StartupInv'
    BY DEF StartupInv
  <2>2. Holder = Startup /\ OpOf(Holder) = "restore" /\ m = job[Startup].model /\ row[m] = "active"
    BY <1>2, <2>1, StartupFinds
  <2>3. job[Startup].op = "restore" /\ job'[Startup].op = "idle"
    BY <1>3, <1>8, <2>2 DEF OpOf
  <2>4. row' = Activated(row, m)
    BY <1>8, <2>2 DEF Written
  <2>5. \A n \in Models : row'[n] = row[n]
    BY <1>3, <1>10, <2>2, <2>4 DEF Activated, Siblings, One
  <2>6. m \notin todo
    BY <2>1, <2>2, <2>3 DEF RowsInv, StartupInv
  <2>7. \A n \in Models : n # m /\ Role[n] = Role[m] => row[n] # "active"
    BY <1>3, <1>10, <2>2 DEF One
  <2> QED BY <1>3, <1>4, <2>1, <2>2, <2>3, <2>5, <2>6, <2>7 DEF RowsInv, StartupInv
<1> QED BY <1>8, <1>9, <1>13, <1>14 DEF RowsInv

------------------------------------------------------------------------------
(* Cancellations, and the invariance.                                      *)

LEMMA CancelWaitingInv ==
  ASSUME IInv, NEW a \in Handlers \cup {Monitor}, CancelWaiting(a),
         UNCHANGED <<todo, up, quit, stopping, asked>>
  PROVE  IInv'
<1> USE DEF IInv
<1>1. /\ a = Head(lockq) => cs.pc = "free"
      /\ job' = IF a \in DOMAIN job THEN [job EXCEPT ![a] = NoJob] ELSE job
      /\ UNCHANGED <<row, servers, provider, inUse, live, cs>>
  BY DEF CancelWaiting, manager
<1>2. PICK i \in 1..Len(lockq) : lockq[i] = a /\ lockq' = Dequeued(i)
  BY DEF CancelWaiting
<1>3. /\ lockq' \in Seq(Agents) /\ Distinct(lockq') /\ Waiting' = Waiting \ {a}
      /\ a # Holder => lockq' # <<>> /\ Head(lockq') = Holder
      /\ a \in Waiting
  <2>1. a \in Waiting
    BY <1>2 DEF Waiting
  <2> QED BY <1>2, <2>1, Dropped
<1>4. job' \in [Handlers \cup {Startup} -> JobType] /\ QueueInv' /\ PhaseInv'
  BY <1>1, <1>3, LeaveQueue
<1>5. \A b \in Handlers \cup {Startup} : b # a => job'[b] = job[b]
  BY <1>1 DEF TypeOK
<1>6. TypeOK'
  BY <1>1, <1>3, <1>4 DEF TypeOK, JobType, RowStates
<1>7. SectionInv' /\ RuntimeInv'
  <2>1. ASSUME cs.pc # "free"
        PROVE  /\ lockq' # <<>> /\ Head(lockq') = Holder
               /\ OpOf(Holder)' = OpOf(Holder)
               /\ Holder # Monitor => ModelOf(Holder)' = ModelOf(Holder)
    <3>1. lockq # <<>> /\ a # Holder
      BY <1>1, <2>1 DEF SectionInv, Holder
    <3>2. Holder \in Agents /\ Holder' = Holder /\ lockq' # <<>> /\ Head(lockq') = Holder
      BY <1>3, <3>1, HolderWaits DEF Holder
    <3>3. Holder \notin Models /\ Holder # Monitor => job'[Holder] = job[Holder]
      BY <1>5, <3>1, <3>2 DEF Agents
    <3> QED BY <3>2, <3>3 DEF OpOf, ModelOf
  <2> QED BY <1>1, <2>1, QuietRuntime
<1>8. RowsInv'
  <2>1. job'[Startup] = job[Startup]
    BY <1>5
  <2> QED BY <1>1, <2>1 DEF RowsInv, OneActive, RowsMatchRuntime, StartupInv
<1>9. ExitInv'
  <2>1. a \notin Models
    OBVIOUS
  <2>2. lockq # <<>>
    BY <1>2
  <2> QED BY <1>1, <1>3, <2>1, <2>2 DEF ExitInv, Registered
<1> QED BY <1>4, <1>6, <1>7, <1>8, <1>9

LEMMA CancelHoldingInv ==
  ASSUME UnloadsFinish, IInv, OneActive', RowType', NEW a \in Handlers \cup {Monitor},
         CancelHolding(a), UNCHANGED <<todo, up, quit, stopping, asked>>
  PROVE  IInv'
<1> USE DEF IInv
<1>1. a = Holder /\ lockq # <<>> /\ cs.pc # "unload"
  BY DEF CancelHolding, Holder, UnloadsFinish
<1>2. CASE StartFails
  BY <1>2, StartFailsInv
<1>3. CASE cs.pc = "probe" /\ Answer(a, row) /\ UNCHANGED manager
  <2>1. Holder = Monitor /\ Holder \notin Models /\ Answer(Holder, row)
          /\ UNCHANGED <<servers, provider, inUse, live>>
    BY <1>1, <1>3 DEF SectionInv, manager
  <2>2. up
    BY <1>1, <2>1, HolderJob
  <2>3. up /\ ~stopping => Match(row, provider)
    BY DEF RowsInv, RowsMatchRuntime, Match
  <2> QED BY <1>1, <1>3, <2>1, <2>2, <2>3, IdleAnswer
<1> QED BY <1>1, <1>2, <1>3 DEF CancelHolding

LEMMA StepInv ==
  ASSUME UnloadsFinish, IInv, [Next]_vars
  PROVE  IInv'
<1>1. RowType' /\ OneActive'
  <2>1. RowType /\ OneActive
    BY DEF IInv, TypeOK, RowType, RowStates, RowsInv
  <2> QED BY <2>1, RowStep
<1>2. CASE SectionStep
  BY <1>1, <1>2, EnterInv, ProbeGoodInv, ProbeBadInv, UnloadedInv, SpawnedInv, StartFailsInv,
     ReadyInv DEF SectionStep
<1>3. CASE Cancel
  BY <1>1, <1>3, CancelWaitingInv, CancelHoldingInv DEF Cancel
<1>4. CASE QuietStep
  BY <1>1, <1>4, QuietInv
<1>5. CASE UNCHANGED vars
  BY <1>5, StutterInv
<1> QED BY <1>2, <1>3, <1>4, <1>5 DEF Next, QuietStep

LEMMA InitInv == Init => IInv
<1> SUFFICES ASSUME Init PROVE IInv
  OBVIOUS
<1>1. /\ row \in [Models -> {"new", "imported", "active", "error"}]
      /\ servers = [m \in Models |-> 0] /\ provider = [r \in Roles |-> NoProvider]
      /\ inUse = {} /\ live = {} /\ lockq = <<>> /\ cs = Free
      /\ job = [a \in Handlers \cup {Startup} |-> NoJob]
      /\ todo = {m \in Models : row[m] = "active"} /\ up = FALSE
      /\ quit = [round |-> 0, at |-> "no", tasks |-> {}] /\ stopping = FALSE /\ asked = 0
  BY DEF Init
<1>2. TypeOK
  <2>1. provider \in [Roles -> [model : Models \cup {None}, port : Port, client : {"none", "open", "closed"}]]
    BY <1>1 DEF NoProvider, Port
  <2>2. cs \in [pc : {"free", "probe", "unload", "spawn", "health"}, role : Roles, port : Port]
    BY <1>1 DEF Free, Roles, Port
  <2>3. job \in [Handlers \cup {Startup} ->
                [op : Loads \cup {"deactivate", "idle"}, model : Models \cup {None},
                 was : {"new", "imported", "active", "error", "deleted"}]]
    BY <1>1 DEF NoJob
  <2>4. servers \in [Models -> Port] /\ lockq \in Seq(Agents) /\ todo \in SUBSET Models
    BY <1>1 DEF Port
  <2>5. quit \in [round : 0..2, at : {"no", "monitor", "stop", "done"}, tasks : SUBSET Models]
    BY <1>1
  <2>6. row \in [Models -> {"new", "imported", "active", "error", "deleted"}]
    BY <1>1
  <2> QED BY <1>1, <2>1, <2>2, <2>3, <2>4, <2>5, <2>6 DEF TypeOK
<1>3. Waiting = {} /\ Registered = {}
  BY <1>1 DEF Waiting, Registered
<1>4. QueueInv /\ PhaseInv /\ ExitInv
  BY <1>1, <1>3 DEF QueueInv, PhaseInv, ExitInv, NoJob
<1>5. SectionInv
  BY <1>1 DEF SectionInv, Free
<1>6. RuntimeInv
  BY <1>1, <1>3 DEF RuntimeInv, PortsOwned, Free
<1>7. RowsInv
  <2>1. \A m \in Models : provider[Role[m]].model # m
    BY <1>1 DEF NoProvider
  <2> QED BY <1>1, <2>1 DEF RowsInv, OneActive, RowsMatchRuntime, StartupInv, Init, NoJob
<1> QED BY <1>2, <1>4, <1>5, <1>6, <1>7 DEF IInv

------------------------------------------------------------------------------
(* The theorems.                                                           *)

\* Queue, section, registry, providers, ports, processes and rows agree at
\* every step, whoever holds the lock and whatever is cancelled elsewhere.
THEOREM Invariance == ASSUME UnloadsFinish PROVE Spec => []IInv
<1>1. Init => IInv
  BY InitInv
<1>2. IInv /\ [Next]_vars => IInv'
  BY StepInv
<1> QED BY <1>1, <1>2, PTL DEF Spec

\* Every variable keeps its type.
THEOREM TypeCorrect == ASSUME UnloadsFinish PROVE Spec => []TypeOK
<1>1. IInv => TypeOK
  BY DEF IInv
<1> QED BY <1>1, Invariance, PTL

\* A request or a startup waits for the lock, or holds it, exactly once while it has
\* an operation left and never after; the monitor does only before the servers are
\* stopped, and a server's stop only in that round: a cancellation leaves no entry
\* behind which the others would wait for ever.
THEOREM WaitsOnce == ASSUME UnloadsFinish PROVE Spec => []QueueInv
<1>1. IInv => QueueInv
  BY DEF IInv
<1> QED BY <1>1, Invariance, PTL

\* While requests are served, the active rows and the loaded models agree.
THEOREM RowsFollow == ASSUME UnloadsFinish PROVE Spec => []RowsMatchRuntime
<1>1. IInv => RowsMatchRuntime
  BY DEF IInv, RowsInv
<1> QED BY <1>1, Invariance, PTL

\* No port of the managed range is leaked, and no two servers share one.
THEOREM PortsExact == ASSUME UnloadsFinish PROVE Spec => []PortsOwned
<1>1. IInv => PortsOwned
  BY DEF IInv, RuntimeInv
<1> QED BY <1>1, Invariance, PTL

\* The lifespan's shutdown leaves no process and no port behind.
THEOREM ExitClean == ASSUME UnloadsFinish PROVE Spec => []CleanExit
<1>1. IInv => CleanExit
  <2> SUFFICES ASSUME IInv, quit.round = 2, quit.at = "done" PROVE live = {} /\ inUse = {}
    BY DEF CleanExit
  <2>1. Registered = {} /\ cs.pc = "free" /\ cs.port = 0
    BY DEF IInv, ExitInv, SectionInv
  <2>2. inUse = {}
    BY <2>1 DEF IInv, RuntimeInv, PortsOwned
  <2>3. ASSUME NEW p \in live PROVE FALSE
    <3>1. p.model \in Models /\ p.port # 0 /\ servers[p.model] = p.port
      BY <2>1 DEF IInv, TypeOK, RuntimeInv
    <3> QED BY <2>1, <3>1 DEF Registered
  <2> QED BY <2>2, <2>3
<1> QED BY <1>1, Invariance, PTL

\* Two processes never share a role, and none is there when one is spawned.
LEMMA OneEach ==
  ASSUME IInv
  PROVE  /\ \A p, q \in live : Role[p.model] = Role[q.model] => p = q
         /\ cs.pc = "spawn" => \A p \in live : Role[p.model] # cs.role
<1> USE DEF IInv
<1>1. ASSUME NEW p \in live
      PROVE  /\ p.model \in Models /\ p.port # 0 /\ p = [model |-> p.model, port |-> p.port]
             /\ \/ provider[Role[p.model]].model = p.model /\ provider[Role[p.model]].port = p.port
                \/ cs.pc = "health" /\ Role[p.model] = cs.role /\ p.model = ModelOf(Holder)
                     /\ p.port = cs.port
  <2>1. p.model \in Models /\ p.port # 0 /\ p = [model |-> p.model, port |-> p.port]
    BY DEF TypeOK
  <2>2. CASE servers[p.model] = p.port
    BY <2>1, <2>2 DEF RuntimeInv, Registered
  <2>3. CASE cs.pc = "unload" /\ provider[cs.role].model = p.model /\ cs.port = p.port
    <3>1. cs.role \in Roles /\ provider[cs.role] # NoProvider /\ cs.port = provider[cs.role].port
      BY <2>3 DEF SectionInv, TypeOK
    <3>2. Role[p.model] = cs.role
      BY <2>3, <3>1 DEF RuntimeInv
    <3> QED BY <2>1, <2>3, <3>1, <3>2
  <2>4. CASE cs.pc = "health" /\ ModelOf(Holder) = p.model /\ cs.port = p.port
    BY <2>1, <2>4 DEF SectionInv
  <2> QED BY <2>2, <2>3, <2>4 DEF RuntimeInv
<1>2. cs.pc \in {"spawn", "health"} => provider[cs.role].model = None
  BY DEF SectionInv, NoProvider
<1>3. ASSUME NEW p \in live, NEW q \in live, Role[p.model] = Role[q.model] PROVE p = q
  <2>1. p.model = q.model /\ p.port = q.port
    BY <1>1, <1>2, <1>3
  <2> QED BY <1>1, <2>1
<1> QED BY <1>1, <1>2, <1>3

\* The manager keeps at most one process of a role in memory, and starts one
\* only after the previous has gone.
THEOREM SlotsImplemented == ASSUME UnloadsFinish PROVE Spec => ImplementsSlots
<1>1. Init => Slots!Init
  BY DEF Init, Slots!Init, Slots!Roles, resident, Roles
<1>2. IInv /\ [Next]_vars => [Slots!Next]_resident
  <2> SUFFICES ASSUME IInv, [Next]_vars PROVE Slots!Next \/ resident' = resident
    OBVIOUS
  <2>1. CASE live' = live
    BY <2>1 DEF resident
  <2>2. CASE \E x \in live : live' = live \ {x}
    <3>1. PICK x \in live : live' = live \ {x}
      BY <2>2
    <3> DEFINE r == Role[x.model]
    <3>2. r \in Slots!Roles
      BY DEF IInv, TypeOK, Slots!Roles, Roles
    <3>3. {p \in live : Role[p.model] = r} = {x}
      BY OneEach
    <3>4. resident' = [resident EXCEPT ![r] = {}] /\ resident[r] # {}
      <4>1. {p \in live' : Role[p.model] = r} = {}
        BY <3>1, <3>3
      <4>2. \A q \in Roles \ {r} :
              {p \in live' : Role[p.model] = q} = {p \in live : Role[p.model] = q}
        BY <3>1
      <4>3. resident[r] = {x}
        BY <3>2, <3>3 DEF resident, Slots!Roles, Roles
      <4>0. r \in Roles
        BY <3>2 DEF Slots!Roles, Roles
      <4>4. (\A q \in Roles \ {r} : resident'[q] = resident[q]) /\ resident'[r] = {}
        BY <4>0, <4>1, <4>2 DEF resident
      <4>5. /\ resident = [q \in Roles |-> resident[q]]
            /\ resident' = [q \in Roles |-> resident'[q]]
        BY DEF resident
      <4>6. [resident EXCEPT ![r] = {}] = [q \in Roles |-> IF q = r THEN {} ELSE resident[q]]
        BY <4>5
      <4> QED BY <4>0, <4>4, <4>5, <4>6, <4>3, SMTT(30)
    <3> QED BY <3>2, <3>4 DEF Slots!Next, Slots!Leave
  <2>3. CASE Spawned
    <3> DEFINE x == [model |-> ModelOf(Holder), port |-> cs.port]
               r == cs.role
    <3>1. /\ cs.pc = "spawn" /\ live' = live \cup {x} /\ lockq # <<>>
          /\ r = Role[ModelOf(Holder)] /\ OpOf(Holder) \in Loads
          /\ cs.port \in Ports /\ r \in Slots!Roles
      BY <2>3 DEF Spawned, Holder, IInv, SectionInv, TypeOK, Port, Slots!Roles, Roles
    <3>2. ModelOf(Holder) \in Models
      BY <3>1, HolderJob DEF IInv, Loads
    <3>3. x \in Slots!Process(r)
      BY <3>1, <3>2 DEF Slots!Process
    <3>4. resident[r] = {}
      BY <3>1, OneEach DEF resident, Slots!Roles, Roles
    <3>5. resident' = [resident EXCEPT ![r] = {x}]
      <4>1. {p \in live' : Role[p.model] = r} = {x}
        BY <3>1, OneEach
      <4>2. \A q \in Roles \ {r} :
              {p \in live' : Role[p.model] = q} = {p \in live : Role[p.model] = q}
        BY <3>1
      <4>0. r \in Roles
        BY <3>1 DEF Slots!Roles, Roles
      <4>4. (\A q \in Roles \ {r} : resident'[q] = resident[q]) /\ resident'[r] = {x}
        BY <4>0, <4>1, <4>2 DEF resident
      <4>5. /\ resident = [q \in Roles |-> resident[q]]
            /\ resident' = [q \in Roles |-> resident'[q]]
        BY DEF resident
      <4>6. [resident EXCEPT ![r] = {x}] = [q \in Roles |-> IF q = r THEN {x} ELSE resident[q]]
        BY <4>5
      <4> QED BY <4>0, <4>4, <4>5, <4>6, SMTT(30)
    <3> QED BY <3>1, <3>3, <3>4, <3>5 DEF Slots!Next, Slots!Enter
  <2>4. live' = live \/ (\E x \in live : live' = live \ {x}) \/ Spawned
    <3>1. CASE UNCHANGED vars
      BY <3>1 DEF vars
    <3>2. CASE QuietStep
      BY <3>2 DEF QuietStep, Restore, Started, Request, Edit, Tick, Die, Shutdown, Quit, StopServers,
                  StopTask, StopDone, manager
    <3>3. CASE SectionStep
      BY <3>3 DEF SectionStep, Enter, EnterLoad, EnterUnload, EnterProbe, BeginUnload, manager,
                  ProbeGood, ProbeBad, Unloaded, Stopped, StartFails, Killed, Ready
    <3>4. CASE Cancel
      BY <3>4 DEF Cancel, CancelWaiting, CancelHolding, StartFails, Killed, manager
    <3> QED BY <3>1, <3>2, <3>3, <3>4 DEF Next, QuietStep
  <2> QED BY <2>1, <2>2, <2>3, <2>4
<1> QED BY <1>1, <1>2, Invariance, PTL DEF Spec, ImplementsSlots, Slots!Spec
=============================================================================
