------------------------- MODULE TaskDispatchProofs -------------------------
(***************************************************************************)
(* What TLAPS proves of TaskDispatch for any number of tasks, agents and   *)
(* resources: first of what tasksMu protects (QueueInv) and of the use of  *)
(* the resource maps, then of what it does not, the life of a single task. *)
(***************************************************************************)
EXTENDS TaskDispatch, ResourceHoldsProofs, SequenceTheorems, TLAPS

-----------------------------------------------------------------------------
(* Queue operations.                                                       *)

\* Cutting an entry out of a queue leaves a queue without that entry.
LEMMA DequeueFacts ==
    ASSUME NEW t \in Tasks,
           queue \in [Agents -> Seq(Tasks)],
           QueueSound
    PROVE  /\ Dequeue(t) \in [Agents -> Seq(Tasks)]
           /\ \A a \in Agents : \A i, j \in DOMAIN Dequeue(t)[a] :
                 /\ AgentOf[Dequeue(t)[a][i]] = a
                 /\ Dequeue(t)[a][i] = Dequeue(t)[a][j] => i = j
           /\ \A u \in Tasks : u \in Range(Dequeue(t)[AgentOf[u]]) => Queued(u)
           /\ t \notin Range(Dequeue(t)[AgentOf[t]])
<1>1. AgentOf[t] \in Agents
  BY ResourceAssumption
<1>2. CASE ~Queued(t)
  BY <1>1, <1>2 DEF Dequeue, QueueSound, Queued
<1>3. CASE Queued(t)
  <2> DEFINE b == AgentOf[t]
             q == queue[b]
             k == CHOOSE i \in DOMAIN q : q[i] = t
             r == [j \in 1..(Len(q) - 1) |-> IF j < k THEN q[j] ELSE q[j + 1]]
  <2>1. q \in Seq(Tasks) /\ Len(q) \in Nat /\ DOMAIN q = 1..Len(q)
    BY <1>1
  <2>2. k \in DOMAIN q /\ q[k] = t
    BY <1>3 DEF Queued, Range
  <2>3. Dequeue(t) = [queue EXCEPT ![b] = r]
    BY <1>3 DEF Dequeue
  <2>4. \A j \in 1..(Len(q) - 1) : (IF j < k THEN q[j] ELSE q[j + 1]) \in Tasks
    BY <2>1, <2>2
  <2>5. r \in Seq(Tasks) /\ DOMAIN r = 1..(Len(q) - 1)
    <3>1. Len(q) - 1 \in Nat
      BY <2>1, <2>2
    <3>2. r \in [1..(Len(q) - 1) -> Tasks]
      BY <2>4
    <3> QED
      BY <3>1, <3>2
  <2>6. \A j \in DOMAIN r : r[j] = q[IF j < k THEN j ELSE j + 1]
    <3> TAKE j \in DOMAIN r
    <3>1. r[j] = IF j < k THEN q[j] ELSE q[j + 1]
      BY <2>5
    <3>2. CASE j < k
      BY <3>1, <3>2
    <3>3. CASE ~(j < k)
      BY <3>1, <3>3
    <3> QED
      BY <3>2, <3>3
  <2>7. \A j \in DOMAIN r : /\ (IF j < k THEN j ELSE j + 1) \in DOMAIN q
                            /\ (IF j < k THEN j ELSE j + 1) # k
    <3> TAKE j \in DOMAIN r
    <3>1. j \in 1..(Len(q) - 1) /\ k \in 1..Len(q)
      BY <2>1, <2>2, <2>5
    <3> HIDE DEF r, q, k
    <3> QED
      BY <3>1, <2>1
  <2>8. \A i, j \in DOMAIN q : AgentOf[q[i]] = b /\ (q[i] = q[j] => i = j)
    BY <1>1 DEF QueueSound
  <2>9. \A i, j \in DOMAIN r : AgentOf[r[i]] = b /\ (r[i] = r[j] => i = j)
    <3> SUFFICES ASSUME NEW i \in DOMAIN r, NEW j \in DOMAIN r
                 PROVE  AgentOf[r[i]] = b /\ (r[i] = r[j] => i = j)
      OBVIOUS
    <3> DEFINE i1 == IF i < k THEN i ELSE i + 1
               j1 == IF j < k THEN j ELSE j + 1
    <3>1. r[i] = q[i1] /\ r[j] = q[j1] /\ i1 \in DOMAIN q /\ j1 \in DOMAIN q
      BY <2>6, <2>7
    <3>2. i1 = j1 => i = j
      BY <2>1, <2>2, <2>5
    <3> HIDE DEF i1, j1, r, q, k, b
    <3> QED
      BY <3>1, <3>2, <2>8
  <2>10. \A j \in DOMAIN r : r[j] \in Range(q) /\ r[j] # t
    <3> HIDE DEF r, k
    <3> QED
      BY <2>2, <2>6, <2>7, <2>8 DEF Range
  <2> HIDE DEF r, q, k, b
  <2>11. Dequeue(t)[b] = r /\ \A a \in Agents : a # b => Dequeue(t)[a] = queue[a]
    BY <1>1, <2>3 DEF b
  <2>12. Dequeue(t) \in [Agents -> Seq(Tasks)]
    BY <1>1, <2>3, <2>5 DEF b
  <2>13. \A a \in Agents : \A i, j \in DOMAIN Dequeue(t)[a] :
            /\ AgentOf[Dequeue(t)[a][i]] = a
            /\ Dequeue(t)[a][i] = Dequeue(t)[a][j] => i = j
    BY <2>9, <2>11 DEF QueueSound
  <2>14. \A u \in Tasks : u \in Range(Dequeue(t)[AgentOf[u]]) => Queued(u)
    <3> TAKE u \in Tasks
    <3>1. CASE AgentOf[u] = b
      BY <3>1, <2>10, <2>11 DEF Range, Queued, q
    <3>2. CASE AgentOf[u] # b
      BY <3>2, <2>11, ResourceAssumption DEF Queued
    <3> QED
      BY <3>1, <3>2
  <2>15. t \notin Range(Dequeue(t)[AgentOf[t]])
    BY <2>10, <2>11 DEF Range, b
  <2> QED
    BY <2>12, <2>13, <2>14, <2>15
<1> QED
  BY <1>2, <1>3

\* A queue that lost a prefix is still a queue of distinct tasks of its agent.
LEMMA SuffixFacts ==
    ASSUME NEW q \in Seq(Tasks), NEW d \in 0..Len(q)
    PROVE  LET s == SubSeq(q, d + 1, Len(q))
           IN  /\ s \in Seq(Tasks)
               /\ DOMAIN s = 1..(Len(q) - d)
               /\ \A i \in DOMAIN s : i + d \in DOMAIN q /\ s[i] = q[i + d]
<1> DEFINE s == SubSeq(q, d + 1, Len(q))
<1>1. Len(q) \in Nat /\ d \in Nat /\ DOMAIN q = 1..Len(q)
  OBVIOUS
<1>2. s = [i \in 1..(Len(q) - d) |-> q[i + d]]
  BY <1>1
<1>3. \A i \in 1..(Len(q) - d) : i + d \in DOMAIN q /\ q[i + d] \in Tasks
  BY <1>1
<1>4. s \in Seq(Tasks)
  BY <1>1
<1>5. DOMAIN s = 1..(Len(q) - d)
  BY <1>2
<1> QED
  BY <1>2, <1>3, <1>4, <1>5

-----------------------------------------------------------------------------
(* The invariant.                                                          *)

\* The task being dispatched is a task of the agent.
LEMMA DispatchedTask ==
    ASSUME QueueInv, dispatcher.pc \notin {"idle", "loop"}
    PROVE  /\ dispatcher.agent \in Agents
           /\ dispatcher.task \in Tasks
           /\ AgentOf[dispatcher.task] = dispatcher.agent
           /\ Queued(dispatcher.task)
<1> DEFINE q == queue[dispatcher.agent]
<1>1. dispatcher.agent \in Agents /\ q # <<>> /\ dispatcher.task = Head(q)
  BY DEF QueueInv, HeadDispatched
<1>2. q \in Seq(Tasks)
  BY <1>1 DEF QueueInv, DispatchTypeOK
<1>3. 1 \in DOMAIN q /\ dispatcher.task = q[1] /\ q[1] \in Tasks
  BY <1>1, <1>2
<1>4. AgentOf[q[1]] = dispatcher.agent
  BY <1>1, <1>3 DEF QueueInv, QueueSound
<1> QED
  BY <1>1, <1>3, <1>4 DEF Queued, Range

\* Handlers: a new one is well formed, one that is through may be forgotten.
LEMMA AddUpdate ==
    ASSUME updates \in SUBSET Updates, TerminalUpdates,
           NEW u \in Updates, u.pc \notin {"net", "ack"} => u.state \in Terminal,
           updates' \in SUBSET (updates \cup {u})
    PROVE  updates' \in SUBSET Updates /\ TerminalUpdates'
BY DEF TerminalUpdates

\* A handler that ended leaves the others as they were.
LEMMA DropUpdates ==
    ASSUME updates \in SUBSET Updates, TerminalUpdates, updates' \in SUBSET updates
    PROVE  updates' \in SUBSET Updates /\ TerminalUpdates'
BY DEF TerminalUpdates

\* The steps that leave what tasksMu protects alone: a step that changes
\* neither the queues nor the tasks nor the goroutines keeps the invariant as
\* long as the dispatcher stays with its task.
LEMMA Frame ==
    ASSUME QueueInv, DispatchTypeOK', UNCHANGED <<queue, tasks, canceller>>,
           \A t \in Tasks : runner'[t] = "none" => runner[t] = "none",
           \/ dispatcher'.pc = "idle"
           \/ /\ dispatcher'.pc # "idle" /\ dispatcher'.agent = dispatcher.agent
              /\ dispatcher'.task = dispatcher.task
              /\ dispatcher.pc \notin {"idle", "loop"}
           \/ dispatcher' = dispatcher,
           updates' \in SUBSET updates \/ TerminalUpdates'
    PROVE  QueueInv'
<1>1. QueueSound'
  BY DEF QueueInv, QueueSound
<1>2. HeadDispatched'
  BY DEF QueueInv, HeadDispatched
<1>3. NotYetStarted' /\ CancelledNotQueued'
  BY DEF QueueInv, NotYetStarted, CancelledNotQueued, Queued
<1>4. TerminalUpdates'
  BY DEF QueueInv, TerminalUpdates
<1> QED
  BY <1>1, <1>2, <1>3, <1>4 DEF QueueInv

-----------------------------------------------------------------------------
(* Steps.                                                                 *)

\* The invariant holds in the initial state.
LEMMA InitInv ==
    ASSUME Init
    PROVE  QueueInv
<1>1. DispatchTypeOK
  BY DispatchAssumption DEF Init, DispatchTypeOK, Idle, NoDispatch, NoBeat, Dispatchers,
     DispatcherPcs, Statuses, Terminal
<1>2. HeadDispatched
  BY DEF Init, HeadDispatched, NoDispatch
<1>3. \A t \in Tasks : ~Queued(t)
  BY ResourceAssumption DEF Init, Queued, Range
<1>4. QueueSound /\ NotYetStarted /\ CancelledNotQueued /\ TerminalUpdates
  BY <1>3 DEF Init, QueueSound, NotYetStarted, CancelledNotQueued, TerminalUpdates
<1> QED
  BY <1>1, <1>2, <1>4 DEF QueueInv

\* A step of the dispatcher, which holds tasksMu, preserves the invariant: it
\* stays with the head of its queue until it is through with it.
LEMMA DispatchStepInv ==
    ASSUME QueueInv, DispatchStep
    PROVE  QueueInv'
<1>1. CASE ExpireExecution
  <2>1. DispatchTypeOK'
    BY <1>1, DispatchedTask DEF QueueInv, DispatchTypeOK, ExpireExecution, CompleteExecution,
       Idle, Dispatchers, DispatcherPcs, taskVars, leaseVars, callVars, runVars, agentVars
  <2> QED
    BY <1>1, <2>1, Frame DEF QueueInv, DispatchTypeOK, ExpireExecution, Dispatchers,
       taskVars, runVars
<1>2. CASE ExpireRelease
  <2>1. DispatchTypeOK'
    BY <1>2, DispatchedTask DEF QueueInv, DispatchTypeOK, ExpireRelease, Dispatchers,
       DispatcherPcs, taskVars, leaseVars, callVars, runVars, agentVars
  <2> QED
    BY <1>2, <2>1, Frame DEF QueueInv, DispatchTypeOK, ExpireRelease, Dispatchers, taskVars,
       runVars
<1>3. CASE ExpireUnregister
  <2>1. DispatchTypeOK'
    BY <1>3, DispatchedTask DEF QueueInv, DispatchTypeOK, ExpireUnregister, Statuses,
       Dispatchers, DispatcherPcs, taskVars, leaseVars, callVars, runVars, agentVars
  <2> QED
    BY <1>3, <2>1, Frame DEF QueueInv, DispatchTypeOK, ExpireUnregister, Dispatchers,
       taskVars, runVars
<1>4. CASE Resolve
  <2> DEFINE t == dispatcher.task
  <2>1. t \in Tasks /\ dispatcher.pc = "resolve"
    BY <1>4, DispatchedTask DEF Resolve
  <2>2. PICK B \in Bindings(t) :
            /\ bindings' = [bindings EXCEPT ![t] = B]
            /\ dispatcher' = [dispatcher EXCEPT !.todo = B,
                                  !.pc = IF B = {} THEN "start" ELSE "acquire"]
    BY <1>4 DEF Resolve
  <2>3. B \in SUBSET Resources
    BY <2>1, DispatchAssumption DEF Bindings
  <2>4. UNCHANGED <<tasks, status, paused, dbStatus, queue, leaseVars, robot, callVars,
                    runVars, updates, beat, agentVars>>
    BY <1>4 DEF Resolve
  <2>5. /\ dispatcher' \in Dispatchers
        /\ dispatcher'.agent = dispatcher.agent
        /\ dispatcher'.task = dispatcher.task
        /\ dispatcher'.pc # "idle"
    BY <2>2, <2>3 DEF QueueInv, DispatchTypeOK, Dispatchers, DispatcherPcs
  <2>6. DispatchTypeOK'
    BY <2>2, <2>3, <2>4, <2>5 DEF QueueInv, DispatchTypeOK, leaseVars, callVars, runVars,
       agentVars
  <2> QED
    BY <2>1, <2>4, <2>5, <2>6, Frame DEF runVars
<1>5. CASE NoFreeInstance
  <2>1. DispatchTypeOK'
    BY <1>5, DispatchedTask DEF QueueInv, DispatchTypeOK, NoFreeInstance, DispatchDone,
       NoDispatch, Dispatchers, DispatcherPcs, taskVars, leaseVars, callVars, runVars, agentVars
  <2> QED
    BY <1>5, <2>1, Frame DEF QueueInv, DispatchTypeOK, NoFreeInstance, DispatchDone,
       NoDispatch, Dispatchers, taskVars, runVars
<1>6. CASE CatalogError
  <2>1. DispatchTypeOK'
    BY <1>6, DispatchedTask DEF QueueInv, DispatchTypeOK, CatalogError, Dispatchers,
       DispatcherPcs, taskVars, leaseVars, callVars, runVars, agentVars
  <2> QED
    BY <1>6, <2>1, Frame DEF QueueInv, DispatchTypeOK, CatalogError, Dispatchers, taskVars,
       runVars
<1>7. CASE \E r \in Resources : Acquire(r)
  <2>1. PICK r \in Resources : Acquire(r)
    BY <1>7
  <2>2. /\ dispatcher.pc = "acquire"
        /\ UNCHANGED <<taskVars, dbStatus, queue, leaseVars, robot, callVars, runVars, updates,
                       beat, agentVars>>
    BY <2>1 DEF Acquire
  <2>3. PICK pc \in {"undoRelease", "start", "acquire"} :
            dispatcher' = [dispatcher EXCEPT !.todo = @ \ {r}, !.pc = pc]
    <3> DEFINE next == IF ~CanAcquire(dispatcher.task, r) THEN "undoRelease"
                       ELSE IF dispatcher.todo = {r} THEN "start" ELSE "acquire"
    <3>1. next \in {"undoRelease", "start", "acquire"}
      OBVIOUS
    <3>2. dispatcher' = [dispatcher EXCEPT !.todo = @ \ {r}, !.pc = next]
      BY <2>1 DEF Acquire
    <3> HIDE DEF next
    <3> QED
      BY <3>1, <3>2
  <2>4. /\ dispatcher' \in Dispatchers
        /\ dispatcher'.agent = dispatcher.agent
        /\ dispatcher'.task = dispatcher.task
        /\ dispatcher'.pc # "idle"
    BY <2>3 DEF QueueInv, DispatchTypeOK, Dispatchers, DispatcherPcs
  <2>5. DispatchTypeOK'
    BY <2>2, <2>4 DEF QueueInv, DispatchTypeOK, taskVars, leaseVars, callVars, runVars,
       agentVars
  <2> QED
    BY <2>2, <2>4, <2>5, Frame DEF taskVars, runVars
<1>8. CASE StartRefused
  <2>1. DispatchTypeOK'
    BY <1>8, DispatchedTask DEF QueueInv, DispatchTypeOK, StartRefused, Dispatchers,
       DispatcherPcs, taskVars, leaseVars, callVars, runVars, agentVars
  <2> QED
    BY <1>8, <2>1, Frame DEF QueueInv, DispatchTypeOK, StartRefused, Dispatchers, taskVars,
       runVars
<1>9. CASE SendStartTask
  <2>1. DispatchTypeOK'
    BY <1>9, DispatchedTask, DispatchAssumption DEF QueueInv, DispatchTypeOK, SendStartTask,
       TryStartExecution, StartMsg, DispatchDone, NoDispatch, Statuses, Dispatchers,
       DispatcherPcs, taskVars, leaseVars, callVars, runVars, agentVars
  <2> QED
    BY <1>9, <2>1, Frame DEF QueueInv, DispatchTypeOK, SendStartTask, TryStartExecution,
       DispatchDone, NoDispatch, Dispatchers, taskVars, runVars
<1>10. CASE SendFails
  <2>1. dispatcher.pc = "start" /\ dispatcher' = [dispatcher EXCEPT !.pc = "failRelease"]
    BY <1>10 DEF SendFails, TryStartExecution
  <2>2. dispatcher.agent \in Agents /\ dispatcher.task \in Tasks
    BY <2>1, DispatchedTask
  <2>3. /\ robot' \in [Agents -> [executing : BOOLEAN, task : Tasks \cup {NoTask}]]
        /\ leased' \in SUBSET Tasks
        /\ dbStatus' \in [Tasks -> Statuses]
    BY <1>10, <2>2 DEF SendFails, TryStartExecution, QueueInv, DispatchTypeOK, Statuses
  <2>4. attempts' \in [Tasks -> 0..MaxDispatchAttempts]
    BY <1>10, <2>2, DispatchAssumption DEF SendFails, TryStartExecution, QueueInv, DispatchTypeOK
  <2>5. dispatcher' \in Dispatchers
    BY <2>1 DEF QueueInv, DispatchTypeOK, Dispatchers, DispatcherPcs
  <2>6. UNCHANGED <<taskVars, queue, retrying, sent, callVars, runVars, updates, beat,
                    agentVars>>
    BY <1>10 DEF SendFails
  <2>7. DispatchTypeOK'
    BY <2>3, <2>4, <2>5, <2>6 DEF QueueInv, DispatchTypeOK, taskVars, callVars, runVars,
       agentVars
  <2>8. /\ dispatcher'.agent = dispatcher.agent
        /\ dispatcher'.task = dispatcher.task
        /\ dispatcher'.pc # "idle"
    BY <2>1 DEF QueueInv, DispatchTypeOK, Dispatchers
  <2> QED
    BY <2>1, <2>6, <2>7, <2>8, Frame DEF taskVars, runVars
<1>11. CASE UndoRelease
  <2>1. DispatchTypeOK'
    BY <1>11, DispatchedTask DEF QueueInv, DispatchTypeOK, UndoRelease, Dispatchers,
       DispatcherPcs, taskVars, leaseVars, callVars, runVars, agentVars
  <2> QED
    BY <1>11, <2>1, Frame DEF QueueInv, DispatchTypeOK, UndoRelease, Dispatchers, taskVars,
       runVars
<1>12. CASE UndoUnregister
  <2>1. DispatchTypeOK'
    BY <1>12, DispatchedTask DEF QueueInv, DispatchTypeOK, UndoUnregister, DispatchDone,
       NoDispatch, Dispatchers, DispatcherPcs, taskVars, leaseVars, callVars, runVars, agentVars
  <2> QED
    BY <1>12, <2>1, Frame DEF QueueInv, DispatchTypeOK, UndoUnregister, DispatchDone,
       NoDispatch, Dispatchers, taskVars, runVars
<1>13. CASE FailUnregister
  <2>1. DispatchTypeOK'
    BY <1>13, DispatchedTask DEF QueueInv, DispatchTypeOK, FailUnregister, Dispatchers,
       DispatcherPcs, taskVars, leaseVars, callVars, runVars, agentVars
  <2> QED
    BY <1>13, <2>1, Frame DEF QueueInv, DispatchTypeOK, FailUnregister, Dispatchers,
       taskVars, runVars
<1>14. CASE FailExecution
  <2>1. DispatchTypeOK'
    BY <1>14, DispatchedTask DEF QueueInv, DispatchTypeOK, FailExecution, CompleteExecution,
       Idle, Dispatchers, DispatcherPcs, taskVars, leaseVars, callVars, runVars, agentVars
  <2> QED
    BY <1>14, <2>1, Frame DEF QueueInv, DispatchTypeOK, FailExecution, Dispatchers, taskVars,
       runVars
<1>15. CASE DispatchError
  <2> DEFINE a == dispatcher.agent
             q == queue[a]
  <2>1. a \in Agents /\ dispatcher.task \in Tasks /\ q \in Seq(Tasks) /\ q # <<>>
    BY <1>15, DispatchedTask DEF DispatchError, QueueInv, HeadDispatched, DispatchTypeOK
  <2>2. CASE UNCHANGED <<status, queue, updates>> /\ dispatcher' = NoDispatch
    <3>1. DispatchTypeOK'
      BY <1>15, <2>1, <2>2 DEF DispatchError, QueueInv, DispatchTypeOK, NoDispatch, Dispatchers,
         DispatcherPcs, taskVars, leaseVars, callVars, runVars, agentVars
    <3> QED
      BY <1>15, <2>2, <3>1, Frame DEF DispatchError, NoDispatch, runVars
  <2>3. CASE /\ queue' = [queue EXCEPT ![a] = Tail(q)]
             /\ status' = [status EXCEPT ![dispatcher.task] = "failed"]
             /\ updates' = updates \cup {Notification(dispatcher.task, "failed")}
             /\ dispatcher' = [dispatcher EXCEPT !.pc = "loop"]
    <3>0. Tail(q) \in Seq(Tasks) /\ Len(q) \in Nat /\ Len(q) > 0
          /\ DOMAIN Tail(q) = 1..(Len(q) - 1) /\ DOMAIN q = 1..Len(q)
          /\ \A i \in DOMAIN Tail(q) : i + 1 \in DOMAIN q /\ Tail(q)[i] = q[i + 1]
      BY <2>1
    <3>8. /\ dispatcher' \in Dispatchers
          /\ queue' \in [Agents -> Seq(Tasks)]
          /\ retrying' \in SUBSET Tasks
          /\ status' \in [Tasks -> Statuses]
      BY <1>15, <2>1, <2>3, <3>0 DEF DispatchError, QueueInv, DispatchTypeOK, Dispatchers,
         DispatcherPcs, Statuses, Terminal
    <3>10. updates' \in SUBSET Updates /\ TerminalUpdates'
      BY <2>1, <2>3, AddUpdate DEF QueueInv, DispatchTypeOK, Notification, Updates, Terminal
    <3>9. UNCHANGED <<resourceVars, tasks, paused, bindings, dbStatus, leased, attempts, sent,
                      robot, callVars, runVars, beat, agentVars>>
      BY <1>15 DEF DispatchError
    <3>2. DispatchTypeOK'
      BY <3>8, <3>9, <3>10 DEF QueueInv, DispatchTypeOK, callVars, runVars, agentVars
    <3>3. UNCHANGED <<tasks, runner, canceller>>
      BY <1>15 DEF DispatchError, runVars
    <3> HIDE DEF q
    <3>4. /\ \A b \in Agents : b # a => queue'[b] = queue[b]
          /\ queue'[a] = Tail(q)
      BY <2>1, <2>3 DEF QueueInv, DispatchTypeOK
    <3>5. QueueSound'
      <4>1. \A i, j \in DOMAIN Tail(q) :
               AgentOf[Tail(q)[i]] = a /\ (Tail(q)[i] = Tail(q)[j] => i = j)
        <5> TAKE i, j \in DOMAIN Tail(q)
        <5>1. \A k, l \in DOMAIN q : AgentOf[q[k]] = a /\ (q[k] = q[l] => k = l)
          BY <2>1 DEF QueueInv, QueueSound, q
        <5>2. AgentOf[q[i + 1]] = a /\ (q[i + 1] = q[j + 1] => i + 1 = j + 1)
          BY <3>0, <5>1
        <5>3. i \in Int /\ j \in Int
          BY <3>0
        <5> QED
          BY <3>0, <5>2, <5>3
      <4>2. \A b \in Agents : \A i, j \in DOMAIN queue'[b] :
               AgentOf[queue'[b][i]] = b /\ (queue'[b][i] = queue'[b][j] => i = j)
        <5> TAKE b \in Agents
        <5>1. CASE b = a
          <6>1. queue'[b] = Tail(q)
            BY <3>4, <5>1
          <6> HIDE DEF a
          <6> QED
            BY <6>1, <4>1, <5>1
        <5>2. CASE b # a
          BY <3>4, <5>2 DEF QueueInv, QueueSound
        <5> QED
          BY <5>1, <5>2
      <4> QED
        BY <4>2 DEF QueueSound
    <3>6. \A t \in Tasks : Queued(t)' => Queued(t)
      <4> TAKE t \in Tasks
      <4>1. CASE AgentOf[t] = a
        <5>1. \A i \in DOMAIN Tail(q) : Tail(q)[i] \in Range(q)
          BY <3>0 DEF Range
        <5> QED
          BY <5>1, <4>1, <3>4 DEF Queued, Range, q
      <4>2. CASE AgentOf[t] # a
        BY <4>2, <3>4, ResourceAssumption DEF Queued
      <4> QED
        BY <4>1, <4>2
    <3>7. HeadDispatched'
      BY <2>1, <2>3 DEF HeadDispatched, QueueInv, DispatchTypeOK, Dispatchers
    <3> QED
      BY <3>2, <3>3, <3>5, <3>6, <3>7, <3>10 DEF QueueInv, NotYetStarted, CancelledNotQueued
  <2> QED
    BY <1>15, <2>2, <2>3 DEF DispatchError
<1> QED
  BY <1>1, <1>2, <1>3, <1>4, <1>5, <1>6, <1>7, <1>8, <1>9, <1>10, <1>11, <1>12, <1>13, <1>14,
     <1>15 DEF DispatchStep
\* A step outside the dispatcher that takes entries off the queues, or changes
\* cancellers, with tasksMu free.
LEMMA Shrink ==
    ASSUME QueueInv, DispatchTypeOK', TasksMuFree, dispatcher' = dispatcher, QueueSound',
           tasks' \subseteq tasks,
           updates' \in SUBSET updates \/ TerminalUpdates',
           \A u \in Tasks : Queued(u)' => Queued(u),
           \A u \in Tasks : runner'[u] = "none" => runner[u] = "none",
           \A u \in Tasks : \/ canceller'[u] = canceller[u]
                            \/ runner[u] # "none" /\ canceller'[u] = "dequeue"
                            \/ runner[u] # "none" /\ ~Queued(u)'
    PROVE  QueueInv'
<1>1. HeadDispatched'
  BY DEF HeadDispatched, TasksMuFree
<1>2. NotYetStarted'
  BY DEF QueueInv, NotYetStarted
<1>3. CancelledNotQueued'
  BY DEF QueueInv, CancelledNotQueued
<1>4. TerminalUpdates'
  BY DEF QueueInv, TerminalUpdates
<1> QED
  BY <1>1, <1>2, <1>3, <1>4 DEF QueueInv

\* removeQueuedTaskLocked meets the conditions of Shrink.
LEMMA DequeueKeeps ==
    ASSUME QueueInv, NEW t \in Tasks, queue' = Dequeue(t)
    PROVE  /\ queue' \in [Agents -> Seq(Tasks)]
           /\ QueueSound'
           /\ \A u \in Tasks : Queued(u)' => Queued(u)
           /\ ~Queued(t)'
<1>1. queue \in [Agents -> Seq(Tasks)] /\ QueueSound
  BY DEF QueueInv, DispatchTypeOK
<1>2. QueueSound'
  BY <1>1, DequeueFacts DEF QueueSound
<1>3. \A u \in Tasks : Queued(u)' <=> u \in Range(queue'[AgentOf[u]])
  BY DEF Queued
<1> QED
  BY <1>1, <1>2, <1>3, DequeueFacts

\* runTask preserves the invariant; it touches a queue only under tasksMu.
LEMMA RunnerInv ==
    ASSUME QueueInv, NEW t \in Tasks, Runner(t)
    PROVE  QueueInv'
<1>1. CASE RunnerRegister(t)
  <2>1. DispatchTypeOK'
    BY <1>1 DEF QueueInv, DispatchTypeOK, RunnerRegister, RunnerMoves, taskVars, leaseVars,
       callVars, runVars, agentVars
  <2> QED
    BY <1>1, <2>1, Frame DEF RunnerRegister, RunnerMoves, taskVars, runVars
<1>2. CASE RunnerResult(t)
  <2>1. DispatchTypeOK'
    BY <1>2 DEF QueueInv, DispatchTypeOK, RunnerResult, RunnerWakes, Statuses, RunnerMoves,
       taskVars, leaseVars, callVars, runVars, agentVars
  <2> QED
    BY <1>2, <2>1, Frame DEF RunnerResult, RunnerWakes, RunnerMoves, taskVars, runVars
<1>3. CASE RunnerCancelled(t)
  <2>1. DispatchTypeOK'
    BY <1>3 DEF QueueInv, DispatchTypeOK, RunnerCancelled, RunnerWakes, Statuses, Terminal,
       RunnerMoves, taskVars, leaseVars, callVars, runVars, agentVars
  <2> QED
    BY <1>3, <2>1, Frame DEF RunnerCancelled, RunnerWakes, RunnerMoves, taskVars, runVars
<1>4. CASE RunnerExecution(t)
  <2>1. DispatchTypeOK'
    BY <1>4 DEF QueueInv, DispatchTypeOK, RunnerExecution, CompleteExecution, Idle,
       RunnerMoves, taskVars, leaseVars, callVars, runVars, agentVars
  <2> QED
    BY <1>4, <2>1, Frame DEF RunnerExecution, RunnerMoves, taskVars, runVars
<1>5. CASE RunnerRelease(t)
  <2>1. DispatchTypeOK'
    BY <1>5 DEF QueueInv, DispatchTypeOK, RunnerRelease, RunnerMoves, taskVars, leaseVars,
       callVars, runVars, agentVars
  <2> QED
    BY <1>5, <2>1, Frame DEF RunnerRelease, RunnerMoves, taskVars, runVars
<1>6. CASE RunnerUnregister(t)
  <2>1. DispatchTypeOK'
    BY <1>6 DEF QueueInv, DispatchTypeOK, RunnerUnregister, RunnerMoves, taskVars, leaseVars,
       callVars, runVars, agentVars
  <2> QED
    BY <1>6, <2>1, Frame DEF RunnerUnregister, RunnerMoves, taskVars, runVars
<1>7. CASE RunnerRemove(t)
  <2>1. DispatchTypeOK'
    BY <1>7, DequeueKeeps, DispatchAssumption
       DEF QueueInv, DispatchTypeOK, RunnerRemove, QueuedAgents,
       RunnerMoves, taskVars, leaseVars, callVars, runVars, agentVars
  <2> QED
    BY <1>7, <2>1, DequeueKeeps, Shrink DEF RunnerRemove, RunnerMoves, runVars
<1> QED
  BY <1>1, <1>2, <1>3, <1>4, <1>5, <1>6, <1>7 DEF Runner

\* CancelTask, PauseTask and ResumeTask preserve the invariant.
LEMMA UserInv ==
    ASSUME QueueInv, NEW t \in Tasks,
           CancelTask(t) \/ CancelDequeue(t) \/ PauseTask(t) \/ ResumeTask(t)
    PROVE  QueueInv'
<1>1. CASE CancelTask(t)
  <2>1. DispatchTypeOK'
    BY <1>1 DEF QueueInv, DispatchTypeOK, CancelTask, taskVars, leaseVars, callVars, runVars,
       agentVars
  <2>2. runner[t] # "none" /\ QueueSound' /\ \A u \in Tasks : Queued(u)' = Queued(u)
    BY <1>1 DEF CancelTask, QueueInv, NotYetStarted, QueueSound, Queued
  <2> QED
    BY <1>1, <2>1, <2>2, Shrink DEF CancelTask, QueueInv, DispatchTypeOK, taskVars
<1>2. CASE CancelDequeue(t)
  <2>1. queue' = Dequeue(t)
    BY <1>2 DEF CancelDequeue
  <2>2. DispatchTypeOK'
    BY <1>2, <2>1, DequeueKeeps DEF QueueInv, DispatchTypeOK, CancelDequeue, CancelMsg,
       taskVars, leaseVars, callVars, runVars, agentVars
  <2>3. runner[t] # "none"
    BY <1>2 DEF CancelDequeue, QueueInv, NotYetStarted
  <2> QED
    BY <1>2, <2>1, <2>2, <2>3, DequeueKeeps, Shrink
    DEF CancelDequeue, QueueInv, DispatchTypeOK, taskVars
<1>3. CASE PauseTask(t)
  <2>1. DispatchTypeOK'
    BY <1>3 DEF QueueInv, DispatchTypeOK, PauseTask, Statuses, taskVars, leaseVars, callVars,
       runVars, agentVars
  <2> QED
    BY <1>3, <2>1, Frame DEF PauseTask, taskVars, runVars
<1>4. CASE ResumeTask(t)
  <2>1. DispatchTypeOK'
    BY <1>4 DEF QueueInv, DispatchTypeOK, ResumeTask, Statuses, taskVars, leaseVars,
       callVars, runVars, agentVars
  <2> QED
    BY <1>4, <2>1, Frame DEF ResumeTask, taskVars, runVars
<1> QED
  BY <1>1, <1>2, <1>3, <1>4

\* The handler of a task update preserves the invariant.
LEMMA UpdateInv ==
    ASSUME QueueInv, NEW u \in updates, HandleUpdate(u)
    PROVE  QueueInv'
<1>0. u \in Updates /\ u.task \in Tasks /\ AgentOf[u.task] \in Agents
  BY ResourceAssumption DEF QueueInv, DispatchTypeOK, Updates
<1>a. \A pc \in {"release", "unregister", "complete", "lookup", "send"}, f \in BOOLEAN :
         /\ u.state \in Terminal
         /\ updates' = (updates \ {u}) \cup {[u EXCEPT !.pc = pc, !.freed = f]}
         => updates' \in SUBSET Updates /\ TerminalUpdates'
  <2> TAKE pc \in {"release", "unregister", "complete", "lookup", "send"}, f \in BOOLEAN
  <2> DEFINE v == [u EXCEPT !.pc = pc, !.freed = f]
  <2> HAVE u.state \in Terminal /\ updates' = (updates \ {u}) \cup {v}
  <2>1. v \in Updates /\ v.state = u.state
    BY <1>0 DEF Updates
  <2> HIDE DEF v
  <2>2. updates' \in SUBSET (updates \cup {v})
    OBVIOUS
  <2> QED
    BY <2>1, <2>2, AddUpdate DEF QueueInv, DispatchTypeOK
<1>b. \A pc \in {"release", "unregister", "complete", "lookup", "send"} :
         u.state \in Terminal /\ UpdateMoves(u, pc)
         => updates' \in SUBSET Updates /\ TerminalUpdates'
  <2> TAKE pc \in {"release", "unregister", "complete", "lookup", "send"}
  <2>1. u.freed \in BOOLEAN /\ [u EXCEPT !.pc = pc] = [u EXCEPT !.pc = pc, !.freed = u.freed]
    BY <1>0 DEF Updates
  <2> QED
    BY <2>1, <1>a DEF UpdateMoves
<1>c. updates' = updates \ {u} => updates' \in SUBSET Updates /\ TerminalUpdates'
  BY DropUpdates DEF QueueInv, DispatchTypeOK
<1>d. u.pc \notin {"net", "ack"} => u.state \in Terminal
  BY DEF QueueInv, TerminalUpdates
<1>1. CASE UpdateStore(u)
  <2> DEFINE v == [u EXCEPT !.pc = "ack"]
  <2>1. v \in Updates /\ v.pc = "ack"
    BY <1>0 DEF Updates
  <2>2. updates' \in SUBSET (updates \cup {v})
    BY <1>1 DEF UpdateStore, UpdateMoves
  <2> HIDE DEF v
  <2>3. updates' \in SUBSET Updates /\ TerminalUpdates'
    BY <2>1, <2>2, AddUpdate DEF QueueInv, DispatchTypeOK
  <2>4. /\ dbStatus' \in [Tasks -> Statuses]
        /\ robot' \in [Agents -> [executing : BOOLEAN, task : Tasks \cup {NoTask}]]
    BY <1>0, <1>1 DEF UpdateStore, QueueInv, DispatchTypeOK, Updates, Statuses
  <2>5. UNCHANGED <<taskVars, queue, leaseVars, dispatcher, callVars, runVars, beat, agentVars>>
    BY <1>1 DEF UpdateStore
  <2>6. DispatchTypeOK'
    BY <2>3, <2>4, <2>5 DEF QueueInv, DispatchTypeOK, taskVars, leaseVars, callVars, runVars,
       agentVars
  <2> QED
    BY <2>3, <2>5, <2>6, Frame DEF taskVars, runVars
<1>2. CASE UpdateAck(u)
  <2>1. queue' = Dequeue(u.task) /\ leased' \in SUBSET leased /\ TasksMuFree
    BY <1>2 DEF UpdateAck, Acknowledge
  <2>2. updates' \in SUBSET Updates /\ TerminalUpdates'
    BY <1>2, <1>b, <1>c DEF UpdateAck
  <2>3. /\ queue' \in [Agents -> Seq(Tasks)]
        /\ QueueSound'
        /\ \A t \in Tasks : Queued(t)' => Queued(t)
    BY <1>0, <2>1, DequeueKeeps
  <2>4. UNCHANGED <<taskVars, dbStatus, retrying, attempts, sent, robot, dispatcher, callVars,
                    runVars, beat, agentVars>>
    BY <1>2 DEF UpdateAck
  <2>5. DispatchTypeOK'
    BY <2>1, <2>2, <2>3, <2>4 DEF QueueInv, DispatchTypeOK, taskVars, callVars, runVars,
       agentVars
  <2> QED
    BY <2>1, <2>2, <2>3, <2>4, <2>5, Shrink DEF taskVars, runVars
<1>3. CASE UpdateRelease(u)
  <2> DEFINE f == Releasable(u.task, AgentOf[u.task]) # {}
  <2>1. updates' = (updates \ {u}) \cup {[u EXCEPT !.pc = "unregister", !.freed = f]}
    BY <1>3 DEF UpdateRelease
  <2>2. f \in BOOLEAN /\ u.state \in Terminal
    BY <1>3, <1>d DEF UpdateRelease
  <2> HIDE DEF f
  <2>3. updates' \in SUBSET Updates /\ TerminalUpdates'
    BY <2>1, <2>2, <1>a
  <2>4. UNCHANGED <<taskVars, dbStatus, queue, leaseVars, robot, dispatcher, callVars,
                    runVars, beat, agentVars>>
    BY <1>3 DEF UpdateRelease
  <2>5. DispatchTypeOK'
    BY <2>3, <2>4 DEF QueueInv, DispatchTypeOK, taskVars, leaseVars, callVars, runVars,
       agentVars
  <2> QED
    BY <2>3, <2>4, <2>5, Frame DEF taskVars, runVars
<1>4. CASE UpdateUnregister(u)
  <2>1. updates' \in SUBSET Updates /\ TerminalUpdates'
    BY <1>4, <1>b, <1>d DEF UpdateUnregister
  <2>2. UNCHANGED <<taskVars, dbStatus, queue, leaseVars, robot, dispatcher, callVars,
                    runVars, beat, agentVars>>
    BY <1>4 DEF UpdateUnregister
  <2>3. DispatchTypeOK'
    BY <2>1, <2>2 DEF QueueInv, DispatchTypeOK, taskVars, leaseVars, callVars, runVars,
       agentVars
  <2> QED
    BY <2>1, <2>2, <2>3, Frame DEF taskVars, runVars
<1>5. CASE UpdateComplete(u)
  <2>1. updates' \in SUBSET Updates /\ TerminalUpdates'
    BY <1>5, <1>b, <1>d DEF UpdateComplete
  <2>2. robot' \in [Agents -> [executing : BOOLEAN, task : Tasks \cup {NoTask}]]
    BY <1>0, <1>5 DEF UpdateComplete, CompleteExecution, Idle, QueueInv, DispatchTypeOK
  <2>3. UNCHANGED <<taskVars, dbStatus, queue, leaseVars, dispatcher, callVars, runVars, beat,
                    agentVars>>
    BY <1>5 DEF UpdateComplete
  <2>4. DispatchTypeOK'
    BY <2>1, <2>2, <2>3 DEF QueueInv, DispatchTypeOK, taskVars, leaseVars, callVars, runVars,
       agentVars
  <2> QED
    BY <2>1, <2>3, <2>4, Frame DEF taskVars, runVars
<1>6. CASE NotifyLookup(u)
  <2>1. updates' \in SUBSET Updates /\ TerminalUpdates'
    BY <1>6, <1>b, <1>c, <1>d DEF NotifyLookup, UpdateEnds
  <2>2. visit' \in SUBSET Agents
    BY <1>6 DEF NotifyLookup, UpdateEnds, QueuedAgents, QueueInv, DispatchTypeOK
  <2>3. UNCHANGED <<taskVars, dbStatus, queue, leaseVars, robot, dispatcher, ready, runVars,
                    beat, agentVars>>
    BY <1>6 DEF NotifyLookup
  <2>4. DispatchTypeOK'
    BY <2>1, <2>2, <2>3 DEF QueueInv, DispatchTypeOK, taskVars, leaseVars, runVars, agentVars
  <2> QED
    BY <2>1, <2>3, <2>4, Frame DEF taskVars, runVars
<1>7. CASE NotifySend(u)
  <2>1. updates' \in SUBSET Updates /\ TerminalUpdates'
    BY <1>7, <1>c DEF NotifySend, UpdateEnds
  <2>2. visit' \in SUBSET Agents
    BY <1>7 DEF NotifySend, UpdateEnds, QueuedAgents, QueueInv, DispatchTypeOK
  <2>3. chan' \in [Tasks -> {"none", "empty", "closed"} \cup Terminal]
    BY <1>0, <1>7, <1>d DEF NotifySend, QueueInv, DispatchTypeOK
  <2>4. UNCHANGED <<taskVars, dbStatus, queue, leaseVars, robot, dispatcher, ready, runner,
                    ctxDone, canceller, beat, agentVars>>
    BY <1>7 DEF NotifySend
  <2>5. DispatchTypeOK'
    BY <2>1, <2>2, <2>3, <2>4 DEF QueueInv, DispatchTypeOK, taskVars, leaseVars, agentVars
  <2> QED
    BY <2>1, <2>4, <2>5, Frame DEF taskVars
<1> QED
  BY <1>1, <1>2, <1>3, <1>4, <1>5, <1>6, <1>7 DEF HandleUpdate

\* StartTask appends a task that is in no queue yet.
LEMMA StartTaskInv ==
    ASSUME QueueInv, NEW t \in Tasks, StartTask(t)
    PROVE  QueueInv'
<1> DEFINE b == AgentOf[t]
           q == queue[b]
<1>1. b \in Agents /\ q \in Seq(Tasks) /\ queue \in [Agents -> Seq(Tasks)]
  BY ResourceAssumption DEF QueueInv, DispatchTypeOK
<1>2. ~Queued(t) /\ canceller[t] = "none" /\ runner[t] = "none"
  BY DEF StartTask, QueueInv, NotYetStarted
<1>3. /\ queue' = [queue EXCEPT ![b] = Append(q, t)]
      /\ dispatcher' = dispatcher /\ dispatcher.pc = "idle"
      /\ canceller' = canceller /\ updates' = updates
      /\ tasks' = tasks \cup {t}
      /\ runner' = [runner EXCEPT ![t] = "spawned"]
  BY DEF StartTask, TasksMuFree
<1> DEFINE p == Append(q, t)
<1>4. /\ p \in Seq(Tasks) /\ Len(q) \in Nat /\ DOMAIN q = 1..Len(q)
      /\ DOMAIN p = 1..(Len(q) + 1)
      /\ \A i \in DOMAIN p : (i \in DOMAIN q /\ p[i] = q[i]) \/ (i = Len(q) + 1 /\ p[i] = t)
  BY <1>1
<1>5. \A i \in DOMAIN q : q[i] # t
  BY <1>2 DEF Queued, Range
<1> HIDE DEF p
<1>6. queue'[b] = p /\ \A a \in Agents : a # b => queue'[a] = queue[a]
  BY <1>1, <1>3 DEF p
<1>7. queue' \in [Agents -> Seq(Tasks)]
  BY <1>1, <1>3, <1>4 DEF p
<1>8. DispatchTypeOK'
  <2>1. visit' \in SUBSET Agents
    BY DEF StartTask, QueuedAgents, QueueInv, DispatchTypeOK
  <2>2. /\ tasks' \in SUBSET Tasks /\ status' \in [Tasks -> Statuses]
        /\ dbStatus' \in [Tasks -> Statuses]
    BY DEF StartTask, QueueInv, DispatchTypeOK, Statuses
  <2>3. UNCHANGED <<paused, bindings, leaseVars, robot, dispatcher, ready, chan, ctxDone,
                    canceller, updates, beat, agentVars>>
    BY DEF StartTask
  <2>4. runner' \in [Tasks -> {"none", "spawned", "waiting", "execution", "release",
                               "unregister", "remove", "done"}]
    BY <1>3 DEF QueueInv, DispatchTypeOK
  <2> QED
    BY <1>7, <2>1, <2>2, <2>3, <2>4 DEF QueueInv, DispatchTypeOK, leaseVars, agentVars
<1>9. QueueSound'
  <2>1. \A i, j \in DOMAIN p : AgentOf[p[i]] = b /\ (p[i] = p[j] => i = j)
    <3>1. \A i, j \in DOMAIN q : AgentOf[q[i]] = b /\ (q[i] = q[j] => i = j)
      BY <1>1 DEF QueueInv, QueueSound
    <3> HIDE DEF q
    <3> QED
      BY <1>4, <1>5, <3>1
  <2>2. \A a \in Agents : \A i, j \in DOMAIN queue'[a] :
           AgentOf[queue'[a][i]] = a /\ (queue'[a][i] = queue'[a][j] => i = j)
    <3> TAKE a \in Agents
    <3> HIDE DEF b
    <3>1. CASE a = b
      BY <1>6, <2>1, <3>1
    <3>2. CASE a # b
      BY <1>6, <3>2 DEF QueueInv, QueueSound
    <3> QED
      BY <3>1, <3>2
  <2> QED
    BY <2>2 DEF QueueSound
<1>10. \A u \in Tasks : Queued(u)' => Queued(u) \/ u = t
  <2> TAKE u \in Tasks
  <2>1. CASE AgentOf[u] = b
    BY <1>4, <1>6, <2>1 DEF Queued, Range
  <2>2. CASE AgentOf[u] # b
    BY <1>6, <2>2, ResourceAssumption DEF Queued
  <2> QED
    BY <2>1, <2>2
<1>11. HeadDispatched'
  BY <1>3 DEF HeadDispatched
<1>12. NotYetStarted' /\ CancelledNotQueued'
  BY <1>2, <1>3, <1>10 DEF QueueInv, DispatchTypeOK, NotYetStarted, CancelledNotQueued
<1>13. TerminalUpdates'
  BY <1>3 DEF QueueInv, TerminalUpdates
<1> QED
  BY <1>8, <1>9, <1>11, <1>12, <1>13 DEF QueueInv

\* dispatchNextQueuedTask drops dead tasks from the front and settles on the
\* next one.
LEMMA DispatchHeadInv ==
    ASSUME QueueInv, NEW a \in Agents, DispatchHead(a)
    PROVE  QueueInv'
<1> DEFINE q == queue[a]
<1>1. q \in Seq(Tasks) /\ queue \in [Agents -> Seq(Tasks)] /\ Len(q) \in Nat
      /\ DOMAIN q = 1..Len(q)
  BY DEF QueueInv, DispatchTypeOK
<1>2. PICK d \in 0..Len(q) :
         LET r == SubSeq(q, d + 1, Len(q))
             Go(pc) == [pc |-> pc, agent |-> a, task |-> Head(r), todo |-> {}]
         IN  /\ queue' = [queue EXCEPT ![a] = r]
             /\ dispatcher' \in
                  IF r = <<>> THEN {NoDispatch}
                  ELSE (IF Head(r) \in leased \cup retrying THEN {NoDispatch} ELSE {})
                       \cup (IF Head(r) \notin leased THEN {Go("resolve")}
                             ELSE IF MayExpire(Head(r)) THEN {Go("expireExecution")} ELSE {})
  BY DEF DispatchHead
<1> DEFINE r == SubSeq(q, d + 1, Len(q))
<1>3. /\ r \in Seq(Tasks) /\ DOMAIN r = 1..(Len(q) - d) /\ d \in Nat
      /\ \A i \in DOMAIN r : i + d \in DOMAIN q /\ r[i] = q[i + d]
  BY <1>1, SuffixFacts
<1>4. \/ dispatcher' = NoDispatch
      \/ /\ r # <<>>
         /\ \E pc \in {"resolve", "expireExecution"} :
              dispatcher' = [pc |-> pc, agent |-> a, task |-> Head(r), todo |-> {}]
  BY <1>2
<1>5. queue' = [queue EXCEPT ![a] = r]
  BY <1>2
<1>6. /\ UNCHANGED <<taskVars, dbStatus, leaseVars, robot, visit, runVars, updates, beat,
                     agentVars>>
      /\ ready' \in SUBSET ready
  BY DEF DispatchHead
<1> HIDE DEF r
<1>7. queue'[a] = r /\ \A b \in Agents : b # a => queue'[b] = queue[b]
  BY <1>1, <1>5
<1>8. queue' \in [Agents -> Seq(Tasks)]
  BY <1>1, <1>3, <1>5
<1>9. r # <<>> => Head(r) \in Tasks
  BY <1>3
<1>10. dispatcher' \in Dispatchers
  BY <1>4, <1>9 DEF NoDispatch, Dispatchers, DispatcherPcs
<1>11. DispatchTypeOK'
  BY <1>6, <1>8, <1>10 DEF QueueInv, DispatchTypeOK, taskVars, leaseVars, runVars, agentVars
<1>12. QueueSound'
  <2>1. \A i, j \in DOMAIN q : AgentOf[q[i]] = a /\ (q[i] = q[j] => i = j)
    BY DEF QueueInv, QueueSound
  <2>2. \A i, j \in DOMAIN r : AgentOf[r[i]] = a /\ (r[i] = r[j] => i = j)
    <3> TAKE i, j \in DOMAIN r
    <3>1. i \in Int /\ j \in Int /\ d \in Int
      BY <1>1, <1>3
    <3>2. AgentOf[q[i + d]] = a /\ (q[i + d] = q[j + d] => i + d = j + d)
      BY <1>3, <2>1
    <3> HIDE DEF q
    <3> QED
      BY <1>3, <3>1, <3>2
  <2>3. \A b \in Agents : \A i, j \in DOMAIN queue'[b] :
           AgentOf[queue'[b][i]] = b /\ (queue'[b][i] = queue'[b][j] => i = j)
    <3> TAKE b \in Agents
    <3>1. CASE a = b
      BY <1>7, <2>2, <3>1
    <3>2. CASE a # b
      BY <1>7, <3>2 DEF QueueInv, QueueSound
    <3> QED
      BY <3>1, <3>2
  <2> QED
    BY <2>3 DEF QueueSound
<1>13. \A t \in Tasks : Queued(t)' => Queued(t)
  <2> TAKE t \in Tasks
  <2>1. CASE AgentOf[t] = a
    <3>1. \A i \in DOMAIN r : r[i] \in Range(q)
      BY <1>3 DEF Range
    <3> QED
      BY <1>7, <2>1, <3>1 DEF Queued, Range
  <2>2. CASE AgentOf[t] # a
    BY <1>7, <2>2, ResourceAssumption DEF Queued
  <2> QED
    BY <2>1, <2>2
<1>14. HeadDispatched'
  BY <1>4, <1>7 DEF HeadDispatched, NoDispatch
<1>15. NotYetStarted' /\ CancelledNotQueued' /\ TerminalUpdates'
  BY <1>6, <1>13 DEF QueueInv, NotYetStarted, CancelledNotQueued, TerminalUpdates, taskVars,
     runVars
<1> QED
  BY <1>11, <1>12, <1>14, <1>15 DEF QueueInv

\* The handler of a heartbeat preserves the invariant.
LEMMA BeatInv ==
    ASSUME QueueInv, NEW a \in Agents, BeatStore(a) \/ BeatObserve(a)
    PROVE  QueueInv'
<1>1. beat[a].task \in Tasks \cup {NoTask}
  BY DEF QueueInv, DispatchTypeOK
<1>2. CASE BeatStore(a)
  <2>1. DispatchTypeOK'
    BY <1>1, <1>2 DEF BeatStore, QueueInv, DispatchTypeOK, taskVars, leaseVars, callVars,
       runVars, agentVars
  <2> QED
    BY <1>2, <2>1, Frame DEF BeatStore, taskVars, runVars
<1>3. CASE BeatObserve(a)
  <2>1. /\ beat' \in [Agents -> [pc : {"none", "net", "observe", "last"},
                                 task : Tasks \cup {NoTask}]]
        /\ ready' \in SUBSET Agents
    BY <1>3 DEF BeatObserve, NoBeat, LastBeat, QueueInv, DispatchTypeOK
  <2>2. UNCHANGED <<taskVars, dbStatus, retrying, attempts, sent, robot, dispatcher, visit,
                    runVars, updates, agentVars>>
    BY <1>3 DEF BeatObserve
  <2>3. CASE /\ beat[a].task # NoTask
             /\ TasksMuFree
             /\ Acknowledge(beat[a].task)
    <3>1. beat[a].task \in Tasks /\ queue' = Dequeue(beat[a].task) /\ leased' \in SUBSET leased
      BY <1>1, <2>3 DEF Acknowledge
    <3>2. /\ queue' \in [Agents -> Seq(Tasks)] /\ QueueSound'
          /\ \A t \in Tasks : Queued(t)' => Queued(t)
      BY <3>1, DequeueKeeps
    <3>3. DispatchTypeOK'
      BY <2>1, <2>2, <3>1, <3>2 DEF QueueInv, DispatchTypeOK, taskVars, runVars, agentVars
    <3> QED
      BY <2>2, <2>3, <3>2, <3>3, Shrink DEF taskVars, runVars
  <2>4. CASE UNCHANGED <<queue, leased>>
    <3>1. DispatchTypeOK'
      BY <2>1, <2>2, <2>4 DEF QueueInv, DispatchTypeOK, taskVars, runVars, agentVars
    <3> QED
      BY <2>2, <2>4, <3>1, Frame DEF taskVars, runVars
  <2> QED
    BY <1>3, <2>3, <2>4 DEF BeatObserve
<1> QED
  BY <1>2, <1>3

\* What the agents and the network do preserves the invariant.
LEMMA AgentInv ==
    ASSUME QueueInv, Agent
    PROVE  QueueInv'
<1>0. /\ updates \in SUBSET Updates /\ TerminalUpdates
      /\ \A t \in Tasks : AgentOf[t] \in Agents
  BY ResourceAssumption DEF QueueInv, DispatchTypeOK
<1>a. \A t \in Tasks, st \in Terminal \cup {"running"} :
         updates' = updates \cup {Report(t, st)} =>
             updates' \in SUBSET Updates /\ TerminalUpdates'
  <2> TAKE t \in Tasks, st \in Terminal \cup {"running"}
  <2> HAVE updates' = updates \cup {Report(t, st)}
  <2>1. Report(t, st) \in Updates /\ Report(t, st).pc = "net"
    BY DEF Report, Updates
  <2> QED
    BY <1>0, <2>1, AddUpdate
<1>1. ASSUME NEW t \in Tasks, AgentStart(t)
      PROVE  QueueInv'
  <2>1. updates' \in SUBSET Updates /\ TerminalUpdates'
    BY <1>1, <1>a DEF AgentStart
  <2>2. /\ running' \in [Agents -> SUBSET Tasks]
        /\ inbox' \in SUBSET [kind : {"start", "cancel"}, task : Tasks]
    BY <1>0, <1>1 DEF AgentStart, QueueInv, DispatchTypeOK
  <2>3. UNCHANGED <<taskVars, dbStatus, queue, leaseVars, robot, dispatcher, callVars, runVars,
                    beat, connected, drops>>
    BY <1>1 DEF AgentStart
  <2>4. DispatchTypeOK'
    BY <2>1, <2>2, <2>3 DEF QueueInv, DispatchTypeOK, taskVars, leaseVars, callVars, runVars
  <2> QED
    BY <2>1, <2>3, <2>4, Frame DEF taskVars, runVars
<1>2. ASSUME NEW t \in Tasks, AgentDrops(t)
      PROVE  QueueInv'
  <2>1. DispatchTypeOK'
    BY <1>2 DEF AgentDrops, QueueInv, DispatchTypeOK, taskVars, leaseVars, callVars, runVars
  <2> QED
    BY <1>2, <2>1, Frame DEF AgentDrops, taskVars, runVars
<1>3. ASSUME NEW t \in Tasks, AgentFinish(t)
      PROVE  QueueInv'
  <2>1. PICK st \in Outcomes : AgentEnds(t, st)
    BY <1>3 DEF AgentFinish
  <2>2. st \in Terminal
    BY DispatchAssumption DEF Terminal
  <2>3. updates' \in SUBSET Updates /\ TerminalUpdates'
    BY <2>1, <2>2, <1>a DEF AgentEnds
  <2>4. running' \in [Agents -> SUBSET Tasks]
    BY <1>0, <2>1 DEF AgentEnds, QueueInv, DispatchTypeOK
  <2>5. UNCHANGED <<taskVars, dbStatus, queue, leaseVars, robot, dispatcher, callVars, runVars,
                    beat, connected, drops, inbox>>
    BY <1>3 DEF AgentFinish
  <2>6. DispatchTypeOK'
    BY <2>3, <2>4, <2>5 DEF QueueInv, DispatchTypeOK, taskVars, leaseVars, callVars, runVars
  <2> QED
    BY <2>3, <2>5, <2>6, Frame DEF taskVars, runVars
<1>4. ASSUME NEW t \in Tasks, AgentCancel(t)
      PROVE  QueueInv'
  <2>1. updates' \in SUBSET Updates /\ TerminalUpdates'
    <3>1. CASE AgentEnds(t, "cancelled")
      BY <3>1, <1>a DEF AgentEnds, Terminal
    <3>2. CASE updates' = updates
      BY <3>2, <1>0, DropUpdates
    <3> QED
      BY <1>4, <3>1, <3>2 DEF AgentCancel
  <2>2. running' \in [Agents -> SUBSET Tasks]
    <3>1. CASE AgentEnds(t, "cancelled")
      BY <3>1, <1>0 DEF AgentEnds, QueueInv, DispatchTypeOK
    <3>2. CASE running' = running
      BY <3>2 DEF QueueInv, DispatchTypeOK
    <3> QED
      BY <1>4, <3>1, <3>2 DEF AgentCancel
  <2>5. inbox' \in SUBSET [kind : {"start", "cancel"}, task : Tasks]
    BY <1>4 DEF AgentCancel, QueueInv, DispatchTypeOK
  <2>3. UNCHANGED <<taskVars, dbStatus, queue, leaseVars, robot, dispatcher, callVars, runVars,
                    beat, connected, drops>>
    BY <1>4 DEF AgentCancel
  <2>4. DispatchTypeOK'
    BY <2>1, <2>2, <2>3, <2>5 DEF QueueInv, DispatchTypeOK, taskVars, leaseVars, callVars, runVars
  <2> QED
    BY <2>1, <2>3, <2>4, Frame DEF taskVars, runVars
<1>5. ASSUME NEW a \in Agents, AgentHeartbeat(a)
      PROVE  QueueInv'
  <2>1. PICK t \in Tasks \cup {NoTask} :
           beat' = [beat EXCEPT ![a] = [pc |-> "net", task |-> t]]
    BY <1>5 DEF AgentHeartbeat, QueueInv, DispatchTypeOK
  <2>2. UNCHANGED <<taskVars, dbStatus, queue, leaseVars, robot, dispatcher, callVars, runVars,
                    updates, agentVars>>
    BY <1>5 DEF AgentHeartbeat
  <2>3. DispatchTypeOK'
    BY <2>1, <2>2 DEF QueueInv, DispatchTypeOK, taskVars, leaseVars, callVars, runVars,
       agentVars
  <2> QED
    BY <2>2, <2>3, Frame DEF taskVars, runVars
<1>6. ASSUME NEW a \in Agents, Disconnect(a)
      PROVE  QueueInv'
  <2>1. updates' \in SUBSET updates
    BY <1>6 DEF Disconnect
  <2>2. updates' \in SUBSET Updates /\ TerminalUpdates'
    BY <1>0, <2>1, DropUpdates
  <2>3. /\ connected' \in SUBSET Agents
        /\ inbox' \in SUBSET [kind : {"start", "cancel"}, task : Tasks]
        /\ beat' \in [Agents -> [pc : {"none", "net", "observe", "last"},
                                 task : Tasks \cup {NoTask}]]
    BY <1>6 DEF Disconnect, NoBeat, QueueInv, DispatchTypeOK
  <2>4. drops' \in 0..MaxDrops
    BY <1>6, DispatchAssumption DEF Disconnect, QueueInv, DispatchTypeOK
  <2>5. UNCHANGED <<taskVars, dbStatus, queue, leaseVars, robot, dispatcher, callVars, runVars,
                    running>>
    BY <1>6 DEF Disconnect
  <2>6. DispatchTypeOK'
    BY <2>2, <2>3, <2>4, <2>5 DEF QueueInv, DispatchTypeOK, taskVars, leaseVars, callVars,
       runVars
  <2> QED
    BY <2>2, <2>5, <2>6, Frame DEF taskVars, runVars
<1>7. ASSUME NEW a \in Agents, Reconnect(a)
      PROVE  QueueInv'
  <2>1. DispatchTypeOK'
    BY <1>7 DEF Reconnect, Idle, QueueInv, DispatchTypeOK, taskVars, leaseVars, callVars,
       runVars
  <2> QED
    BY <1>7, <2>1, Frame DEF Reconnect, taskVars, runVars
<1> QED
  BY <1>1, <1>2, <1>3, <1>4, <1>5, <1>6, <1>7 DEF Agent

\* The induction step: whichever goroutine, user or agent moves.
LEMMA QueueInvStep ==
    ASSUME QueueInv, [Next]_vars
    PROVE  QueueInv'
<1>1. CASE User
  BY <1>1, StartTaskInv, UserInv DEF User
<1>2. ASSUME NEW t \in Tasks, CancelDequeue(t)
      PROVE  QueueInv'
  BY <1>2, UserInv
<1>3. ASSUME NEW a \in Agents, VisitAgent(a)
      PROVE  QueueInv'
  <2>1. DispatchTypeOK'
    BY <1>3 DEF VisitAgent, QueueInv, DispatchTypeOK, taskVars, leaseVars, runVars, agentVars
  <2> QED
    BY <1>3, <2>1, Frame DEF VisitAgent, taskVars, runVars
<1>4. ASSUME NEW a \in Agents, DispatchHead(a)
      PROVE  QueueInv'
  BY <1>4, DispatchHeadInv
<1>5. CASE DispatchStep
  BY <1>5, DispatchStepInv
<1>6. ASSUME NEW t \in Tasks, Runner(t)
      PROVE  QueueInv'
  BY <1>6, RunnerInv
<1>7. ASSUME NEW u \in updates, HandleUpdate(u)
      PROVE  QueueInv'
  BY <1>7, UpdateInv
<1>8. ASSUME NEW a \in Agents, BeatStore(a) \/ BeatObserve(a)
      PROVE  QueueInv'
  BY <1>8, BeatInv
<1>9. ASSUME NEW t \in Tasks, NEW r \in Resources, ResourceEvent(t, r)
      PROVE  QueueInv'
  <2>1. DispatchTypeOK'
    BY <1>9 DEF ResourceEvent, QueuedAgents, QueueInv, DispatchTypeOK, taskVars, leaseVars,
       runVars, agentVars
  <2> QED
    BY <1>9, <2>1, Frame DEF ResourceEvent, taskVars, runVars
<1>10. CASE Agent
  BY <1>10, AgentInv
<1>11. CASE UNCHANGED vars
  <2>1. DispatchTypeOK'
    BY <1>11 DEF vars, QueueInv, DispatchTypeOK, taskVars, leaseVars, callVars, runVars,
       agentVars
  <2> QED
    BY <1>11, <2>1, Frame DEF vars, taskVars, runVars
<1> QED
  BY <1>1, <1>2, <1>3, <1>4, <1>5, <1>6, <1>7, <1>8, <1>9, <1>10, <1>11 DEF Next

-----------------------------------------------------------------------------
(* Theorems.                                                               *)

\* Whatever runTask, the message handlers and the users do beside it, the
\* dispatcher's task stays at the head of its agent's queue, a queue holds
\* each task of its agent at most once, and a task whose CancelTask returned
\* never gets back into one.
THEOREM QueueInvariance == Spec => []QueueInv
<1>1. Init => QueueInv
  BY InitInv
<1>2. QueueInv /\ [Next]_vars => QueueInv'
  BY QueueInvStep
<1> QED
  BY <1>1, <1>2, PTL DEF Spec

\* Type correctness of the scheduler.
THEOREM DispatchTypeCorrect == Spec => []DispatchTypeOK
<1>1. QueueInv => DispatchTypeOK
  BY DEF QueueInv
<1> QED
  BY <1>1, QueueInvariance, PTL

\* A start_task is put on its way by one step alone.
LEMMA OnlySendAddsStart ==
    ASSUME [Next]_vars, NEW t \in Tasks, Sends(t)
    PROVE  SendStartTask /\ dispatcher.task = t
<1>0. StartMsg(t) \in inbox' /\ StartMsg(t) \notin inbox
  BY DEF Sends
<1>1. ~(inbox' \subseteq inbox)
  BY <1>0
<1>2. CASE DispatchStep
  <2>1. SendStartTask
    BY <1>1, <1>2 DEF DispatchStep, ExpireExecution, ExpireRelease, ExpireUnregister,
       Resolve, NoFreeInstance, CatalogError, Acquire, StartRefused, SendFails,
       UndoRelease, UndoUnregister, FailUnregister, FailExecution, DispatchError, agentVars
  <2>2. StartMsg(t) = StartMsg(dispatcher.task)
    BY <1>0, <2>1 DEF SendStartTask
  <2> QED
    BY <2>1, <2>2 DEF StartMsg
<1>3. ASSUME NEW u \in Tasks, CancelDequeue(u)
      PROVE  FALSE
  <2>1. StartMsg(t) = CancelMsg(u)
    BY <1>0, <1>3 DEF CancelDequeue
  <2> QED
    BY <2>1 DEF StartMsg, CancelMsg
<1>4. CASE User
  BY <1>1, <1>4 DEF User, StartTask, CancelTask, PauseTask, ResumeTask, agentVars
<1>5. ASSUME NEW a \in Agents,
             VisitAgent(a) \/ DispatchHead(a) \/ BeatStore(a) \/ BeatObserve(a)
      PROVE  FALSE
  BY <1>1, <1>5 DEF VisitAgent, DispatchHead, BeatStore, BeatObserve, agentVars
<1>6. ASSUME NEW u \in Tasks, Runner(u)
      PROVE  FALSE
  BY <1>1, <1>6 DEF Runner, RunnerRegister, RunnerResult, RunnerCancelled, RunnerWakes,
     RunnerExecution, RunnerRelease, RunnerUnregister, RunnerRemove, agentVars
<1>7. ASSUME NEW u \in updates, HandleUpdate(u)
      PROVE  FALSE
  BY <1>1, <1>7 DEF HandleUpdate, UpdateStore, UpdateAck, UpdateRelease,
     UpdateUnregister, UpdateComplete, NotifyLookup, NotifySend, agentVars
<1>8. ASSUME NEW u \in Tasks, NEW r \in Resources, ResourceEvent(u, r)
      PROVE  FALSE
  BY <1>1, <1>8 DEF ResourceEvent, agentVars
<1>9. CASE Agent
  BY <1>1, <1>9 DEF Agent, AgentStart, AgentDrops, AgentFinish, AgentCancel,
     AgentHeartbeat, Disconnect, Reconnect, agentVars
<1>10. CASE UNCHANGED vars
  BY <1>1, <1>10 DEF vars, agentVars
<1> QED
  BY <1>2, <1>3, <1>4, <1>5, <1>6, <1>7, <1>8, <1>9, <1>10 DEF Next

\* NoStartAfterCancel: the dispatcher sends start_task only for the task at
\* the head of a queue, under the lock CancelTask's dequeue needs.
THEOREM NoStartAfterCancelCorrect == Spec => NoStartAfterCancel
<1>1. ASSUME QueueInv, [Next]_vars
      PROVE  [\A t \in Tasks : canceller[t] = "returned" => ~Sends(t)]_vars
  <2> SUFFICES ASSUME NEW t \in Tasks, canceller[t] = "returned", Sends(t)
               PROVE  FALSE
    OBVIOUS
  <2>1. SendStartTask /\ dispatcher.task = t
    BY <1>1, OnlySendAddsStart
  <2>2. Queued(t)
    BY <1>1, <2>1, DispatchedTask DEF SendStartTask, TryStartExecution
  <2> QED
    BY <1>1, <2>2 DEF QueueInv, CancelledNotQueued
<1> QED
  BY <1>1, QueueInvariance, PTL DEF Spec, NoStartAfterCancel

\* Every step of the scheduler and the handlers is one call of ResourceHolds
\* or leaves the resource maps alone.
LEMMA StepUsesResources ==
    ASSUME QueueInv, Next
    PROVE  [ResourceNext]_resourceVars
<1>0. \A t \in Tasks : AgentOf[t] \in Agents
  BY ResourceAssumption
<1>1. CASE DispatchStep
  <2>1. CASE ExpireRelease \/ UndoRelease
    <3>1. ReleaseTaskResources(dispatcher.task, dispatcher.agent)
      BY <2>1 DEF ExpireRelease, UndoRelease
    <3>2. dispatcher.task \in Tasks /\ dispatcher.agent \in Agents
      BY <2>1, DispatchedTask DEF ExpireRelease, UndoRelease
    <3> QED
      BY <3>1, <3>2 DEF ResourceNext
  <2>2. CASE ExpireUnregister \/ UndoUnregister \/ FailUnregister
    <3>1. UnregisterTaskRuntime(dispatcher.task)
      BY <2>2 DEF ExpireUnregister, UndoUnregister, FailUnregister
    <3>2. dispatcher.task \in Tasks
      BY <2>2, DispatchedTask DEF ExpireUnregister, UndoUnregister, FailUnregister
    <3> QED
      BY <3>1, <3>2 DEF ResourceNext
  <2>3. CASE Resolve
    BY <2>3, DispatchedTask DEF Resolve, ResourceNext
  <2>4. ASSUME NEW r \in Resources, Acquire(r)
        PROVE  ResourceNext
    <3>1. TryAcquirePlanResource(dispatcher.task, r)
      BY <2>4 DEF Acquire
    <3>2. dispatcher.task \in Tasks
      BY <2>4, DispatchedTask DEF Acquire
    <3> QED
      BY <3>1, <3>2 DEF ResourceNext
  <2>5. CASE \/ ExpireExecution \/ NoFreeInstance \/ CatalogError \/ StartRefused
             \/ SendStartTask \/ SendFails \/ FailExecution \/ DispatchError
    BY <2>5 DEF ExpireExecution, NoFreeInstance, CatalogError, StartRefused, SendStartTask,
       SendFails, FailExecution, DispatchError
  <2> QED
    BY <1>1, <2>1, <2>2, <2>3, <2>4, <2>5 DEF DispatchStep
<1>2. ASSUME NEW t \in Tasks, Runner(t)
      PROVE  [ResourceNext]_resourceVars
  <2>1. CASE RunnerRelease(t)
    BY <1>0, <2>1 DEF RunnerRelease, ResourceNext
  <2>2. CASE RunnerUnregister(t)
    BY <2>2 DEF RunnerUnregister, ResourceNext
  <2>3. CASE \/ RunnerRegister(t) \/ RunnerResult(t) \/ RunnerCancelled(t)
             \/ RunnerExecution(t) \/ RunnerRemove(t)
    BY <2>3 DEF RunnerRegister, RunnerResult, RunnerCancelled, RunnerWakes, RunnerExecution,
       RunnerRemove
  <2> QED
    BY <1>2, <2>1, <2>2, <2>3 DEF Runner
<1>3. ASSUME NEW u \in updates, HandleUpdate(u)
      PROVE  [ResourceNext]_resourceVars
  <2>0. u.task \in Tasks
    BY DEF QueueInv, DispatchTypeOK, Updates
  <2>1. CASE UpdateRelease(u)
    BY <1>0, <2>0, <2>1 DEF UpdateRelease, ResourceNext
  <2>2. CASE UpdateUnregister(u)
    BY <2>0, <2>2 DEF UpdateUnregister, ResourceNext
  <2>3. CASE \/ UpdateStore(u) \/ UpdateAck(u) \/ UpdateComplete(u) \/ NotifyLookup(u)
             \/ NotifySend(u)
    BY <2>3 DEF UpdateStore, UpdateAck, UpdateComplete, NotifyLookup, NotifySend
  <2> QED
    BY <1>3, <2>1, <2>2, <2>3 DEF HandleUpdate
<1>4. ASSUME NEW t \in Tasks, NEW r \in Resources, ResourceEvent(t, r)
      PROVE  [ResourceNext]_resourceVars
  BY <1>0, <1>4 DEF ResourceEvent, ResourceNext
<1>5. CASE User
  BY <1>5 DEF User, StartTask, CancelTask, PauseTask, ResumeTask
<1>6. ASSUME NEW t \in Tasks, CancelDequeue(t)
      PROVE  UNCHANGED resourceVars
  BY <1>6 DEF CancelDequeue
<1>7. ASSUME NEW a \in Agents,
             VisitAgent(a) \/ DispatchHead(a) \/ BeatStore(a) \/ BeatObserve(a)
      PROVE  UNCHANGED resourceVars
  BY <1>7 DEF VisitAgent, DispatchHead, BeatStore, BeatObserve
<1>8. CASE Agent
  BY <1>8 DEF Agent, AgentStart, AgentDrops, AgentFinish, AgentCancel, AgentHeartbeat,
     Disconnect, Reconnect
<1> QED
  BY <1>1, <1>2, <1>3, <1>4, <1>5, <1>6, <1>7, <1>8 DEF Next

\* The scheduler uses the resource maps through the state manager's methods
\* only: every behaviour of TaskDispatch is one of ResourceHolds.
THEOREM DispatchImplementsHolds == Spec => DispatchUsesResources
<1>1. Init => ResourceInit
  BY DEF Init
<1>2. QueueInv /\ [Next]_vars => [ResourceNext]_resourceVars
  <2>1. UNCHANGED vars => UNCHANGED resourceVars
    BY DEF vars
  <2> QED
    BY <2>1, StepUsesResources
<1> QED
  BY <1>1, <1>2, QueueInvariance, PTL DEF Spec, DispatchUsesResources, ResourceSpec

\* Composition: with any number of tasks and agents running, no plan's index
\* and no task's scope ever names a hold that is somebody else's, so neither
\* releasing method frees a resource under another task.
THEOREM DispatchKeepsResourceInv == Spec => []ResourceInv
BY DispatchImplementsHolds, ResourceInvariance, PTL DEF DispatchUsesResources

(***************************************************************************)
(* The life of one task, from StartTask to the end of its runTask          *)
(* goroutine: the goroutine, its completion channel, the reports under way *)
(* and the resource maps each have a lock of their own or none.  Each      *)
(* section states what holds of a single task t and under which            *)
(* assumptions on the messages, and shows it kept by every step.           *)
(***************************************************************************)
\* The dispatcher is busy with t.
Dispatching(t) == dispatcher.pc \notin {"idle", "loop"} /\ dispatcher.task = t

\* The reports on t under way or being handled, and those of its end.
Reports(t) == {u \in updates : u.task = t}
Endings(t) == {u \in Reports(t) : u.state \in Terminal}

\* Anything that an agent can only have, say or be told after a dispatch of t.
Trace(t) ==
    \/ t \in sent \/ StartMsg(t) \in inbox \/ Reports(t) # {}
    \/ \E a \in Agents : t \in running[a] \/ beat[a].task = t

-----------------------------------------------------------------------------
(* The goroutine, its channel and its context.                             *)

RunInv(t) ==
    /\ runner[t] \in {"none", "spawned"} <=> chan[t] = "none"
    /\ runner[t] = "waiting" <=> chan[t] \in {"empty"} \cup Terminal
    /\ t \in tasks <=> runner[t] \notin {"none", "done"}
    /\ canceller[t] # "none" => t \in ctxDone
    /\ t \in ctxDone => t \in Cancellable
    /\ t \in paused => t \in Pausable
    /\ \A a \in Agents : t \in running[a] => a = AgentOf[t]
    /\ Trace(t) => runner[t] # "none"

\* What a step leaves alone when it only adds to the traces of started tasks.
LEMMA RunFrame ==
    ASSUME NEW t \in Tasks, RunInv(t),
           UNCHANGED <<runner, chan, tasks, canceller, ctxDone>>,
           t \in paused' => t \in Pausable,
           \A a \in Agents : t \in running'[a] => a = AgentOf[t],
           Trace(t)' => runner[t] # "none"
    PROVE  RunInv(t)'
BY DEF RunInv

\* A task being dispatched has been started.
LEMMA DispatchingFacts ==
    ASSUME QueueInv, NEW t \in Tasks, Dispatching(t)
    PROVE  /\ runner[t] # "none" /\ Queued(t)
           /\ dispatcher.agent = AgentOf[t] /\ dispatcher.agent \in Agents
BY DispatchedTask DEF Dispatching, QueueInv, NotYetStarted

\* Reports on their way: a handler that moves on is about the same task.
LEMMA HandlerMoves ==
    ASSUME QueueInv, NEW u \in updates, HandleUpdate(u)
    PROVE  /\ u \in Updates /\ u.task \in Tasks
           /\ \/ updates' = updates \ {u}
              \/ \E v \in Updates :
                    /\ updates' = (updates \ {u}) \cup {v}
                    /\ v.task = u.task /\ v.state = u.state /\ v.by = u.by /\ v.pc # "net"
<1>1. u \in Updates
  BY DEF QueueInv, DispatchTypeOK
<1>3. \A pc \in {"ack", "release", "unregister", "complete", "lookup", "send"} :
         LET v == [u EXCEPT !.pc = pc]
         IN v \in Updates /\ v.task = u.task /\ v.state = u.state /\ v.by = u.by /\ v.pc = pc
  BY <1>1 DEF Updates
<1>4. CASE UpdateStore(u) \/ UpdateUnregister(u) \/ UpdateComplete(u)
  BY <1>1, <1>3, <1>4 DEF UpdateStore, UpdateUnregister, UpdateComplete, UpdateMoves, Updates
<1>5. CASE UpdateAck(u)
  BY <1>1, <1>3, <1>5 DEF UpdateAck, UpdateMoves, Updates
<1>6. CASE UpdateRelease(u)
  <2> DEFINE f == Releasable(u.task, AgentOf[u.task]) # {}
  <2>1. f \in BOOLEAN
    OBVIOUS
  <2> DEFINE v == [u EXCEPT !.pc = "unregister", !.freed = f]
  <2>2. updates' = (updates \ {u}) \cup {v}
    BY <1>6 DEF UpdateRelease
  <2> HIDE DEF f
  <2>3. v \in Updates /\ v.task = u.task /\ v.state = u.state /\ v.by = u.by /\ v.pc # "net"
    BY <1>1, <2>1 DEF Updates
  <2> HIDE DEF v
  <2> QED
    BY <1>1, <2>2, <2>3 DEF Updates
<1>7. CASE NotifyLookup(u) \/ NotifySend(u)
  BY <1>1, <1>3, <1>7 DEF NotifyLookup, NotifySend, UpdateMoves, UpdateEnds, Updates
<1> QED
  BY <1>4, <1>5, <1>6, <1>7 DEF HandleUpdate

\* A handler goes on with its report until it is through.
LEMMA HandlerEnds ==
    ASSUME QueueInv, NEW u \in updates, HandleUpdate(u)
    PROVE  \/ \E v \in updates' : v.task = u.task /\ v.state = u.state /\ v.by = u.by
           \/ UpdateAck(u) /\ u.state \notin Terminal
           \/ NotifyLookup(u) /\ chan[u.task] \in {"none", "closed"}
           \/ NotifySend(u)
<1>1. u \in Updates
  BY DEF QueueInv, DispatchTypeOK
<1>2. ASSUME NEW x, UpdateMoves(u, x)
      PROVE  \E v \in updates' : v.task = u.task /\ v.state = u.state /\ v.by = u.by
  <2> DEFINE v == [u EXCEPT !.pc = x]
  <2>1. v \in updates'
    BY <1>2 DEF UpdateMoves
  <2>2. v.task = u.task /\ v.state = u.state /\ v.by = u.by
    BY <1>1 DEF Updates
  <2> HIDE DEF v
  <2> QED
    BY <2>1, <2>2
<1>3. CASE UpdateRelease(u)
  <2> DEFINE v == [u EXCEPT !.pc = "unregister", !.freed = Releasable(u.task, AgentOf[u.task]) # {}]
  <2>1. v \in updates'
    BY <1>3 DEF UpdateRelease
  <2>2. v.task = u.task /\ v.state = u.state /\ v.by = u.by
    BY <1>1 DEF Updates
  <2> HIDE DEF v
  <2> QED
    BY <2>1, <2>2
<1>4. CASE UpdateStore(u) \/ UpdateUnregister(u) \/ UpdateComplete(u) \/ UpdateAck(u) \/ NotifyLookup(u)
  BY <1>2, <1>4 DEF UpdateStore, UpdateUnregister, UpdateComplete, UpdateAck, NotifyLookup
<1> QED
  BY <1>3, <1>4 DEF HandleUpdate

\* So the reports on a task after a handler's step are about as many tasks as before.
LEMMA HandlerTraces ==
    ASSUME QueueInv, NEW u \in updates, HandleUpdate(u), NEW t \in Tasks
    PROVE  Trace(t)' => Trace(t)
<1>1. Reports(t)' # {} => Reports(t) # {}
  BY HandlerMoves DEF Reports
<1>2. UNCHANGED <<sent, inbox, running, beat>>
  BY DEF HandleUpdate, UpdateStore, UpdateAck, UpdateRelease, UpdateUnregister, UpdateComplete,
     NotifyLookup, NotifySend, leaseVars, agentVars
<1> QED
  BY <1>1, <1>2 DEF Trace

\* The steps of the dispatcher.
LEMMA DispatchRun ==
    ASSUME QueueInv, NEW t \in Tasks, RunInv(t), DispatchStep
    PROVE  RunInv(t)'
<1>1. UNCHANGED <<runner, chan, tasks, canceller, ctxDone, paused, running, beat>>
  BY DEF DispatchStep, ExpireExecution, ExpireRelease, ExpireUnregister, Resolve, NoFreeInstance,
     CatalogError, Acquire, StartRefused, SendStartTask, SendFails, UndoRelease, UndoUnregister,
     FailUnregister, FailExecution, DispatchError, taskVars, runVars, agentVars
<1>2. \/ sent' \subseteq sent /\ inbox' = inbox
      \/ SendStartTask
  BY DEF DispatchStep, ExpireExecution, ExpireRelease, ExpireUnregister, Resolve, NoFreeInstance,
     CatalogError, Acquire, StartRefused, SendFails, UndoRelease, UndoUnregister,
     FailUnregister, FailExecution, DispatchError, leaseVars, agentVars
<1>3. updates' = updates \/ DispatchError
  BY DEF DispatchStep, ExpireExecution, ExpireRelease, ExpireUnregister, Resolve, NoFreeInstance,
     CatalogError, Acquire, StartRefused, SendStartTask, SendFails, UndoRelease, UndoUnregister,
     FailUnregister, FailExecution
<1>4. CASE SendStartTask
  <2>1. dispatcher.pc = "start" /\ sent' = sent \cup {dispatcher.task}
        /\ inbox' = inbox \cup {StartMsg(dispatcher.task)}
    BY <1>4 DEF SendStartTask, TryStartExecution
  <2>2. StartMsg(t) = StartMsg(dispatcher.task) => t = dispatcher.task
    BY DEF StartMsg
  <2>3. updates' = updates
    BY <1>4 DEF SendStartTask
  <2>4. Trace(t)' => Trace(t) \/ dispatcher.task = t
    BY <1>1, <2>1, <2>2, <2>3 DEF Trace, Reports
  <2> QED
    BY <1>1, <2>1, <2>4, DispatchingFacts, RunFrame DEF RunInv, Dispatching
<1>5. CASE DispatchError
  <2>1. dispatcher.pc = "error"
        /\ updates' \subseteq updates \cup {Notification(dispatcher.task, "failed")}
        /\ UNCHANGED <<sent, inbox>>
    BY <1>5 DEF DispatchError, agentVars
  <2>2. Notification(dispatcher.task, "failed").task = dispatcher.task
    BY DEF Notification
  <2>3. Trace(t)' => Trace(t) \/ dispatcher.task = t
    BY <1>1, <2>1, <2>2 DEF Trace, Reports
  <2> QED
    BY <1>1, <2>1, <2>3, DispatchingFacts, RunFrame DEF RunInv, Dispatching
<1>6. CASE updates' = updates /\ sent' \subseteq sent /\ inbox' = inbox
  <2>1. Trace(t)' => Trace(t)
    BY <1>1, <1>6 DEF Trace, Reports
  <2> QED
    BY <1>1, <2>1, RunFrame DEF RunInv
<1> QED
  BY <1>2, <1>3, <1>4, <1>5, <1>6

\* runTask's own steps.
LEMMA RunnerRun ==
    ASSUME QueueInv, NEW t \in Tasks, RunInv(t), NEW s \in Tasks, Runner(s)
    PROVE  RunInv(t)'
<1>1. UNCHANGED <<canceller, ctxDone, running, beat, sent, inbox, updates>>
  BY DEF Runner, RunnerRegister, RunnerResult, RunnerCancelled, RunnerWakes, RunnerExecution,
     RunnerRelease, RunnerUnregister, RunnerRemove, leaseVars, agentVars
<1>2. Trace(t)' = Trace(t)
  BY <1>1 DEF Trace, Reports
<1>3. /\ runner \in [Tasks -> {"none", "spawned", "waiting", "execution", "release",
                              "unregister", "remove", "done"}]
      /\ chan \in [Tasks -> {"none", "empty", "closed"} \cup Terminal]
  BY DEF QueueInv, DispatchTypeOK
<1>4. CASE RunnerRegister(s)
  BY <1>1, <1>2, <1>3, <1>4 DEF RunnerRegister, RunnerMoves, RunInv, taskVars, Terminal
<1>5. CASE RunnerResult(s) \/ RunnerCancelled(s)
  BY <1>1, <1>2, <1>3, <1>5 DEF RunnerResult, RunnerCancelled, RunnerWakes, RunnerMoves, RunInv,
     Terminal
<1>6. CASE RunnerExecution(s) \/ RunnerRelease(s) \/ RunnerUnregister(s)
  BY <1>1, <1>2, <1>3, <1>6 DEF RunnerExecution, RunnerRelease, RunnerUnregister, RunnerMoves,
     RunInv, taskVars
<1>7. CASE RunnerRemove(s)
  BY <1>1, <1>2, <1>3, <1>7 DEF RunnerRemove, RunnerMoves, RunInv
<1> QED
  BY <1>4, <1>5, <1>6, <1>7 DEF Runner

\* The handlers of reports; only a delivery changes a channel, and that one is open.
LEMMA UpdateRun ==
    ASSUME QueueInv, NEW t \in Tasks, RunInv(t), NEW u \in updates, HandleUpdate(u)
    PROVE  RunInv(t)'
<1>1. UNCHANGED <<runner, tasks, canceller, ctxDone, paused, running>>
  BY DEF HandleUpdate, UpdateStore, UpdateAck, UpdateRelease, UpdateUnregister, UpdateComplete,
     NotifyLookup, NotifySend, taskVars, runVars, agentVars
<1>2. Trace(t)' => runner[t] # "none"
  BY HandlerTraces DEF RunInv
<1>3. CASE NotifySend(u)
  <2>1. u.task \in Tasks /\ u.state \in Terminal
    BY <1>3 DEF NotifySend, QueueInv, DispatchTypeOK, Updates, TerminalUpdates
  <2>2. chan[t] # "none" => chan'[t] \in {"empty"} \cup Terminal <=> chan[t] \in {"empty"} \cup Terminal
    BY <1>3, <2>1 DEF NotifySend, QueueInv, DispatchTypeOK
  <2>3. chan[t] = "none" <=> chan'[t] = "none"
    BY <1>3, <2>1 DEF NotifySend, QueueInv, DispatchTypeOK, Terminal
  <2>4. chan[t] = "none" => "none" \notin {"empty"} \cup Terminal
    BY DEF Terminal
  <2> QED
    BY <1>1, <1>2, <2>2, <2>3, <2>4 DEF RunInv
<1>4. CASE chan' = chan
  BY <1>1, <1>2, <1>4, RunFrame DEF RunInv
<1> QED
  BY <1>3, <1>4 DEF HandleUpdate, UpdateStore, UpdateAck, UpdateRelease, UpdateUnregister,
     UpdateComplete, NotifyLookup, runVars

\* The agents, their connections and their heartbeats.
LEMMA AgentRun ==
    ASSUME QueueInv, NEW t \in Tasks, RunInv(t), Agent
    PROVE  RunInv(t)'
<1>0. /\ \A s \in Tasks : AgentOf[s] \in Agents
      /\ running \in [Agents -> SUBSET Tasks]
      /\ beat \in [Agents -> [pc : {"none", "net", "observe", "last"}, task : Tasks \cup {NoTask}]]
  BY ResourceAssumption DEF QueueInv, DispatchTypeOK
<1>1. UNCHANGED <<runner, chan, tasks, canceller, ctxDone, paused, sent>>
  BY DEF Agent, AgentStart, AgentDrops, AgentFinish, AgentCancel, AgentHeartbeat, Disconnect,
     Reconnect, taskVars, runVars, leaseVars
<1>2. ASSUME NEW s \in Tasks, AgentStart(s)
      PROVE  RunInv(t)'
  <2>1. /\ inbox' \subseteq inbox /\ StartMsg(s) \in inbox
        /\ running' = [running EXCEPT ![AgentOf[s]] = @ \cup {s}]
        /\ updates' = updates \cup {Report(s, "running")} /\ beat' = beat
    BY <1>2 DEF AgentStart
  <2>2. Trace(t)' => Trace(t)
    BY <1>0, <1>1, <2>1 DEF Trace, Reports, Report
  <2> QED
    BY <1>0, <1>1, <2>1, <2>2, RunFrame DEF RunInv
<1>3. ASSUME NEW s \in Tasks, s \in running[AgentOf[s]], NEW st, AgentEnds(s, st),
             inbox' \subseteq inbox, beat' = beat
      PROVE  RunInv(t)'
  <2>1. /\ \A a \in Agents : running'[a] \subseteq running[a]
        /\ updates' = updates \cup {Report(s, st)}
    BY <1>0, <1>3 DEF AgentEnds
  <2>2. Trace(t)' => Trace(t)
    BY <1>0, <1>1, <1>3, <2>1 DEF Trace, Reports, Report
  <2> QED
    BY <1>0, <1>1, <2>1, <2>2, RunFrame DEF RunInv
<1>4. ASSUME inbox' \subseteq inbox, updates' \subseteq updates, running' = running,
             \A a \in Agents : beat'[a].task # NoTask => beat'[a].task = beat[a].task
                                                         \/ beat'[a].task \in running[a]
      PROVE  RunInv(t)'
  <2>1. t # NoTask
    BY ResourceAssumption
  <2>2. Trace(t)' => Trace(t)
    BY <1>1, <1>4, <2>1 DEF Trace, Reports
  <2> QED
    BY <1>1, <1>4, <2>2, RunFrame DEF RunInv
<1>5. ASSUME NEW s \in Tasks, AgentDrops(s)
      PROVE  RunInv(t)'
  BY <1>4, <1>5 DEF AgentDrops
<1>6. ASSUME NEW s \in Tasks, AgentFinish(s)
      PROVE  RunInv(t)'
  BY <1>3, <1>6 DEF AgentFinish
<1>7. ASSUME NEW s \in Tasks, AgentCancel(s)
      PROVE  RunInv(t)'
  BY <1>3, <1>4, <1>7 DEF AgentCancel
<1>8. ASSUME NEW b \in Agents, AgentHeartbeat(b)
      PROVE  RunInv(t)'
  <2>1. PICK x \in IF running[b] = {} THEN {NoTask} ELSE running[b] :
           beat' = [beat EXCEPT ![b] = [pc |-> "net", task |-> x]]
    BY <1>8 DEF AgentHeartbeat
  <2>2. x = NoTask \/ x \in running[b]
    BY <2>1
  <2>3. \A a \in Agents : beat'[a].task # NoTask => beat'[a].task = beat[a].task
                                                    \/ beat'[a].task \in running[a]
    BY <1>0, <2>1, <2>2
  <2> QED
    BY <1>4, <1>8, <2>3 DEF AgentHeartbeat, agentVars
<1>9. ASSUME NEW b \in Agents, Disconnect(b)
      PROVE  RunInv(t)'
  <2>1. \A a \in Agents : beat'[a].task # NoTask => beat'[a].task = beat[a].task
    BY <1>0, <1>9 DEF Disconnect, NoBeat
  <2> QED
    BY <1>4, <1>9, <2>1 DEF Disconnect
<1>10. ASSUME NEW b \in Agents, Reconnect(b)
      PROVE  RunInv(t)'
  BY <1>4, <1>10 DEF Reconnect
<1> QED
  BY <1>2, <1>5, <1>6, <1>7, <1>8, <1>9, <1>10 DEF Agent

\* Users: a task is started once, and only a cancellable one is cancelled.
LEMMA UserRun ==
    ASSUME QueueInv, NEW t \in Tasks, RunInv(t), User
    PROVE  RunInv(t)'
<1>1. UNCHANGED <<running, beat, sent, inbox, updates, chan>>
  BY DEF User, StartTask, CancelTask, PauseTask, ResumeTask, leaseVars, agentVars, runVars
<1>2. Trace(t)' = Trace(t)
  BY <1>1 DEF Trace, Reports
<1>3. /\ runner \in [Tasks -> {"none", "spawned", "waiting", "execution", "release",
                              "unregister", "remove", "done"}]
      /\ canceller \in [Tasks -> {"none", "dequeue", "returned"}]
  BY DEF QueueInv, DispatchTypeOK
<1>4. ASSUME NEW s \in Tasks, StartTask(s)
      PROVE  RunInv(t)'
  BY <1>1, <1>2, <1>3, <1>4 DEF StartTask, RunInv
<1>5. ASSUME NEW s \in Tasks, CancelTask(s)
      PROVE  RunInv(t)'
  BY <1>1, <1>2, <1>3, <1>5 DEF CancelTask, RunInv, taskVars
<1>6. ASSUME NEW s \in Tasks, PauseTask(s) \/ ResumeTask(s)
      PROVE  RunInv(t)'
  BY <1>1, <1>2, <1>6 DEF PauseTask, ResumeTask, RunInv, runVars
<1> QED
  BY <1>4, <1>5, <1>6 DEF User

\* The remaining steps: the queues, the heartbeats' handlers, the resource events.
LEMMA OtherRun ==
    ASSUME QueueInv, NEW t \in Tasks, RunInv(t),
           \/ \E s \in Tasks : CancelDequeue(s)
           \/ \E a \in Agents : VisitAgent(a) \/ DispatchHead(a) \/ BeatStore(a) \/ BeatObserve(a)
           \/ \E s \in Tasks, r \in Resources : ResourceEvent(s, r)
           \/ UNCHANGED vars
    PROVE  RunInv(t)'
<1>0. /\ beat \in [Agents -> [pc : {"none", "net", "observe", "last"}, task : Tasks \cup {NoTask}]]
      /\ canceller \in [Tasks -> {"none", "dequeue", "returned"}]
      /\ t # NoTask
  BY ResourceAssumption DEF QueueInv, DispatchTypeOK
<1>1. ASSUME NEW s \in Tasks, CancelDequeue(s)
      PROVE  RunInv(t)'
  <2>1. StartMsg(t) # CancelMsg(s)
    BY DEF StartMsg, CancelMsg
  <2>2. Trace(t)' => Trace(t)
    BY <1>1, <2>1 DEF CancelDequeue, Trace, Reports, leaseVars
  <2> QED
    BY <1>0, <1>1, <2>2 DEF CancelDequeue, RunInv, taskVars
<1>2. ASSUME UNCHANGED <<runner, chan, tasks, canceller, ctxDone, paused, running, sent, inbox, updates>>,
             \A a \in Agents : beat'[a].task \in {beat[a].task, NoTask}
      PROVE  RunInv(t)'
  <2>1. Trace(t)' => Trace(t)
    BY <1>0, <1>2 DEF Trace, Reports
  <2> QED
    BY <1>2, <2>1, RunFrame DEF RunInv
<1>3. ASSUME NEW a \in Agents, VisitAgent(a) \/ DispatchHead(a)
      PROVE  RunInv(t)'
  BY <1>2, <1>3 DEF VisitAgent, DispatchHead, taskVars, leaseVars, runVars, agentVars
<1>4. ASSUME NEW a \in Agents, BeatStore(a) \/ BeatObserve(a)
      PROVE  RunInv(t)'
  BY <1>0, <1>2, <1>4 DEF BeatStore, BeatObserve, NoBeat, LastBeat, taskVars, leaseVars, runVars, agentVars
<1>5. ASSUME NEW s \in Tasks, NEW r \in Resources, ResourceEvent(s, r)
      PROVE  RunInv(t)'
  BY <1>2, <1>5 DEF ResourceEvent, taskVars, leaseVars, runVars, agentVars
<1>6. CASE UNCHANGED vars
  BY <1>2, <1>6 DEF vars, taskVars, leaseVars, runVars, agentVars
<1> QED
  BY <1>1, <1>3, <1>4, <1>5, <1>6

AllRun == \A t \in Tasks : RunInv(t)

\* The channel is there while runTask waits and is closed afterwards, a task is in
\* s.tasks while its goroutine exists, and no agent knows of a task before its start.
LEMMA RunInvariance == Spec => []AllRun
<1>1. Init => AllRun
  BY ResourceAssumption DEF Init, AllRun, RunInv, Trace, Reports, NoBeat, Terminal
<1>2. QueueInv /\ AllRun /\ [Next]_vars => AllRun'
  BY DispatchRun, RunnerRun, UpdateRun, AgentRun, UserRun, OtherRun DEF AllRun, Next
<1> QED
  BY <1>1, <1>2, QueueInvariance, PTL DEF Spec

-----------------------------------------------------------------------------
(* How tasks enter and leave the queues.                                   *)

\* Cutting out one task's entry leaves those of the others.
LEMMA DequeueOthers ==
    ASSUME NEW s \in Tasks, NEW t \in Tasks, t # s, Queued(t), queue \in [Agents -> Seq(Tasks)]
    PROVE  t \in Range(Dequeue(s)[AgentOf[t]])
<1>1. AgentOf[s] \in Agents /\ AgentOf[t] \in Agents
  BY ResourceAssumption
<1>2. CASE ~Queued(s)
  BY <1>2 DEF Dequeue, Queued
<1>3. CASE Queued(s) /\ AgentOf[t] # AgentOf[s]
  BY <1>1, <1>3 DEF Dequeue, Queued
<1>4. CASE Queued(s) /\ AgentOf[t] = AgentOf[s]
  <2> DEFINE b == AgentOf[s]
             q == queue[b]
             k == CHOOSE i \in DOMAIN q : q[i] = s
             r == [j \in 1..(Len(q) - 1) |-> IF j < k THEN q[j] ELSE q[j + 1]]
  <2>1. q \in Seq(Tasks) /\ Len(q) \in Nat /\ DOMAIN q = 1..Len(q)
    BY <1>1
  <2>2. k \in DOMAIN q /\ q[k] = s
    BY <1>4 DEF Queued, Range
  <2>3. Dequeue(s)[b] = r
    BY <1>1, <1>4 DEF Dequeue
  <2>4. PICK i \in DOMAIN q : q[i] = t
    BY <1>4 DEF Queued, Range
  <2>5. i # k
    BY <2>2, <2>4
  <2> HIDE DEF k, q
  <2>6. DOMAIN r = 1..(Len(q) - 1)
    OBVIOUS
  <2>7. CASE i < k
    <3>1. i \in DOMAIN r /\ r[i] = q[i]
      BY <2>1, <2>2, <2>4, <2>6, <2>7
    <3> QED
      BY <1>4, <2>3, <2>4, <3>1 DEF Range
  <2>8. CASE ~(i < k)
    <3>1. i - 1 \in 1..(Len(q) - 1) /\ ~(i - 1 < k) /\ (i - 1) + 1 = i
      BY <2>1, <2>2, <2>4, <2>5, <2>8
    <3>2. r[i - 1] = q[i]
      BY <3>1
    <3> QED
      BY <1>4, <2>3, <2>4, <2>6, <3>1, <3>2 DEF Range
  <2> QED
    BY <2>7, <2>8
<1> QED
  BY <1>2, <1>3, <1>4

\* The ways out of a queue.
Leaves(t) ==
    \/ CancelDequeue(t) \/ RunnerRemove(t)
    \/ \E u \in updates : UpdateAck(u) /\ u.task = t
    \/ \E a \in Agents : BeatObserve(a) /\ beat[a].task = t
    \/ Dead(t) /\ \E a \in Agents : DispatchHead(a)
    \/ DispatchError /\ Dispatching(t) /\ attempts[t] = MaxDispatchAttempts

\* A task enters a queue when it is started, and leaves it in one of those ways.
LEMMA QueueSteps ==
    ASSUME QueueInv, [Next]_vars, NEW t \in Tasks
    PROVE  /\ Queued(t)' => Queued(t) \/ StartTask(t)
           /\ Queued(t) => Queued(t)' \/ Leaves(t)
<1>0. /\ queue \in [Agents -> Seq(Tasks)] /\ QueueSound
      /\ \A s \in Tasks : AgentOf[s] \in Agents
  BY ResourceAssumption DEF QueueInv, DispatchTypeOK
<1>1. CASE queue' = queue
  BY <1>1 DEF Queued
<1>2. ASSUME NEW s \in Tasks, queue' = Dequeue(s)
      PROVE  /\ Queued(t)' => Queued(t)
             /\ Queued(t) => Queued(t)' \/ s = t
  <2>1. Queued(t)' => Queued(t)
    BY <1>2, DequeueKeeps
  <2>2. Queued(t) /\ s # t => t \in Range(queue'[AgentOf[t]])
    BY <1>0, <1>2, DequeueOthers
  <2> QED
    BY <2>1, <2>2 DEF Queued
<1>3. ASSUME NEW s \in Tasks, StartTask(s)
      PROVE  (Queued(t) <=> Queued(t)') \/ StartTask(t)
  <2>1. queue' = [queue EXCEPT ![AgentOf[s]] = Append(@, s)]
    BY <1>3 DEF StartTask
  <2>2. CASE AgentOf[s] = AgentOf[t] /\ s # t
    <3> DEFINE q == queue[AgentOf[t]]
    <3>1. queue'[AgentOf[t]] = Append(q, s) /\ q \in Seq(Tasks)
      BY <1>0, <2>1, <2>2
    <3> HIDE DEF q
    <3>2. \A i \in DOMAIN q : i \in DOMAIN Append(q, s) /\ Append(q, s)[i] = q[i]
      BY <3>1
    <3>3. \A i \in DOMAIN Append(q, s) : i \in DOMAIN q \/ Append(q, s)[i] = s
      BY <3>1
    <3>4. (t \in Range(Append(q, s))) = (t \in Range(q))
      BY <2>2, <3>2, <3>3 DEF Range
    <3> QED
      BY <3>1, <3>4 DEF Queued, q
  <2>3. CASE AgentOf[s] # AgentOf[t]
    BY <1>0, <2>1, <2>3 DEF Queued
  <2> QED
    BY <1>3, <2>2, <2>3
<1>4. ASSUME NEW a \in Agents, DispatchHead(a)
      PROVE  /\ Queued(t)' => Queued(t)
             /\ Queued(t) => Queued(t)' \/ Dead(t)
  <2> DEFINE p == queue[a]
  <2>1. PICK d \in 0..Len(p) : /\ queue' = [queue EXCEPT ![a] = SubSeq(p, d + 1, Len(p))]
                               /\ \A i \in 1..d : Dead(p[i])
    BY <1>4 DEF DispatchHead
  <2>2. CASE AgentOf[t] # a
    BY <1>0, <2>1, <2>2 DEF Queued
  <2>3. CASE AgentOf[t] = a
    <3> DEFINE z == SubSeq(p, d + 1, Len(p))
    <3>1. p \in Seq(Tasks) /\ queue'[a] = z /\ DOMAIN p = 1..Len(p) /\ Len(p) \in Nat
      BY <1>0, <2>1
    <3>2. DOMAIN z = 1..(Len(p) - d) /\ \A i \in DOMAIN z : i + d \in DOMAIN p /\ z[i] = p[i + d]
      BY <2>1, <3>1, SuffixFacts
    <3> HIDE DEF z, p
    <3>3. \A i \in DOMAIN p : i \in 1..d \/ (i - d \in DOMAIN z /\ z[i - d] = p[i])
      <4> TAKE i \in DOMAIN p
      <4>1. i \in 1..d \/ (i - d \in 1..(Len(p) - d) /\ (i - d) + d = i)
        BY <2>1, <3>1
      <4> QED
        BY <3>2, <4>1
    <3>4. t \in Range(z) => t \in Range(p)
      BY <3>2 DEF Range
    <3>5. t \in Range(p) => t \in Range(z) \/ Dead(t)
      BY <2>1, <3>3 DEF Range
    <3> QED
      BY <2>3, <3>1, <3>4, <3>5 DEF Queued, p
  <2> QED
    BY <2>2, <2>3
<1>5. CASE DispatchError
  <2> DEFINE a == dispatcher.agent
             q == queue[a]
  <2>1. /\ a \in Agents /\ dispatcher.task \in Tasks /\ q \in Seq(Tasks) /\ q # <<>>
        /\ dispatcher.pc = "error" /\ dispatcher.task = Head(q) /\ AgentOf[dispatcher.task] = a
    BY <1>5, DispatchedTask DEF DispatchError, QueueInv, HeadDispatched, DispatchTypeOK
  <2>2. CASE /\ queue' = [queue EXCEPT ![a] = Tail(q)]
             /\ attempts[dispatcher.task] = MaxDispatchAttempts
    <3>1. CASE AgentOf[t] # a
      BY <1>0, <2>1, <2>2, <3>1 DEF Queued
    <3>2. CASE AgentOf[t] = a
      <4>1. /\ queue'[a] = Tail(q) /\ DOMAIN q = 1..Len(q) /\ Len(q) \in Nat /\ Len(q) > 0
            /\ DOMAIN Tail(q) = 1..(Len(q) - 1)
            /\ \A i \in DOMAIN Tail(q) : i + 1 \in DOMAIN q /\ Tail(q)[i] = q[i + 1]
            /\ q[1] = dispatcher.task
        BY <1>0, <2>1, <2>2
      <4> HIDE DEF q
      <4>2. \A i \in DOMAIN q : i = 1 \/ (i - 1 \in DOMAIN Tail(q) /\ Tail(q)[i - 1] = q[i])
        <5> TAKE i \in DOMAIN q
        <5>1. i = 1 \/ (i - 1 \in 1..(Len(q) - 1) /\ (i - 1) + 1 = i)
          BY <4>1
        <5> QED
          BY <4>1, <5>1
      <4>3. t \in Range(Tail(q)) => t \in Range(q)
        BY <4>1 DEF Range
      <4>4. t \in Range(q) => t \in Range(Tail(q)) \/ t = dispatcher.task
        BY <4>1, <4>2 DEF Range
      <4> QED
        BY <1>5, <2>1, <2>2, <3>2, <4>1, <4>3, <4>4 DEF Queued, Leaves, Dispatching, q
    <3> QED
      BY <3>1, <3>2
  <2> QED
    BY <1>1, <1>5, <2>2 DEF DispatchError
<1>6. ASSUME NEW s \in Tasks, CancelDequeue(s) \/ RunnerRemove(s)
      PROVE  /\ Queued(t)' => Queued(t)
             /\ Queued(t) => Queued(t)' \/ Leaves(t)
  BY <1>2, <1>6 DEF CancelDequeue, RunnerRemove, Leaves
<1>7. ASSUME NEW u \in updates, UpdateAck(u)
      PROVE  /\ Queued(t)' => Queued(t)
             /\ Queued(t) => Queued(t)' \/ Leaves(t)
  <2>1. u.task \in Tasks /\ queue' = Dequeue(u.task)
    BY <1>7 DEF UpdateAck, Acknowledge, QueueInv, DispatchTypeOK, Updates
  <2> QED
    BY <1>2, <1>7, <2>1 DEF Leaves
<1>8. ASSUME NEW a \in Agents, BeatObserve(a)
      PROVE  /\ Queued(t)' => Queued(t)
             /\ Queued(t) => Queued(t)' \/ Leaves(t)
  <2>1. queue' = queue \/ (beat[a].task \in Tasks /\ queue' = Dequeue(beat[a].task))
    BY <1>8 DEF BeatObserve, Acknowledge, QueueInv, DispatchTypeOK
  <2>2. CASE queue' = queue
    BY <2>2 DEF Queued
  <2>3. CASE beat[a].task \in Tasks /\ queue' = Dequeue(beat[a].task)
    BY <1>2, <1>8, <2>3 DEF Leaves
  <2> QED
    BY <2>1, <2>2, <2>3
<1>9. \/ queue' = queue \/ DispatchError
      \/ \E s \in Tasks : StartTask(s) \/ CancelDequeue(s) \/ RunnerRemove(s)
      \/ \E a \in Agents : DispatchHead(a) \/ BeatObserve(a)
      \/ \E u \in updates : UpdateAck(u)
  <2>1. CASE DispatchStep
    BY <2>1 DEF DispatchStep, ExpireExecution, ExpireRelease, ExpireUnregister, Resolve,
       NoFreeInstance, CatalogError, Acquire, StartRefused, SendStartTask, SendFails, UndoRelease,
       UndoUnregister, FailUnregister, FailExecution
  <2>2. CASE User \/ Agent
    BY <2>2 DEF User, CancelTask, PauseTask, ResumeTask, Agent, AgentStart, AgentDrops,
       AgentFinish, AgentCancel, AgentHeartbeat, Disconnect, Reconnect
  <2>3. ASSUME NEW s \in Tasks, Runner(s)
        PROVE  queue' = queue \/ RunnerRemove(s)
    BY <2>3 DEF Runner, RunnerRegister, RunnerResult, RunnerCancelled, RunnerWakes,
       RunnerExecution, RunnerRelease, RunnerUnregister
  <2>4. ASSUME NEW u \in updates, HandleUpdate(u)
        PROVE  queue' = queue \/ UpdateAck(u)
    BY <2>4 DEF HandleUpdate, UpdateStore, UpdateRelease, UpdateUnregister, UpdateComplete,
       NotifyLookup, NotifySend
  <2>5. ASSUME NEW a \in Agents, VisitAgent(a) \/ BeatStore(a)
        PROVE  queue' = queue
    BY <2>5 DEF VisitAgent, BeatStore
  <2>6. ASSUME NEW s \in Tasks, NEW r \in Resources, ResourceEvent(s, r)
        PROVE  queue' = queue
    BY <2>6 DEF ResourceEvent
  <2>7. UNCHANGED vars => queue' = queue
    BY DEF vars
  <2> QED
    BY <2>1, <2>2, <2>3, <2>4, <2>5, <2>6, <2>7 DEF Next
<1>10. ASSUME NEW a \in Agents, DispatchHead(a)
       PROVE  /\ Queued(t)' => Queued(t)
              /\ Queued(t) => Queued(t)' \/ Leaves(t)
  BY <1>4, <1>10 DEF Leaves
<1>11. CASE \E s \in Tasks : StartTask(s) \/ CancelDequeue(s) \/ RunnerRemove(s)
  <2>1. StartTask(t) => ~Queued(t)
    BY DEF StartTask, QueueInv, NotYetStarted
  <2> QED
    BY <1>3, <1>6, <1>11, <2>1
<1>12. CASE \E a \in Agents : DispatchHead(a) \/ BeatObserve(a)
  BY <1>8, <1>10, <1>12
<1> QED
  BY <1>1, <1>5, <1>7, <1>9, <1>11, <1>12

\* What every step of the dispatcher has in common.
LEMMA DispatchFacts ==
    ASSUME QueueInv, DispatchStep
    PROVE  /\ dispatcher.pc \notin {"idle", "loop"}
           /\ \/ dispatcher' = NoDispatch
              \/ dispatcher'.task = dispatcher.task /\ dispatcher'.agent = dispatcher.agent
           /\ UNCHANGED <<tasks, paused, runVars, beat, connected, drops, running>>
           /\ updates \subseteq updates'
           /\ updates' \subseteq updates \cup {Notification(dispatcher.task, "failed")}
           /\ \A t \in Tasks : t # dispatcher.task =>
                 /\ t \in leased' <=> t \in leased
                 /\ t \in sent' <=> t \in sent
                 /\ StartMsg(t) \in inbox' <=> StartMsg(t) \in inbox
                 /\ status'[t] = status[t] /\ bindings'[t] = bindings[t]
                 /\ dbStatus'[t] = dbStatus[t] /\ attempts'[t] = attempts[t]
                 /\ Reports(t)' = Reports(t)
<1>0. /\ dispatcher \in Dispatchers /\ dispatcher.pc \notin {"idle", "loop"}
      /\ dispatcher.task \in Tasks
      /\ status \in [Tasks -> Statuses] /\ bindings \in [Tasks -> SUBSET Resources]
      /\ dbStatus \in [Tasks -> Statuses] /\ attempts \in [Tasks -> 0..MaxDispatchAttempts]
  <2>1. dispatcher.pc \notin {"idle", "loop"}
    BY DEF DispatchStep, ExpireExecution, ExpireRelease, ExpireUnregister, Resolve, NoFreeInstance,
       CatalogError, Acquire, StartRefused, SendStartTask, SendFails, TryStartExecution, UndoRelease,
       UndoUnregister, FailUnregister, FailExecution, DispatchError
  <2> QED
    BY <2>1, DispatchedTask DEF QueueInv, DispatchTypeOK
<1>1. \/ dispatcher' = NoDispatch
      \/ dispatcher'.task = dispatcher.task /\ dispatcher'.agent = dispatcher.agent
  <2>1. CASE \E r \in Resources : Acquire(r)
    <3>1. PICK r, x : dispatcher' = [dispatcher EXCEPT !.todo = @ \ {r}, !.pc = x]
      BY <2>1 DEF Acquire
    <3> QED
      BY <1>0, <3>1 DEF Dispatchers
  <2>2. CASE Resolve
    <3>1. PICK B, x : dispatcher' = [dispatcher EXCEPT !.todo = B, !.pc = x]
      BY <2>2 DEF Resolve
    <3> QED
      BY <1>0, <3>1 DEF Dispatchers
  <2>3. CASE ~Resolve /\ ~\E r \in Resources : Acquire(r)
    BY <1>0, <2>3 DEF DispatchStep, ExpireExecution, ExpireRelease, ExpireUnregister, NoFreeInstance,
       CatalogError, StartRefused, SendStartTask, SendFails, UndoRelease, DispatchDone,
       UndoUnregister, FailUnregister, FailExecution, DispatchError, Dispatchers
  <2> QED
    BY <2>1, <2>2, <2>3
<1>2. UNCHANGED <<tasks, paused, runVars, beat, connected, drops, running>>
  BY DEF DispatchStep, ExpireExecution, ExpireRelease, ExpireUnregister, Resolve, NoFreeInstance,
     CatalogError, Acquire, StartRefused, SendStartTask, SendFails, UndoRelease, UndoUnregister,
     FailUnregister, FailExecution, DispatchError, taskVars, agentVars
<1>3. updates \subseteq updates' /\ updates' \subseteq updates \cup {Notification(dispatcher.task, "failed")}
  BY DEF DispatchStep, ExpireExecution, ExpireRelease, ExpireUnregister, Resolve, NoFreeInstance,
     CatalogError, Acquire, StartRefused, SendStartTask, SendFails, UndoRelease, UndoUnregister,
     FailUnregister, FailExecution, DispatchError
<1>4. ASSUME NEW t \in Tasks, t # dispatcher.task
      PROVE  /\ t \in leased' <=> t \in leased
             /\ t \in sent' <=> t \in sent
             /\ StartMsg(t) \in inbox' <=> StartMsg(t) \in inbox
  <2>1. StartMsg(t) # StartMsg(dispatcher.task)
    BY <1>4 DEF StartMsg
  <2> QED
    BY <1>4, <2>1 DEF DispatchStep, ExpireExecution, ExpireRelease, ExpireUnregister, Resolve,
       NoFreeInstance, CatalogError, Acquire, StartRefused, SendStartTask, SendFails,
       TryStartExecution, UndoRelease, UndoUnregister, FailUnregister, FailExecution, DispatchError,
       leaseVars, agentVars
<1>5. ASSUME NEW t \in Tasks, t # dispatcher.task
      PROVE  /\ status'[t] = status[t] /\ bindings'[t] = bindings[t]
             /\ dbStatus'[t] = dbStatus[t] /\ attempts'[t] = attempts[t]
  BY <1>0, <1>5 DEF DispatchStep, ExpireExecution, ExpireRelease, ExpireUnregister, Resolve,
     NoFreeInstance, CatalogError, Acquire, StartRefused, SendStartTask, SendFails,
     TryStartExecution, UndoRelease, UndoUnregister, FailUnregister, FailExecution, DispatchError,
     leaseVars, taskVars
<1>6. ASSUME NEW t \in Tasks, t # dispatcher.task
      PROVE  Reports(t)' = Reports(t)
  <2>1. Notification(dispatcher.task, "failed").task = dispatcher.task
    BY DEF Notification
  <2> HIDE DEF Notification
  <2> QED
    BY <1>3, <1>6, <2>1 DEF Reports
<1> QED
  BY <1>0, <1>1, <1>2, <1>3, <1>4, <1>5, <1>6

\* What dispatchNextQueuedTask begins with: nothing, or the first task of the queue that is
\* still alive, unless it has a lease that may last.
LEMMA HeadFacts ==
    ASSUME QueueInv, NEW a \in Agents, DispatchHead(a)
    PROVE  /\ dispatcher.pc \in {"idle", "loop"}
           /\ \/ dispatcher' = NoDispatch
              \/ \E s \in Tasks :
                    /\ dispatcher'.task = s /\ dispatcher'.agent = a /\ AgentOf[s] = a
                    /\ Queued(s) /\ Queued(s)' /\ ~Dead(s)
                    /\ \/ dispatcher'.pc = "resolve" /\ s \notin leased
                       \/ dispatcher'.pc = "expireExecution" /\ s \in leased /\ MayExpire(s)
<1> DEFINE p == queue[a]
<1>1. PICK d \in 0..Len(p) :
        LET q == SubSeq(p, d + 1, Len(p))
            Go(pc) == [pc |-> pc, agent |-> a, task |-> Head(q), todo |-> {}]
        IN  /\ \/ TasksMuFree /\ a \in ready
               \/ dispatcher.pc = "loop" /\ dispatcher.agent = a
            /\ q # <<>> => ~Dead(Head(q))
            /\ queue' = [queue EXCEPT ![a] = q]
            /\ dispatcher' \in
                 IF q = <<>> THEN {NoDispatch}
                 ELSE (IF Head(q) \in leased \cup retrying THEN {NoDispatch} ELSE {})
                      \cup (IF Head(q) \notin leased THEN {Go("resolve")}
                            ELSE IF MayExpire(Head(q)) THEN {Go("expireExecution")} ELSE {})
  BY DEF DispatchHead
<1> DEFINE q == SubSeq(p, d + 1, Len(p))
           s == Head(q)
<1>2. /\ p \in Seq(Tasks) /\ q \in Seq(Tasks) /\ DOMAIN q = 1..(Len(p) - d)
      /\ queue'[a] = q
      /\ \A i \in DOMAIN q : i + d \in DOMAIN p /\ q[i] = p[i + d]
  BY <1>1, SuffixFacts DEF QueueInv, DispatchTypeOK
<1>3. q # <<>> => 1 \in DOMAIN q /\ s = q[1] /\ s \in Tasks
  BY <1>2
<1>4. q # <<>> => s \in Range(q) /\ s \in Range(p)
  BY <1>2, <1>3 DEF Range
<1>5. q # <<>> => AgentOf[s] = a
  BY <1>4 DEF Range, QueueInv, QueueSound
<1>6. dispatcher.pc \in {"idle", "loop"}
  BY <1>1 DEF TasksMuFree
<1>7. \/ dispatcher' = NoDispatch
      \/ /\ q # <<>> /\ ~Dead(s)
         /\ \/ /\ dispatcher' = [pc |-> "resolve", agent |-> a, task |-> s, todo |-> {}]
               /\ s \notin leased
            \/ /\ dispatcher' = [pc |-> "expireExecution", agent |-> a, task |-> s, todo |-> {}]
               /\ s \in leased /\ MayExpire(s)
  BY <1>1
<1> SUFFICES ASSUME dispatcher' # NoDispatch
             PROVE  \E x \in Tasks :
                       /\ dispatcher'.task = x /\ dispatcher'.agent = a /\ AgentOf[x] = a
                       /\ Queued(x) /\ Queued(x)' /\ ~Dead(x)
                       /\ \/ dispatcher'.pc = "resolve" /\ x \notin leased
                          \/ dispatcher'.pc = "expireExecution" /\ x \in leased /\ MayExpire(x)
  BY <1>6
<1> HIDE DEF s, q, p
<1>8. PICK x : x = s
  OBVIOUS
<1>9. /\ q # <<>> /\ ~Dead(x) /\ x \in Tasks /\ AgentOf[x] = a /\ x \in Range(q) /\ x \in Range(p)
      /\ dispatcher'.task = x /\ dispatcher'.agent = a
      /\ \/ dispatcher'.pc = "resolve" /\ x \notin leased
         \/ dispatcher'.pc = "expireExecution" /\ x \in leased /\ MayExpire(x)
  BY <1>3, <1>4, <1>5, <1>7, <1>8
<1>10. Queued(x) /\ Queued(x)'
  BY <1>2, <1>9 DEF Queued, p
<1> QED
  BY <1>9, <1>10

-----------------------------------------------------------------------------
(* Whoever is past the queue stays out of it.                              *)

\* A result is delivered, and the handler of a terminal report goes on, only once the
\* task is off its queue.
PastQueue(t) ==
    /\ chan[t] \in Terminal \cup {"closed"} => ~Queued(t)
    /\ \A u \in Reports(t) : u.pc \notin {"net", "ack"} => ~Queued(t)

AllPast == \A t \in Tasks \ Cancellable : PastQueue(t)

\* Where the reports on t that are past the acknowledgement come from.
LEMMA LateReports ==
    ASSUME QueueInv, [Next]_vars, NEW t \in Tasks, NEW v \in Reports(t)', v.pc \notin {"net", "ack"}
    PROVE  \/ v \in Reports(t)
           \/ \E u \in Reports(t) : u.pc \notin {"net", "ack"}
           \/ ~Queued(t)'
<1>1. CASE updates' \subseteq updates
  BY <1>1 DEF Reports
<1>2. ASSUME NEW u \in updates, HandleUpdate(u)
      PROVE  \/ v \in Reports(t)
             \/ \E w \in Reports(t) : w.pc \notin {"net", "ack"}
             \/ ~Queued(t)'
  <2>0. u \in Updates
    BY DEF QueueInv, DispatchTypeOK
  <2>1. CASE UpdateStore(u)
    <3>1. [u EXCEPT !.pc = "ack"].pc = "ack"
      BY <2>0 DEF Updates
    <3> QED
      BY <2>1, <3>1 DEF UpdateStore, UpdateMoves, Reports
  <2>2. CASE UpdateAck(u)
    <3>1. CASE u.task = t
      BY <2>2, <3>1, DequeueKeeps DEF UpdateAck, Acknowledge
    <3>2. CASE u.task # t
      <4>1. [u EXCEPT !.pc = "release"].task = u.task
        BY <2>0 DEF Updates
      <4> QED
        BY <2>2, <3>2, <4>1 DEF UpdateAck, UpdateMoves, Reports
    <3> QED
      BY <3>1, <3>2
  <2>3. CASE u.pc \notin {"net", "ack"}
    BY <2>3, HandlerMoves, <1>2 DEF Reports
  <2> QED
    BY <1>2, <2>1, <2>2, <2>3 DEF HandleUpdate, UpdateRelease, UpdateUnregister, UpdateComplete,
       NotifyLookup, NotifySend
<1>3. CASE DispatchError
  <2> DEFINE s == dispatcher.task
             n == Notification(s, "failed")
             q == queue[dispatcher.agent]
  <2>1. /\ s \in Tasks /\ dispatcher.agent \in Agents /\ AgentOf[s] = dispatcher.agent
        /\ queue \in [Agents -> Seq(Tasks)] /\ q # <<>> /\ s = Head(q)
        /\ QueueSound
    BY <1>3, DispatchedTask DEF DispatchError, QueueInv, HeadDispatched, DispatchTypeOK
  <2>2. CASE queue' = [queue EXCEPT ![dispatcher.agent] = Tail(q)]
    <3>1. /\ queue'[AgentOf[s]] = Tail(q) /\ q \in Seq(Tasks) /\ DOMAIN q = 1..Len(q)
          /\ Len(q) \in Nat /\ 1 \in DOMAIN q /\ q[1] = s
          /\ DOMAIN Tail(q) = 1..(Len(q) - 1)
          /\ \A i \in DOMAIN Tail(q) : i + 1 \in DOMAIN q /\ Tail(q)[i] = q[i + 1] /\ i + 1 # 1
      BY <2>1, <2>2
    <3>2. \A i \in DOMAIN q : q[i] = s => i = 1
      BY <2>1, <3>1 DEF QueueSound
    <3>3. s \notin Range(Tail(q))
      BY <3>1, <3>2 DEF Range
    <3>4. t = s => t \notin Range(queue'[AgentOf[t]])
      BY <3>1, <3>3
    <3>5. n.task = s
      BY DEF Notification
    <3>6. updates' \subseteq updates \cup {n}
      BY <1>3 DEF DispatchError
    <3> QED
      BY <3>4, <3>5, <3>6 DEF Reports, Queued
  <2> QED
    BY <1>1, <1>3, <2>2 DEF DispatchError
<1>4. ASSUME NEW s, NEW st, updates' \subseteq updates \cup {Report(s, st)}
      PROVE  v \in Reports(t)
  BY <1>4 DEF Report, Reports
<1>5. CASE DispatchStep
  BY <1>1, <1>3, <1>5 DEF DispatchStep, ExpireExecution, ExpireRelease, ExpireUnregister, Resolve,
     NoFreeInstance, CatalogError, Acquire, StartRefused, SendStartTask, SendFails, UndoRelease,
     UndoUnregister, FailUnregister, FailExecution
<1>6. CASE User
  BY <1>1, <1>6 DEF User, StartTask, CancelTask, PauseTask, ResumeTask
<1>7. CASE Agent
  BY <1>1, <1>4, <1>7 DEF Agent, AgentStart, AgentDrops, AgentFinish, AgentEnds, AgentCancel,
     AgentHeartbeat, Disconnect, Reconnect
<1>8. ASSUME NEW s \in Tasks, Runner(s) \/ CancelDequeue(s) \/ \E r \in Resources : ResourceEvent(s, r)
      PROVE  updates' \subseteq updates
  BY <1>8 DEF Runner, RunnerRegister, RunnerResult, RunnerCancelled, RunnerWakes,
     RunnerExecution, RunnerRelease, RunnerUnregister, RunnerRemove, CancelDequeue, ResourceEvent
<1>9. ASSUME NEW a \in Agents, VisitAgent(a) \/ DispatchHead(a) \/ BeatStore(a) \/ BeatObserve(a)
      PROVE  updates' \subseteq updates
  BY <1>9 DEF VisitAgent, DispatchHead, BeatStore, BeatObserve
<1>10. UNCHANGED vars => updates' \subseteq updates
  BY DEF vars
<1>11. CASE UNCHANGED vars
  BY <1>1, <1>10, <1>11
<1> QED
  BY <1>1, <1>2, <1>5, <1>6, <1>7, <1>8, <1>9, <1>11 DEF Next

\* Where a delivered result, and a closed channel, come from.
LEMMA LateChannels ==
    ASSUME QueueInv, [Next]_vars, NEW t \in Tasks, RunInv(t), t \notin Cancellable,
           chan'[t] \in Terminal \cup {"closed"}
    PROVE  \/ chan[t] \in Terminal \cup {"closed"}
           \/ \E u \in Reports(t) : NotifySend(u)
<1>0. chan \in [Tasks -> {"none", "empty", "closed"} \cup Terminal]
  BY DEF QueueInv, DispatchTypeOK
<1>1. CASE chan' = chan
  BY <1>1
<1>2. ASSUME NEW u \in updates, NotifySend(u)
      PROVE  chan'[t] # chan[t] => u \in Reports(t)
  BY <1>0, <1>2 DEF NotifySend, Reports
<1>3. ASSUME NEW s \in Tasks, Runner(s)
      PROVE  chan[t] \in Terminal \cup {"closed"}
  <2>1. CASE RunnerRegister(s)
    BY <1>0, <2>1 DEF RunnerRegister, Terminal
  <2>2. CASE RunnerResult(s)
    BY <1>0, <2>2 DEF RunnerResult, RunnerWakes
  <2>3. CASE RunnerCancelled(s)
    BY <1>0, <2>3 DEF RunnerCancelled, RunnerWakes, RunInv
  <2> QED
    BY <1>1, <1>3, <2>1, <2>2, <2>3 DEF Runner, RunnerExecution, RunnerRelease, RunnerUnregister, RunnerRemove
<1>4. CASE DispatchStep
  BY <1>1, <1>4 DEF DispatchStep, ExpireExecution, ExpireRelease, ExpireUnregister, Resolve,
     NoFreeInstance, CatalogError, Acquire, StartRefused, SendStartTask, SendFails, UndoRelease,
     UndoUnregister, FailUnregister, FailExecution, DispatchError, runVars
<1>5. CASE User \/ Agent
  BY <1>1, <1>5 DEF User, StartTask, CancelTask, PauseTask, ResumeTask, Agent, AgentStart, AgentDrops,
     AgentFinish, AgentCancel, AgentHeartbeat, Disconnect, Reconnect, runVars
<1>6. ASSUME NEW u \in updates, HandleUpdate(u)
      PROVE  chan' = chan \/ NotifySend(u)
  BY <1>6 DEF HandleUpdate, UpdateStore, UpdateAck, UpdateRelease, UpdateUnregister,
     UpdateComplete, NotifyLookup, runVars
<1>7. ASSUME NEW s \in Tasks, CancelDequeue(s) \/ \E r \in Resources : ResourceEvent(s, r)
      PROVE  chan' = chan
  BY <1>7 DEF CancelDequeue, ResourceEvent, runVars
<1>8. ASSUME NEW a \in Agents, VisitAgent(a) \/ DispatchHead(a) \/ BeatStore(a) \/ BeatObserve(a)
      PROVE  chan' = chan
  BY <1>8 DEF VisitAgent, DispatchHead, BeatStore, BeatObserve, runVars
<1>9. UNCHANGED vars => chan' = chan
  BY DEF vars, runVars
<1> QED
  BY <1>1, <1>2, <1>3, <1>4, <1>5, <1>6, <1>7, <1>8, <1>9 DEF Next

\* Being past the queue is for good.
LEMMA PastStep ==
    ASSUME QueueInv, AllRun, [Next]_vars, NEW t \in Tasks \ Cancellable, PastQueue(t)
    PROVE  PastQueue(t)'
<1>1. RunInv(t) /\ RunInv(t)'
  BY DispatchRun, RunnerRun, UpdateRun, AgentRun, UserRun, OtherRun DEF AllRun, Next
<1>2. Queued(t)' => Queued(t) \/ StartTask(t)
  BY QueueSteps
<1>3. CASE StartTask(t)
  <2>1. runner[t] = "none" /\ chan' = chan /\ updates' = updates
    BY <1>3 DEF StartTask
  <2>2. Reports(t)' = {} /\ chan'[t] = "none"
    BY <1>1, <2>1 DEF RunInv, Trace, Reports
  <2> QED
    BY <2>2 DEF PastQueue, Terminal
<1>4. CASE ~StartTask(t)
  <2>1. chan'[t] \in Terminal \cup {"closed"} => ~Queued(t)'
    BY <1>1, <1>2, <1>4, LateChannels DEF PastQueue, NotifySend
  <2>2. ASSUME NEW v \in Reports(t)', v.pc \notin {"net", "ack"}
        PROVE  ~Queued(t)'
    BY <1>2, <1>4, <2>2, LateReports DEF PastQueue
  <2> QED
    BY <2>1, <2>2 DEF PastQueue
<1> QED
  BY <1>3, <1>4

\* Of every task that no user cancels.
LEMMA PastInvariance == Spec => []AllPast
<1>1. Init => AllPast
  BY DEF Init, AllPast, PastQueue, Terminal, Reports
<1>2. QueueInv /\ AllRun /\ AllPast /\ [Next]_vars => AllPast'
  BY PastStep DEF AllPast
<1> QED
  BY <1>1, <1>2, QueueInvariance, RunInvariance, PTL DEF Spec

-----------------------------------------------------------------------------
(* What a task holds.                                                      *)

Owns(t) == {r \in Resources : resourceHolds[r].task = t}

\* When a task may hold something: from the reservation on, until runTask or the handler
\* of its terminal report has released it.
Holding(t) ==
    /\ Dispatching(t) => dispatcher.pc \in {"expireExecution", "expireRelease", "acquire", "start",
                                            "undoRelease", "failRelease"}
    /\ Queued(t) /\ t \notin leased => Dispatching(t)
    /\ runner[t] \notin {"none", "unregister", "remove", "done"}
    /\ \A u \in Reports(t) : u.pc # "unregister"

\* What t holds is in its scope, where ReleaseTaskResources finds it.
HoldInv(t) ==
    /\ \A r \in Owns(t) : r \in heldResources[t] /\ resourceHolds[r].agent = AgentOf[t]
    /\ Owns(t) # {} => Holding(t)
    /\ Dispatching(t) /\ dispatcher.pc = "acquire" => t \in taskRuntimeScopes

\* The tasks this holds of: a user cannot cancel them and their behaviour trees take no
\* resources themselves.
Plain == {t \in Tasks \ Cancellable : Events[t] = {}}

AllHold == \A t \in Plain : HoldInv(t)

\* A step leaves alone what t holds.
KeepsHolds(t) ==
    /\ \A r \in Resources : (resourceHolds[r].task = t \/ resourceHolds'[r].task = t)
                               => resourceHolds'[r] = resourceHolds[r]
    /\ heldResources'[t] = heldResources[t]
    /\ t \in taskRuntimeScopes' <=> t \in taskRuntimeScopes

\* So do the resource operations of every other task.
LEMMA OthersKeepHolds ==
    ASSUME ResourceInv, NEW t \in Tasks, NEW s \in Tasks, s # t, NEW a,
           \/ RegisterTaskRuntime(s) \/ UnregisterTaskRuntime(s)
           \/ \E r \in Resources : TryAcquirePlanResource(s, r)
           \/ \E r \in Resources : HandleAcquireEvent(s, a, r) \/ HandleReleaseEvent(s, a, r)
           \/ ReleaseTaskResources(s, a)
           \/ UNCHANGED resourceVars
    PROVE  KeepsHolds(t)
<1>0. /\ resourceHolds \in [Resources -> Hold \cup {NoHold}]
      /\ heldResources \in [Tasks -> SUBSET Resources]
      /\ NoHold.task # t
      /\ \A r \in heldResources[s] : resourceHolds[r].task = s
  BY ResourceAssumption DEF ResourceInv, ResourceTypeOK, NoHold, ScopeSound
<1>1. CASE UNCHANGED resourceVars
  BY <1>1 DEF resourceVars, KeepsHolds
<1>2. CASE RegisterTaskRuntime(s) \/ UnregisterTaskRuntime(s)
  BY <1>0, <1>2 DEF RegisterTaskRuntime, UnregisterTaskRuntime, KeepsHolds
<1>3. ASSUME NEW r \in Resources, NEW b, ~Held(r), RecordHold(s, b, r)
      PROVE  KeepsHolds(t)
  <2> DEFINE hold == [plan |-> PlanOf[s], agent |-> b, task |-> s]
  <2>1. /\ resourceHolds' = [resourceHolds EXCEPT ![r] = hold] /\ resourceHolds[r] = NoHold
        /\ hold.task = s
        /\ heldResources' = IF s \in taskRuntimeScopes
               THEN [heldResources EXCEPT ![s] = @ \cup {r}] ELSE heldResources
        /\ taskRuntimeScopes' = taskRuntimeScopes
    BY <1>3 DEF RecordHold, Held
  <2> HIDE DEF hold
  <2> QED
    BY <1>0, <2>1 DEF KeepsHolds
<1>4. CASE \E r \in Resources : TryAcquirePlanResource(s, r)
  BY <1>1, <1>3, <1>4 DEF TryAcquirePlanResource
<1>5. ASSUME NEW r \in Resources, HandleAcquireEvent(s, a, r)
      PROVE  KeepsHolds(t)
  BY <1>1, <1>3, <1>5 DEF HandleAcquireEvent
<1>6. ASSUME NEW R, DropHolds(R), \A r \in R : resourceHolds[r].task = s,
             heldResources'[t] = heldResources[t]
      PROVE  KeepsHolds(t)
  BY <1>0, <1>6 DEF DropHolds, KeepsHolds
<1>7. ASSUME NEW r \in Resources, HandleReleaseEvent(s, a, r)
      PROVE  KeepsHolds(t)
  BY <1>0, <1>1, <1>6, <1>7 DEF HandleReleaseEvent, OwnedBy
<1>8. CASE ReleaseTaskResources(s, a)
  BY <1>0, <1>6, <1>8 DEF ReleaseTaskResources, Releasable
<1> QED
  BY <1>1, <1>2, <1>4, <1>5, <1>7, <1>8

\* ReleaseTaskResources frees everything its task holds, and scopes alone change no hold.
LEMMA OwnRelease ==
    ASSUME ResourceInv, NEW t \in Tasks, HoldInv(t),
           \/ ReleaseTaskResources(t, AgentOf[t])
           \/ Owns(t) = {} /\ (RegisterTaskRuntime(t) \/ UnregisterTaskRuntime(t) \/ UNCHANGED resourceVars)
    PROVE  Owns(t)' = {}
<1>1. CASE Owns(t) = {} /\ (RegisterTaskRuntime(t) \/ UnregisterTaskRuntime(t) \/ UNCHANGED resourceVars)
  BY <1>1 DEF Owns, RegisterTaskRuntime, UnregisterTaskRuntime, resourceVars
<1>2. CASE ReleaseTaskResources(t, AgentOf[t])
  <2>1. NoHold.task # t
    BY ResourceAssumption DEF NoHold
  <2>2. Owns(t) \subseteq Releasable(t, AgentOf[t])
    BY <2>1 DEF HoldInv, Releasable, Held, Owns
  <2>3. \A r \in Resources : resourceHolds'[r] = IF r \in Releasable(t, AgentOf[t]) THEN NoHold
                                                 ELSE resourceHolds[r]
    BY <1>2 DEF ReleaseTaskResources, DropHolds
  <2> QED
    BY <2>1, <2>2, <2>3 DEF Owns
<1> QED
  BY <1>1, <1>2

\* So much for the holds; what is left of HoldInv is where the task stands.
LEMMA HoldFrame ==
    ASSUME NEW t \in Tasks, HoldInv(t), KeepsHolds(t),
           Owns(t) # {} => Holding(t)',
           Dispatching(t)' /\ dispatcher'.pc = "acquire" => Dispatching(t) /\ dispatcher.pc = "acquire"
    PROVE  HoldInv(t)'
<1>1. Owns(t)' = Owns(t) /\ \A r \in Owns(t) : resourceHolds'[r] = resourceHolds[r]
  BY DEF Owns, KeepsHolds
<1> QED
  BY <1>1 DEF HoldInv, KeepsHolds

\* A task that holds nothing owes nothing.
LEMMA EmptyHold ==
    ASSUME NEW t \in Tasks, Owns(t)' = {}, Dispatching(t)' => dispatcher'.pc # "acquire"
    PROVE  HoldInv(t)'
BY DEF HoldInv

\* The dispatcher: a reservation is taken for a task that holds nothing and is given back,
\* or kept with the lease.
LEMMA DispatchHold ==
    ASSUME QueueInv, AllRun, AllPast, ResourceInv, NEW t \in Plain, HoldInv(t), DispatchStep
    PROVE  HoldInv(t)'
<1>0. /\ t \in Tasks /\ t \notin Cancellable /\ RunInv(t) /\ PastQueue(t)
      /\ dispatcher \in Dispatchers /\ dispatcher.pc \notin {"idle", "loop"}
      /\ dispatcher.task \in Tasks /\ dispatcher.agent = AgentOf[dispatcher.task]
      /\ UNCHANGED runner
  BY DispatchFacts, DispatchedTask DEF Plain, AllRun, AllPast, QueueInv, DispatchTypeOK, runVars
<1>1. Queued(t)' => Queued(t)
  <2>1. [Next]_vars
    BY DEF Next
  <2>2. ~StartTask(t)
    BY <1>0 DEF StartTask, TasksMuFree
  <2> QED
    BY <1>0, <2>1, <2>2, QueueSteps
<1>2. CASE dispatcher.task # t
  <2> DEFINE s == dispatcher.task
  <2>1. \/ RegisterTaskRuntime(s) \/ UnregisterTaskRuntime(s)
        \/ \E r \in Resources : TryAcquirePlanResource(s, r)
        \/ ReleaseTaskResources(s, dispatcher.agent)
        \/ UNCHANGED resourceVars
    BY DEF DispatchStep, ExpireExecution, ExpireRelease, ExpireUnregister, Resolve, NoFreeInstance,
       CatalogError, Acquire, StartRefused, SendStartTask, SendFails, UndoRelease, UndoUnregister,
       FailUnregister, FailExecution, DispatchError
  <2>2. KeepsHolds(t)
    BY <1>0, <1>2, <2>1, OthersKeepHolds
  <2>3. ~Dispatching(t) /\ ~Dispatching(t)'
    BY <1>0, <1>2, DispatchFacts DEF Dispatching, NoDispatch
  <2>4. Holding(t) => Holding(t)'
    BY <1>0, <1>1, <1>2, <2>3, DispatchFacts DEF Holding
  <2> QED
    BY <1>0, <2>2, <2>3, <2>4, HoldFrame DEF HoldInv
<1>3. CASE dispatcher.task = t
  <2>0. /\ Dispatching(t) /\ Queued(t) /\ dispatcher.agent = AgentOf[t] /\ AgentOf[t] \in Agents
        /\ runner[t] \in {"spawned", "waiting"}
        /\ \A u \in Reports(t) : u.pc \in {"net", "ack"}
    <3>1. Dispatching(t) /\ Queued(t) /\ dispatcher.agent = AgentOf[t] /\ AgentOf[t] \in Agents
      BY <1>0, <1>3, DispatchingFacts DEF Dispatching
    <3>2. runner[t] # "none" /\ chan[t] \notin Terminal \cup {"closed"}
      BY <1>0, <3>1, DispatchingFacts DEF PastQueue
    <3>3. chan[t] \in {"none", "empty"} /\ runner[t] \in {"spawned", "waiting"}
      BY <1>0, <3>2 DEF QueueInv, DispatchTypeOK, RunInv
    <3> QED
      BY <1>0, <3>1, <3>3 DEF PastQueue
  <2>1. ASSUME dispatcher.pc \notin {"expireExecution", "expireRelease", "acquire", "start",
                                     "undoRelease", "failRelease"}
        PROVE  Owns(t) = {}
    BY <2>0, <2>1 DEF HoldInv, Holding
  <2>2. CASE ExpireExecution \/ StartRefused
    <3>1. /\ UNCHANGED <<resourceVars, queue, leased, updates>>
          /\ dispatcher'.pc \in {"expireRelease", "undoRelease"} /\ dispatcher'.task = t
      BY <1>0, <1>3, <2>2 DEF ExpireExecution, StartRefused, leaseVars, Dispatchers
    <3>2. KeepsHolds(t)
      BY <3>1 DEF KeepsHolds, resourceVars
    <3>3. Dispatching(t)' /\ dispatcher'.pc # "acquire"
      BY <3>1 DEF Dispatching
    <3>4. Holding(t)'
      BY <1>0, <2>0, <3>1, <3>3 DEF Holding, Reports
    <3> QED
      BY <1>0, <3>2, <3>3, <3>4, HoldFrame
  <2>3. CASE SendFails
    <3>1. /\ UNCHANGED <<resourceVars, queue, updates>>
          /\ dispatcher'.pc = "failRelease" /\ dispatcher'.task = t
      BY <1>0, <1>3, <2>3 DEF SendFails, Dispatchers
    <3>2. KeepsHolds(t)
      BY <3>1 DEF KeepsHolds, resourceVars
    <3>3. Dispatching(t)' /\ dispatcher'.pc # "acquire"
      BY <3>1 DEF Dispatching
    <3>4. Holding(t)'
      BY <1>0, <2>0, <3>1, <3>3 DEF Holding, Reports
    <3> QED
      BY <1>0, <3>2, <3>3, <3>4, HoldFrame
  <2>4. CASE SendStartTask
    <3>1. UNCHANGED <<resourceVars, queue, updates>> /\ dispatcher' = NoDispatch /\ t \in leased'
      BY <1>3, <2>4 DEF SendStartTask, TryStartExecution, DispatchDone
    <3>2. KeepsHolds(t)
      BY <3>1 DEF KeepsHolds, resourceVars
    <3>3. ~Dispatching(t)'
      BY <3>1 DEF Dispatching, NoDispatch
    <3>4. Holding(t)'
      BY <1>0, <2>0, <3>1, <3>3 DEF Holding, Reports
    <3> QED
      BY <1>0, <3>2, <3>3, <3>4, HoldFrame
  <2>5. CASE ExpireRelease \/ UndoRelease
    <3>1. ReleaseTaskResources(t, AgentOf[t]) /\ dispatcher'.pc # "acquire"
      BY <1>0, <1>3, <2>0, <2>5 DEF ExpireRelease, UndoRelease, Dispatchers
    <3> QED
      BY <1>0, <3>1, OwnRelease, EmptyHold
  <2>6. CASE ExpireUnregister \/ UndoUnregister \/ FailUnregister
    <3>1. UnregisterTaskRuntime(t) /\ dispatcher'.pc # "acquire"
      BY <1>0, <1>3, <2>6 DEF ExpireUnregister, UndoUnregister, FailUnregister, DispatchDone,
         NoDispatch, Dispatchers
    <3>2. Owns(t) = {}
      BY <2>1, <2>6 DEF ExpireUnregister, UndoUnregister, FailUnregister
    <3> QED
      BY <1>0, <3>1, <3>2, OwnRelease, EmptyHold
  <2>7. CASE NoFreeInstance \/ CatalogError \/ FailExecution \/ DispatchError
    <3>1. UNCHANGED resourceVars /\ dispatcher'.pc # "acquire"
      BY <1>0, <2>7 DEF NoFreeInstance, CatalogError, FailExecution, DispatchError, DispatchDone,
         NoDispatch, Dispatchers
    <3>2. Owns(t) = {}
      BY <2>1, <2>7 DEF NoFreeInstance, CatalogError, FailExecution, DispatchError
    <3> QED
      BY <1>0, <3>1, <3>2, OwnRelease, EmptyHold
  <2>8. CASE Resolve
    <3>1. RegisterTaskRuntime(t) /\ Owns(t) = {}
      BY <1>3, <2>1, <2>8 DEF Resolve
    <3>2. Owns(t)' = {} /\ t \in taskRuntimeScopes'
      BY <1>0, <3>1, OwnRelease DEF RegisterTaskRuntime
    <3> QED
      BY <3>2 DEF HoldInv
  <2>9. ASSUME NEW r \in Resources, Acquire(r)
        PROVE  HoldInv(t)'
    <3>1. /\ dispatcher.pc = "acquire" /\ TryAcquirePlanResource(t, r)
          /\ UNCHANGED <<queue, leased, updates>>
      BY <1>3, <2>9 DEF Acquire, leaseVars
    <3>2. t \in taskRuntimeScopes
      BY <1>0, <2>0, <3>1 DEF HoldInv
    <3>3. PICK at \in {"undoRelease", "start", "acquire"} :
             dispatcher' = [dispatcher EXCEPT !.todo = @ \ {r}, !.pc = at]
      <4> DEFINE next == IF ~CanAcquire(dispatcher.task, r) THEN "undoRelease"
                         ELSE IF dispatcher.todo = {r} THEN "start" ELSE "acquire"
      <4>1. next \in {"undoRelease", "start", "acquire"}
        OBVIOUS
      <4>2. dispatcher' = [dispatcher EXCEPT !.todo = @ \ {r}, !.pc = next]
        BY <2>9 DEF Acquire
      <4> HIDE DEF next
      <4> QED
        BY <4>1, <4>2
    <3>4. Dispatching(t)' /\ dispatcher'.pc \in {"undoRelease", "start", "acquire"}
      BY <1>0, <1>3, <3>3 DEF Dispatching, Dispatchers
    <3>5. Holding(t)'
      BY <1>0, <2>0, <3>1, <3>4 DEF Holding, Reports
    <3>6. CASE UNCHANGED resourceVars
      <4>1. KeepsHolds(t)
        BY <3>6 DEF resourceVars, KeepsHolds
      <4> QED
        BY <1>0, <2>0, <3>1, <3>5, <4>1, HoldFrame
    <3>7. CASE RecordHold(t, AgentOf[t], r)
      <4> DEFINE hold == [plan |-> PlanOf[t], agent |-> AgentOf[t], task |-> t]
      <4>1. /\ resourceHolds' = [resourceHolds EXCEPT ![r] = hold]
            /\ hold.agent = AgentOf[t]
            /\ heldResources' = [heldResources EXCEPT ![t] = @ \cup {r}]
            /\ taskRuntimeScopes' = taskRuntimeScopes
        BY <3>2, <3>7 DEF RecordHold
      <4> HIDE DEF hold
      <4>2. heldResources'[t] = heldResources[t] \cup {r}
        BY <1>0, <4>1 DEF ResourceInv, ResourceTypeOK
      <4>3. \A x \in Resources : resourceHolds'[x] = IF x = r THEN hold ELSE resourceHolds[x]
        BY <4>1 DEF ResourceInv, ResourceTypeOK
      <4>4. \A x \in Owns(t)' : x \in heldResources'[t] /\ resourceHolds'[x].agent = AgentOf[t]
        BY <4>1, <4>2, <4>3 DEF HoldInv, Owns
      <4> QED
        BY <3>2, <3>5, <4>1, <4>4 DEF HoldInv
    <3> QED
      BY <3>1, <3>6, <3>7 DEF TryAcquirePlanResource
  <2> QED
    BY <2>2, <2>3, <2>4, <2>5, <2>6, <2>7, <2>8, <2>9 DEF DispatchStep
<1> QED
  BY <1>2, <1>3

\* Steps outside the dispatcher that free nothing of t's.
LEMMA HoldStays ==
    ASSUME NEW t \in Tasks, HoldInv(t), KeepsHolds(t), dispatcher' = dispatcher,
           Queued(t)' => Queued(t) /\ (t \in leased => t \in leased'),
           runner'[t] \in {runner[t], "spawned", "waiting", "execution", "release"},
           \A u \in Reports(t)' : u \in Reports(t) \/ u.pc # "unregister"
    PROVE  HoldInv(t)'
<1>1. Dispatching(t)' <=> Dispatching(t)
  BY DEF Dispatching
<1>2. Holding(t) => Holding(t)'
  BY <1>1 DEF Holding
<1> QED
  BY <1>1, <1>2, HoldFrame DEF HoldInv

\* runTask releases before it unregisters.
LEMMA RunnerHold ==
    ASSUME QueueInv, AllRun, AllPast, ResourceInv, NEW t \in Plain, HoldInv(t),
           NEW s \in Tasks, Runner(s)
    PROVE  HoldInv(t)'
<1>0. /\ t \in Tasks /\ t \notin Cancellable /\ RunInv(t) /\ PastQueue(t)
      /\ UNCHANGED <<dispatcher, updates>>
      /\ runner \in [Tasks -> {"none", "spawned", "waiting", "execution", "release", "unregister",
                               "remove", "done"}]
  BY DEF Runner, RunnerRegister, RunnerResult, RunnerCancelled, RunnerWakes, RunnerExecution,
     RunnerRelease, RunnerUnregister, RunnerRemove, Plain, AllRun, AllPast, QueueInv, DispatchTypeOK
<1>1. [Next]_vars
  BY DEF Next
<1>2. ~StartTask(t)
  BY <1>0 DEF Runner, RunnerRegister, RunnerResult, RunnerCancelled, RunnerWakes, RunnerExecution,
     RunnerRelease, RunnerUnregister, RunnerRemove, RunnerMoves, StartTask
<1>3. Queued(t)' => Queued(t)
  BY <1>0, <1>1, <1>2, QueueSteps
<1>4. Reports(t)' = Reports(t) /\ (Dispatching(t)' <=> Dispatching(t))
  BY <1>0 DEF Reports, Dispatching
<1>5. CASE s # t
  <2>1. \/ UnregisterTaskRuntime(s) \/ ReleaseTaskResources(s, AgentOf[s]) \/ UNCHANGED resourceVars
    BY DEF Runner, RunnerRegister, RunnerResult, RunnerCancelled, RunnerWakes, RunnerExecution,
       RunnerRelease, RunnerUnregister, RunnerRemove
  <2>2. KeepsHolds(t)
    BY <1>0, <1>5, <2>1, OthersKeepHolds
  <2>3. runner'[t] = runner[t] /\ (t \in leased => t \in leased')
    BY <1>0, <1>5 DEF Runner, RunnerRegister, RunnerResult, RunnerCancelled, RunnerWakes,
       RunnerExecution, RunnerRelease, RunnerUnregister, RunnerRemove, RunnerMoves, leaseVars
  <2> QED
    BY <1>0, <1>3, <1>4, <2>2, <2>3, HoldStays
<1>6. CASE s = t /\ (RunnerRegister(s) \/ RunnerResult(s) \/ RunnerCancelled(s) \/ RunnerExecution(s))
  <2>1. /\ UNCHANGED <<resourceVars, leased>>
        /\ runner'[t] \in {"waiting", "execution", "release"}
    BY <1>0, <1>6 DEF RunnerRegister, RunnerResult, RunnerCancelled, RunnerWakes, RunnerExecution,
       RunnerMoves, leaseVars
  <2>2. KeepsHolds(t)
    BY <2>1 DEF KeepsHolds, resourceVars
  <2> QED
    BY <1>0, <1>3, <1>4, <2>1, <2>2, HoldStays
<1>7. CASE s = t /\ (RunnerRelease(s) \/ RunnerUnregister(s) \/ RunnerRemove(s))
  <2>1. \/ ReleaseTaskResources(t, AgentOf[t])
        \/ Owns(t) = {} /\ (UnregisterTaskRuntime(t) \/ UNCHANGED resourceVars)
    BY <1>7 DEF RunnerRelease, RunnerUnregister, RunnerRemove, RunnerMoves, HoldInv, Holding
  <2>2. Owns(t)' = {}
    BY <1>0, <2>1, OwnRelease
  <2>3. ~Queued(t)
    BY <1>0, <1>7 DEF RunnerRelease, RunnerUnregister, RunnerRemove, RunnerMoves, RunInv, PastQueue,
       QueueInv, DispatchTypeOK
  <2>4. ~Dispatching(t)
    BY <1>0, <2>3, DispatchingFacts
  <2> QED
    BY <1>0, <1>4, <2>2, <2>4, EmptyHold
<1> QED
  BY <1>5, <1>6, <1>7 DEF Runner

\* So does the handler of a terminal report, which runs only for a task off its queue.
LEMMA UpdateHold ==
    ASSUME QueueInv, AllRun, AllPast, ResourceInv, NEW t \in Plain, HoldInv(t),
           NEW u \in updates, HandleUpdate(u)
    PROVE  HoldInv(t)'
<1>0. /\ t \in Tasks /\ t \notin Cancellable /\ RunInv(t) /\ PastQueue(t)
      /\ UNCHANGED <<dispatcher, runner>> /\ u \in Updates /\ u.task \in Tasks
  BY HandlerMoves DEF HandleUpdate, UpdateStore, UpdateAck, UpdateRelease, UpdateUnregister,
     UpdateComplete, NotifyLookup, NotifySend, Plain, AllRun, AllPast, runVars
<1>1. [Next]_vars
  BY DEF Next
<1>2. Queued(t)' => Queued(t) /\ (t \in leased => t \in leased')
  <2>1. CASE UpdateAck(u) /\ u.task = t
    BY <1>0, <2>1, DequeueKeeps DEF UpdateAck, Acknowledge
  <2>2. CASE ~(UpdateAck(u) /\ u.task = t)
    <3>1. t \in leased => t \in leased'
      BY <2>2 DEF HandleUpdate, UpdateStore, UpdateAck, Acknowledge, UpdateRelease, UpdateUnregister,
         UpdateComplete, NotifyLookup, NotifySend, leaseVars
    <3>2. ~StartTask(t)
      BY <1>0 DEF StartTask, QueueInv, DispatchTypeOK
    <3> QED
      BY <1>0, <1>1, <3>1, <3>2, QueueSteps
  <2> QED
    BY <2>1, <2>2
<1>3. Dispatching(t)' <=> Dispatching(t)
  BY <1>0 DEF Dispatching
<1>4. CASE u.task # t
  <2>1. \/ UnregisterTaskRuntime(u.task) \/ ReleaseTaskResources(u.task, AgentOf[u.task])
        \/ UNCHANGED resourceVars
    BY DEF HandleUpdate, UpdateStore, UpdateAck, UpdateRelease, UpdateUnregister,
       UpdateComplete, NotifyLookup, NotifySend
  <2>2. KeepsHolds(t)
    BY <1>0, <1>4, <2>1, OthersKeepHolds
  <2>3. Reports(t)' \subseteq Reports(t)
    BY <1>4, HandlerMoves DEF Reports
  <2> QED
    BY <1>0, <1>2, <2>2, <2>3, HoldStays
<1>5. CASE u.task = t /\ (UpdateRelease(u) \/ UpdateUnregister(u))
  <2>1. \/ ReleaseTaskResources(t, AgentOf[t])
        \/ Owns(t) = {} /\ UnregisterTaskRuntime(t)
    BY <1>5 DEF UpdateRelease, UpdateUnregister, HoldInv, Holding, Reports
  <2>2. Owns(t)' = {}
    BY <1>0, <2>1, OwnRelease
  <2>3. ~Queued(t)
    BY <1>0, <1>5 DEF UpdateRelease, UpdateUnregister, PastQueue, Reports
  <2>4. ~Dispatching(t)
    BY <1>0, <2>3, DispatchingFacts
  <2> QED
    BY <1>0, <1>3, <2>2, <2>4, EmptyHold
<1>6. CASE u.task = t /\ ~UpdateRelease(u) /\ ~UpdateUnregister(u)
  <2>1. UNCHANGED resourceVars
    BY <1>6 DEF HandleUpdate, UpdateStore, UpdateAck, UpdateComplete, NotifyLookup, NotifySend
  <2>2. KeepsHolds(t)
    BY <2>1 DEF KeepsHolds, resourceVars
  <2>3. \A x : [u EXCEPT !.pc = x].pc = x
    BY <1>0 DEF Updates
  <2>4. \/ updates' = updates \ {u}
        \/ \E x \in {"ack", "release", "lookup", "send"} : UpdateMoves(u, x)
    BY <1>6 DEF HandleUpdate, UpdateStore, UpdateAck, UpdateComplete, NotifyLookup, NotifySend,
       UpdateEnds
  <2>5. \A v \in Reports(t)' : v \in Reports(t) \/ v.pc # "unregister"
    BY <2>3, <2>4 DEF UpdateMoves, Reports
  <2> QED
    BY <1>0, <1>2, <2>2, <2>5, HoldStays
<1> QED
  BY <1>4, <1>5, <1>6

\* The other steps: queues, heartbeats, events of other tasks, users and agents.
LEMMA OtherHold ==
    ASSUME QueueInv, AllRun, AllPast, ResourceInv, NEW t \in Plain, HoldInv(t),
           \/ User \/ Agent
           \/ \E s \in Tasks : CancelDequeue(s)
           \/ \E a \in Agents : VisitAgent(a) \/ DispatchHead(a) \/ BeatStore(a) \/ BeatObserve(a)
           \/ \E s \in Tasks, r \in Resources : ResourceEvent(s, r)
           \/ UNCHANGED vars
    PROVE  HoldInv(t)'
<1>0. /\ t \in Tasks /\ t \notin Cancellable /\ RunInv(t) /\ PastQueue(t) /\ Events[t] = {}
      /\ [Next]_vars /\ t # NoTask
  BY ResourceAssumption DEF Plain, AllRun, AllPast, Next
<1>1. UNCHANGED resourceVars => KeepsHolds(t)
  BY DEF KeepsHolds, resourceVars
<1>2. CASE StartTask(t)
  <2>1. Owns(t) = {} /\ UNCHANGED <<dispatcher, resourceVars>> /\ dispatcher.pc = "idle"
    BY <1>2 DEF StartTask, TasksMuFree, HoldInv, Holding
  <2>2. Owns(t)' = {} /\ ~Dispatching(t)'
    BY <1>0, <2>1, OwnRelease DEF Dispatching
  <2> QED
    BY <1>0, <2>2, EmptyHold
<1>3. ~StartTask(t) => (Queued(t)' => Queued(t))
  BY <1>0, QueueSteps
<1>4. CASE User /\ ~StartTask(t)
  <2>1. UNCHANGED <<dispatcher, resourceVars, leased, updates>>
    BY <1>4 DEF User, StartTask, CancelTask, PauseTask, ResumeTask, leaseVars
  <2>2. runner'[t] = runner[t]
    BY <1>0, <1>4 DEF User, StartTask, CancelTask, PauseTask, ResumeTask, runVars, QueueInv,
       DispatchTypeOK
  <2> QED
    BY <1>0, <1>1, <1>3, <1>4, <2>1, <2>2, HoldStays DEF Reports
<1>5. CASE Agent /\ ~StartTask(t)
  <2>1. UNCHANGED <<dispatcher, resourceVars, leased, runner, queue>>
    BY <1>5 DEF Agent, AgentStart, AgentDrops, AgentFinish, AgentCancel, AgentHeartbeat, Disconnect,
       Reconnect, leaseVars, runVars
  <2>2. \/ updates' \subseteq updates
        \/ \E s, st : updates' = updates \cup {Report(s, st)}
    BY <1>5 DEF Agent, AgentStart, AgentDrops, AgentFinish, AgentEnds, AgentCancel, AgentHeartbeat,
       Disconnect, Reconnect
  <2>3. \A v \in Reports(t)' : v \in Reports(t) \/ v.pc # "unregister"
    BY <2>2 DEF Reports, Report
  <2> QED
    BY <1>0, <1>1, <1>3, <1>5, <2>1, <2>3, HoldStays
<1>6. ASSUME NEW s \in Tasks, CancelDequeue(s), ~StartTask(t)
      PROVE  HoldInv(t)'
  <2>1. UNCHANGED <<dispatcher, resourceVars, leased, updates, runner>>
    BY <1>6 DEF CancelDequeue, leaseVars
  <2> QED
    BY <1>0, <1>1, <1>3, <1>6, <2>1, HoldStays DEF Reports
<1>7. ASSUME NEW a \in Agents, VisitAgent(a) \/ BeatStore(a), ~StartTask(t)
      PROVE  HoldInv(t)'
  <2>1. UNCHANGED <<dispatcher, resourceVars, leased, updates, runner>>
    BY <1>7 DEF VisitAgent, BeatStore, leaseVars, runVars
  <2> QED
    BY <1>0, <1>1, <1>3, <1>7, <2>1, HoldStays DEF Reports
<1>8. ASSUME NEW a \in Agents, BeatObserve(a), ~StartTask(t)
      PROVE  HoldInv(t)'
  <2>1. UNCHANGED <<dispatcher, resourceVars, updates, runner>>
    BY <1>8 DEF BeatObserve, runVars
  <2>2. Queued(t)' => (t \in leased => t \in leased')
    <3>1. CASE beat[a].task = t
      BY <1>0, <1>8, <3>1, DequeueKeeps DEF BeatObserve, Acknowledge
    <3>2. CASE beat[a].task # t
      BY <1>8, <3>2 DEF BeatObserve, Acknowledge
    <3> QED
      BY <3>1, <3>2
  <2> QED
    BY <1>0, <1>1, <1>3, <1>8, <2>1, <2>2, HoldStays DEF Reports
<1>9. ASSUME NEW s \in Tasks, NEW r \in Resources, ResourceEvent(s, r), ~StartTask(t)
      PROVE  HoldInv(t)'
  <2>1. UNCHANGED <<dispatcher, leased, updates, runner>> /\ s # t
        /\ (HandleAcquireEvent(s, AgentOf[s], r) \/ HandleReleaseEvent(s, AgentOf[s], r))
    BY <1>0, <1>9 DEF ResourceEvent, leaseVars, runVars
  <2>2. KeepsHolds(t)
    BY <1>0, <2>1, OthersKeepHolds
  <2> QED
    BY <1>0, <1>3, <1>9, <2>1, <2>2, HoldStays DEF Reports
<1>10. ASSUME NEW a \in Agents, DispatchHead(a), ~StartTask(t)
       PROVE  HoldInv(t)'
  <2>0. UNCHANGED <<resourceVars, leased, updates, runner>> /\ dispatcher.pc \in {"idle", "loop"}
    BY <1>10 DEF DispatchHead, leaseVars, runVars, TasksMuFree
  <2>1. KeepsHolds(t) /\ ~Dispatching(t)
    BY <1>1, <2>0 DEF Dispatching
  <2>2. \/ dispatcher' = NoDispatch
        \/ dispatcher'.task # t
        \/ dispatcher'.pc = "resolve" /\ t \notin leased /\ Queued(t)'
        \/ dispatcher'.pc = "expireExecution"
    BY <1>10, HeadFacts
  <2>3. CASE Owns(t) # {}
    <3>1. ~(Queued(t) /\ t \notin leased) /\ Holding(t)
      BY <2>1, <2>3 DEF HoldInv, Holding
    <3>2. Dispatching(t)' => dispatcher'.pc = "expireExecution"
      BY <1>3, <1>10, <2>2, <3>1 DEF Dispatching, NoDispatch
    <3>3. Holding(t)'
      BY <1>3, <1>10, <2>0, <3>1, <3>2 DEF Holding, Reports
    <3> QED
      BY <1>0, <2>1, <3>2, <3>3, HoldFrame
  <2>4. CASE Owns(t) = {}
    <3>1. Owns(t)' = {}
      BY <1>0, <2>0, <2>4, OwnRelease
    <3>2. Dispatching(t)' => dispatcher'.pc # "acquire"
      BY <2>2 DEF Dispatching, NoDispatch
    <3> QED
      BY <1>0, <3>1, <3>2, EmptyHold
  <2> QED
    BY <2>3, <2>4
<1>11. CASE UNCHANGED vars
  <2>1. UNCHANGED <<dispatcher, resourceVars, leased, updates, runner, queue>>
    BY <1>11 DEF vars, leaseVars, runVars
  <2> QED
    BY <1>0, <1>1, <2>1, HoldStays DEF Reports, Queued
<1> QED
  BY <1>2, <1>4, <1>5, <1>6, <1>7, <1>8, <1>9, <1>10, <1>11

\* A task that cannot be cancelled holds only what its scope lists, and that only while it is
\* being dispatched, started or executed.
LEMMA HoldInvariance == Spec => []AllHold
<1>1. Init => AllHold
  BY ResourceAssumption DEF Init, ResourceInit, AllHold, Plain, HoldInv, Owns, NoHold, Dispatching,
     NoDispatch
<1>2. QueueInv /\ AllRun /\ AllPast /\ ResourceInv /\ AllHold /\ [Next]_vars => AllHold'
  BY DispatchHold, RunnerHold, UpdateHold, OtherHold DEF AllHold, Next
<1> QED
  BY <1>1, <1>2, QueueInvariance, RunInvariance, PastInvariance, DispatchKeepsResourceInv, PTL DEF Spec

\* Whether t's scope is registered, or the instances that it was bound to are stored.
Scoped(t) == t \in taskRuntimeScopes \/ bindings[t] # {}

\* A task has a scope and bindings only from its reservation on, until the dispatcher that
\* turns it back has dropped them; a task cancelled or with events of its own is no exception.
ScopeInv(t) == Scoped(t) =>
    /\ Dispatching(t) => dispatcher.pc \in {"expireExecution", "expireRelease", "expireUnregister",
                                            "acquire", "start", "undoRelease", "undoUnregister",
                                            "failRelease", "failUnregister"}
    /\ Queued(t) /\ t \notin leased => Dispatching(t)
    /\ runner[t] # "none"

AllScoped == \A t \in Tasks : ScopeInv(t)

\* Taking and giving back resources registers no scope and drops none.
LEMMA HoldsLeaveScopes ==
    ASSUME NEW s, NEW a,
           \/ ReleaseTaskResources(s, a)
           \/ \E r \in Resources : \/ TryAcquirePlanResource(s, r)
                                  \/ HandleAcquireEvent(s, a, r) \/ HandleReleaseEvent(s, a, r)
    PROVE  taskRuntimeScopes' = taskRuntimeScopes
<1>1. CASE ReleaseTaskResources(s, a)
  BY <1>1 DEF ReleaseTaskResources, DropHolds
<1>2. ASSUME NEW r \in Resources, TryAcquirePlanResource(s, r) \/ HandleAcquireEvent(s, a, r)
      PROVE  taskRuntimeScopes' = taskRuntimeScopes
  BY <1>2 DEF TryAcquirePlanResource, HandleAcquireEvent, RecordHold, resourceVars
<1>3. ASSUME NEW r \in Resources, HandleReleaseEvent(s, a, r)
      PROVE  taskRuntimeScopes' = taskRuntimeScopes
  BY <1>3 DEF HandleReleaseEvent, DropHolds, resourceVars
<1> QED
  BY <1>1, <1>2, <1>3

\* Steps outside the dispatcher register no scope and bind nothing.
LEMMA ScopeStays ==
    ASSUME NEW t \in Tasks, ScopeInv(t), dispatcher' = dispatcher, bindings' = bindings,
           taskRuntimeScopes' \subseteq taskRuntimeScopes,
           Scoped(t) /\ Queued(t)' => Queued(t) /\ (t \in leased => t \in leased'),
           runner[t] # "none" => runner'[t] # "none"
    PROVE  ScopeInv(t)'
<1>1. Scoped(t)' => Scoped(t)
  BY DEF Scoped
<1>2. Dispatching(t)' <=> Dispatching(t)
  BY DEF Dispatching
<1> QED
  BY <1>1, <1>2 DEF ScopeInv

\* The dispatcher registers the scope when it begins the reservation, and drops it and the
\* bindings before it puts a task back.
LEMMA DispatchScope ==
    ASSUME QueueInv, NEW t \in Tasks, ScopeInv(t), DispatchStep
    PROVE  ScopeInv(t)'
<1>0. /\ dispatcher \in Dispatchers /\ dispatcher.pc \notin {"idle", "loop"}
      /\ dispatcher.task \in Tasks /\ bindings \in [Tasks -> SUBSET Resources]
      /\ UNCHANGED runner
  BY DispatchFacts, DispatchedTask DEF QueueInv, DispatchTypeOK, runVars
<1>1. Queued(t)' => Queued(t)
  <2>1. [Next]_vars
    BY DEF Next
  <2>2. ~StartTask(t)
    BY <1>0 DEF StartTask, TasksMuFree
  <2> QED
    BY <2>1, <2>2, QueueSteps
<1>2. CASE dispatcher.task # t
  <2>1. ~Dispatching(t) /\ ~Dispatching(t)'
    BY <1>0, <1>2, DispatchFacts DEF Dispatching, NoDispatch
  <2>5. \/ RegisterTaskRuntime(dispatcher.task) \/ UnregisterTaskRuntime(dispatcher.task)
        \/ \E r \in Resources : TryAcquirePlanResource(dispatcher.task, r)
        \/ ReleaseTaskResources(dispatcher.task, dispatcher.agent)
        \/ UNCHANGED resourceVars
    BY DEF DispatchStep, ExpireExecution, ExpireRelease, ExpireUnregister, Resolve, NoFreeInstance,
       CatalogError, Acquire, StartRefused, SendStartTask, SendFails, UndoRelease, UndoUnregister,
       FailUnregister, FailExecution, DispatchError
  <2>2. \/ RegisterTaskRuntime(dispatcher.task) \/ UnregisterTaskRuntime(dispatcher.task)
        \/ taskRuntimeScopes' = taskRuntimeScopes
    BY <2>5, HoldsLeaveScopes DEF resourceVars
  <2>3. t \in taskRuntimeScopes' => t \in taskRuntimeScopes
    BY <1>2, <2>2 DEF RegisterTaskRuntime, UnregisterTaskRuntime
  <2>4. bindings'[t] = bindings[t] /\ (t \in leased' <=> t \in leased)
    BY <1>2, DispatchFacts
  <2> QED
    BY <1>0, <1>1, <2>1, <2>3, <2>4 DEF ScopeInv, Scoped
<1>3. CASE dispatcher.task = t
  <2>0. Dispatching(t) /\ runner[t] # "none"
    BY <1>0, <1>3, DispatchingFacts DEF Dispatching
  <2>1. CASE ExpireExecution \/ ExpireRelease \/ StartRefused \/ SendFails \/ UndoRelease
    <3>1. /\ dispatcher'.pc \in {"expireRelease", "expireUnregister", "undoRelease", "failRelease",
                                 "undoUnregister", "failUnregister"}
          /\ dispatcher'.task = t
      BY <1>0, <1>3, <2>1 DEF ExpireExecution, ExpireRelease, StartRefused, SendFails, UndoRelease,
         Dispatchers
    <3> QED
      BY <1>0, <2>0, <3>1 DEF ScopeInv, Dispatching
  <2>2. CASE SendStartTask
    <3>1. dispatcher' = NoDispatch /\ t \in leased'
      BY <1>3, <2>2 DEF SendStartTask, TryStartExecution, DispatchDone
    <3> QED
      BY <1>0, <2>0, <3>1 DEF ScopeInv, Dispatching, NoDispatch
  <2>3. CASE ExpireUnregister \/ UndoUnregister \/ FailUnregister
    <3>1. UnregisterTaskRuntime(t) /\ bindings' = [bindings EXCEPT ![t] = {}]
      BY <1>3, <2>3 DEF ExpireUnregister, UndoUnregister, FailUnregister
    <3>2. ~Scoped(t)'
      BY <1>0, <3>1 DEF UnregisterTaskRuntime, Scoped
    <3> QED
      BY <3>2 DEF ScopeInv
  <2>4. CASE NoFreeInstance \/ CatalogError \/ FailExecution \/ DispatchError
    <3>1. /\ UNCHANGED <<taskRuntimeScopes, bindings>>
          /\ dispatcher.pc \in {"resolve", "failExecution", "error"}
      BY <2>4 DEF NoFreeInstance, CatalogError, FailExecution, DispatchError, resourceVars, taskVars
    <3>2. ~Scoped(t)'
      BY <2>0, <3>1 DEF ScopeInv, Scoped
    <3> QED
      BY <3>2 DEF ScopeInv
  <2>5. CASE Resolve
    <3>1. dispatcher'.pc \in {"start", "acquire"} /\ dispatcher'.task = t
      BY <1>0, <1>3, <2>5 DEF Resolve, Dispatchers
    <3> QED
      BY <1>0, <2>0, <3>1 DEF ScopeInv, Dispatching
  <2>6. ASSUME NEW r \in Resources, Acquire(r)
        PROVE  ScopeInv(t)'
    <3>1. dispatcher'.pc \in {"undoRelease", "start", "acquire"} /\ dispatcher'.task = t
      BY <1>0, <1>3, <2>6 DEF Acquire, Dispatchers
    <3> QED
      BY <1>0, <2>0, <3>1 DEF ScopeInv, Dispatching
  <2> QED
    BY <2>1, <2>2, <2>3, <2>4, <2>5, <2>6 DEF DispatchStep
<1> QED
  BY <1>2, <1>3

\* The other steps take a task off its queue before they forget its lease.
LEMMA OtherScope ==
    ASSUME QueueInv, NEW t \in Tasks, ScopeInv(t), [Next]_vars, ~DispatchStep
    PROVE  ScopeInv(t)'
<1>0. /\ runner \in [Tasks -> {"none", "spawned", "waiting", "execution", "release", "unregister",
                               "remove", "done"}]
      /\ t # NoTask
  BY ResourceAssumption DEF QueueInv, DispatchTypeOK
<1>1. Queued(t)' => Queued(t) \/ StartTask(t)
  BY QueueSteps
<1>2. StartTask(t) => ~Scoped(t)
  BY DEF StartTask, ScopeInv
<1>3. CASE User \/ Agent \/ UNCHANGED vars \/ \E s \in Tasks : CancelDequeue(s)
  <2>1. UNCHANGED <<dispatcher, bindings, taskRuntimeScopes, leased>>
    BY <1>3 DEF User, StartTask, CancelTask, PauseTask, ResumeTask, Agent, AgentStart, AgentDrops,
       AgentFinish, AgentCancel, AgentHeartbeat, Disconnect, Reconnect, CancelDequeue, vars,
       resourceVars, taskVars, leaseVars
  <2>2. runner[t] # "none" => runner'[t] # "none"
    BY <1>0, <1>3 DEF User, StartTask, CancelTask, PauseTask, ResumeTask, Agent, AgentStart,
       AgentDrops, AgentFinish, AgentCancel, AgentHeartbeat, Disconnect, Reconnect, CancelDequeue,
       vars, runVars
  <2> QED
    BY <1>1, <1>2, <2>1, <2>2, ScopeStays
<1>4. ASSUME NEW s \in Tasks, Runner(s) PROVE ScopeInv(t)'
  <2>4. \/ UnregisterTaskRuntime(s) \/ ReleaseTaskResources(s, AgentOf[s]) \/ UNCHANGED resourceVars
    BY <1>4 DEF Runner, RunnerRegister, RunnerResult, RunnerCancelled, RunnerWakes, RunnerExecution,
       RunnerRelease, RunnerUnregister, RunnerRemove
  <2>5. taskRuntimeScopes' \subseteq taskRuntimeScopes
    BY <2>4, HoldsLeaveScopes DEF UnregisterTaskRuntime, resourceVars
  <2>1. UNCHANGED <<dispatcher, bindings>> /\ taskRuntimeScopes' \subseteq taskRuntimeScopes
    BY <1>4, <2>5 DEF Runner, RunnerRegister, RunnerResult, RunnerCancelled, RunnerWakes,
       RunnerExecution, RunnerRelease, RunnerUnregister, RunnerRemove, taskVars
  <2>2. runner[t] # "none" => runner'[t] # "none"
    BY <1>0, <1>4 DEF Runner, RunnerRegister, RunnerResult, RunnerCancelled, RunnerWakes,
       RunnerExecution, RunnerRelease, RunnerUnregister, RunnerRemove, RunnerMoves
  <2>3. Queued(t)' => (t \in leased => t \in leased')
    <3>1. CASE RunnerRemove(s) /\ s = t
      BY <3>1, DequeueKeeps DEF RunnerRemove
    <3>2. CASE ~ (RunnerRemove(s) /\ s = t)
      BY <1>4, <3>2 DEF Runner, RunnerRegister, RunnerResult, RunnerCancelled, RunnerWakes,
         RunnerExecution, RunnerRelease, RunnerUnregister, RunnerRemove, leaseVars
    <3> QED
      BY <3>1, <3>2
  <2> QED
    BY <1>1, <1>2, <2>1, <2>2, <2>3, ScopeStays
<1>5. ASSUME NEW u \in updates, HandleUpdate(u) PROVE ScopeInv(t)'
  <2>3. \/ UnregisterTaskRuntime(u.task) \/ ReleaseTaskResources(u.task, AgentOf[u.task])
        \/ UNCHANGED resourceVars
    BY <1>5 DEF HandleUpdate, UpdateStore, UpdateAck, UpdateRelease, UpdateUnregister,
       UpdateComplete, NotifyLookup, NotifySend
  <2>4. taskRuntimeScopes' \subseteq taskRuntimeScopes
    BY <2>3, HoldsLeaveScopes DEF UnregisterTaskRuntime, resourceVars
  <2>1. /\ UNCHANGED <<dispatcher, bindings, runner>>
        /\ taskRuntimeScopes' \subseteq taskRuntimeScopes
    BY <1>5, <2>4 DEF HandleUpdate, UpdateStore, UpdateAck, UpdateRelease, UpdateUnregister,
       UpdateComplete, NotifyLookup, NotifySend, taskVars, runVars
  <2>2. Queued(t)' => (t \in leased => t \in leased')
    <3>0. u.task \in Tasks
      BY <1>5, HandlerMoves
    <3>1. CASE UpdateAck(u) /\ u.task = t
      BY <3>1, DequeueKeeps DEF UpdateAck, Acknowledge
    <3>2. CASE ~ (UpdateAck(u) /\ u.task = t)
      BY <1>5, <3>2 DEF HandleUpdate, UpdateStore, UpdateAck, Acknowledge, UpdateRelease,
         UpdateUnregister, UpdateComplete, NotifyLookup, NotifySend, leaseVars
    <3> QED
      BY <3>1, <3>2
  <2> QED
    BY <1>1, <1>2, <2>1, <2>2, ScopeStays
<1>6. ASSUME NEW a \in Agents, VisitAgent(a) \/ BeatStore(a) \/ BeatObserve(a) PROVE ScopeInv(t)'
  <2>1. UNCHANGED <<dispatcher, bindings, runner, taskRuntimeScopes>>
    BY <1>6 DEF VisitAgent, BeatStore, BeatObserve, resourceVars, taskVars, runVars
  <2>2. Queued(t)' => (t \in leased => t \in leased')
    <3>1. CASE BeatObserve(a) /\ beat[a].task = t
      BY <1>0, <3>1, DequeueKeeps DEF BeatObserve, Acknowledge
    <3>2. CASE ~ (BeatObserve(a) /\ beat[a].task = t)
      BY <1>6, <3>2 DEF VisitAgent, BeatStore, BeatObserve, Acknowledge, leaseVars
    <3> QED
      BY <3>1, <3>2
  <2> QED
    BY <1>1, <1>2, <2>1, <2>2, ScopeStays
<1>7. ASSUME NEW s \in Tasks, NEW r \in Resources, ResourceEvent(s, r) PROVE ScopeInv(t)'
  <2>1. UNCHANGED <<dispatcher, bindings, runner, taskRuntimeScopes, leased>>
    BY <1>7, HoldsLeaveScopes DEF ResourceEvent, taskVars, leaseVars, runVars
  <2> QED
    BY <1>1, <1>2, <2>1, ScopeStays
<1>8. ASSUME NEW a \in Agents, DispatchHead(a) PROVE ScopeInv(t)'
  <2>1. /\ UNCHANGED <<taskRuntimeScopes, bindings, leased, runner>>
        /\ dispatcher.pc \in {"idle", "loop"}
    BY <1>8 DEF DispatchHead, resourceVars, taskVars, leaseVars, runVars, TasksMuFree
  <2>2. ~Dispatching(t) /\ ~StartTask(t)
    BY <1>8, <2>1 DEF Dispatching, StartTask, DispatchHead, QueueInv, DispatchTypeOK
  <2>3. \/ dispatcher' = NoDispatch
        \/ dispatcher'.task # t
        \/ dispatcher'.pc = "resolve" /\ t \notin leased /\ Queued(t)'
        \/ dispatcher'.pc = "expireExecution"
    BY <1>8, HeadFacts
  <2>4. Scoped(t)' => Scoped(t)
    BY <2>1 DEF Scoped
  <2> QED
    BY <1>1, <2>1, <2>2, <2>3, <2>4 DEF ScopeInv, Dispatching, NoDispatch
<1> QED
  BY <1>3, <1>4, <1>5, <1>6, <1>7, <1>8 DEF Next

LEMMA ScopeInvariance == Spec => []AllScoped
<1>1. Init => AllScoped
  BY DEF Init, ResourceInit, AllScoped, ScopeInv, Scoped
<1>2. QueueInv /\ AllScoped /\ [Next]_vars => AllScoped'
  BY DispatchScope, OtherScope DEF AllScoped
<1> QED
  BY <1>1, <1>2, QueueInvariance, PTL DEF Spec

\* QueuedHoldsNothing: a task that waits in the queue holds nothing and has neither a scope
\* nor bindings, whichever step of a dispatch turned it back, whatever the network loses and
\* whatever the agents answer, if no task is cancelled or takes resources from its tree.
THEOREM QueuedHoldsNothingCorrect ==
    ASSUME Plain = Tasks
    PROVE  Spec => []QueuedHoldsNothing
<1>1. AllHold /\ AllScoped => QueuedHoldsNothing
  BY DEF AllHold, HoldInv, Holding, Owns, AllScoped, ScopeInv, Scoped, QueuedHoldsNothing,
     Dispatching, TasksMuFree
<1> QED
  BY <1>1, HoldInvariance, ScopeInvariance, PTL

\* NoLeakedHold: when runTask is through, its task holds nothing, also after lost connections,
\* expired leases, repeated dispatches and reports that arrive late or twice.
THEOREM NoLeakedHoldCorrect ==
    ASSUME Plain = Tasks
    PROVE  Spec => []NoLeakedHold
<1>1. AllHold => NoLeakedHold
  BY DEF AllHold, HoldInv, Holding, Owns, NoLeakedHold
<1> QED
  BY <1>1, HoldInvariance, PTL

-----------------------------------------------------------------------------
(* No task is forgotten.                                                   *)

\* runTask has not woken up yet.
Live(t) == runner[t] \in {"spawned", "waiting"}

\* The agent executes t or has said something about it.
Heard(t) == t \in running[AgentOf[t]] \/ \E u \in Reports(t) : u.by = "agent"

\* What will end the wait of a task that was sent to its agent.
Linked(t) ==
    \/ StartMsg(t) \in inbox
    \/ t \in running[AgentOf[t]]
    \/ \E u \in Endings(t) : u.by = "agent"
    \/ chan[t] \in Terminal

LossInv(t) ==
    /\ Trace(t) => t \in sent
    /\ t \notin sent => attempts[t] = 0
    /\ t \notin sent /\ Live(t) => status[t] \notin Terminal
    /\ t \notin sent /\ Live(t) /\ t \notin ctxDone => Queued(t)
    /\ Heard(t) => runner[t] # "spawned"
    /\ t \in sent /\ Live(t) /\ t \notin ctxDone => Linked(t)

\* No message was lost so far.
Intact == drops = 0 /\ ~Lossy

LinkInv ==
    /\ connected = Agents
    /\ dispatcher.pc \notin {"failRelease", "failUnregister", "failExecution"}

AllLoss == Intact => \A t \in Tasks : LinkInv /\ LossInv(t)

\* A step that keeps what is known of t, and its channel.
LEMMA LossFrame ==
    ASSUME NEW t \in Tasks, LossInv(t),
           t \in sent => t \in sent',
           t \in sent' => t \in sent \/ Linked(t)',
           Trace(t)' => Trace(t) \/ t \in sent',
           attempts'[t] \in {0, attempts[t]} \/ t \in sent',
           Live(t)' => Live(t) /\ (t \in ctxDone => t \in ctxDone'),
           status'[t] \in Terminal => status[t] \in Terminal \/ ~Live(t)' \/ t \in sent',
           t \notin sent' /\ Live(t)' /\ t \notin ctxDone' => Queued(t)',
           Heard(t)' /\ runner'[t] = "spawned" => Heard(t) /\ runner[t] = "spawned",
           Linked(t) /\ Live(t)' => Linked(t)'
    PROVE  LossInv(t)'
BY DEF LossInv

\* A task that was never sent leaves its queue only when it is cancelled.
LEMMA LossQueue ==
    ASSUME QueueInv, [Next]_vars, NEW t \in Tasks, RunInv(t), LossInv(t),
           t \notin sent, Live(t), t \notin ctxDone
    PROVE  Queued(t)'
<1>1. Queued(t) /\ ~Trace(t) /\ attempts[t] # MaxDispatchAttempts /\ status[t] \notin Terminal
  BY DispatchAssumption DEF LossInv
<1>2. t \in tasks /\ canceller[t] = "none" /\ ~Dead(t)
  BY <1>1 DEF RunInv, Live, Dead
<1>3. ~CancelDequeue(t) /\ ~RunnerRemove(t)
  BY <1>2 DEF CancelDequeue, RunnerRemove, RunnerMoves, Live
<1>4. \A u \in updates : u.task # t
  BY <1>1 DEF Trace, Reports
<1>5. \A a \in Agents : beat[a].task # t
  BY <1>1 DEF Trace
<1>6. ~Leaves(t)
  BY <1>1, <1>2, <1>3, <1>4, <1>5 DEF Leaves
<1> QED
  BY <1>1, <1>6, QueueSteps

\* The dispatcher, with every agent connected.
LEMMA DispatchLoss ==
    ASSUME QueueInv, NEW t \in Tasks, RunInv(t), LinkInv, LossInv(t), DispatchStep
    PROVE  LinkInv' /\ LossInv(t)'
<1>0. /\ dispatcher \in Dispatchers /\ dispatcher.agent \in Agents /\ dispatcher.task \in Tasks
      /\ attempts \in [Tasks -> 0..MaxDispatchAttempts] /\ status \in [Tasks -> Statuses]
      /\ UNCHANGED <<runner, chan, ctxDone, beat, running, connected>>
      /\ [Next]_vars
  BY DispatchFacts, DispatchedTask DEF QueueInv, DispatchTypeOK, runVars, Next
<1>1. ~SendFails /\ ~FailUnregister /\ ~FailExecution
  BY <1>0 DEF LinkInv, SendFails, FailUnregister, FailExecution
<1>2. LinkInv'
  <2>1. CASE \E r \in Resources : Acquire(r)
    <3>1. PICK r \in Resources : Acquire(r)
      BY <2>1
    <3> DEFINE next == IF ~CanAcquire(dispatcher.task, r) THEN "undoRelease"
                       ELSE IF dispatcher.todo = {r} THEN "start" ELSE "acquire"
    <3>2. next \in {"undoRelease", "start", "acquire"}
      OBVIOUS
    <3>3. dispatcher' = [dispatcher EXCEPT !.todo = @ \ {r}, !.pc = next]
      BY <3>1 DEF Acquire
    <3> HIDE DEF next
    <3> QED
      BY <1>0, <3>2, <3>3 DEF LinkInv, Dispatchers
  <2>2. CASE Resolve
    <3>1. \E x \in {"start", "acquire"} : \E B : dispatcher' = [dispatcher EXCEPT !.todo = B, !.pc = x]
      BY <2>2 DEF Resolve
    <3> QED
      BY <1>0, <3>1 DEF LinkInv, Dispatchers
  <2>3. CASE NoFreeInstance \/ SendStartTask \/ UndoUnregister
    BY <1>0, <2>3 DEF LinkInv, NoFreeInstance, SendStartTask, UndoUnregister, DispatchDone, NoDispatch
  <2>4. CASE ExpireExecution \/ ExpireRelease \/ ExpireUnregister \/ CatalogError \/ StartRefused
             \/ UndoRelease \/ DispatchError
    BY <1>0, <2>4 DEF LinkInv, ExpireExecution, ExpireRelease, ExpireUnregister, CatalogError,
       StartRefused, UndoRelease, DispatchError, NoDispatch, Dispatchers
  <2> QED
    BY <1>1, <2>1, <2>2, <2>3, <2>4 DEF DispatchStep
<1>3. t \notin sent /\ Live(t) /\ t \notin ctxDone => Queued(t)'
  BY <1>0, LossQueue
<1>4. /\ t \in sent => t \in sent'
      /\ t \in sent' => t \in sent \/ StartMsg(t) \in inbox'
      /\ StartMsg(t) \in inbox => StartMsg(t) \in inbox'
      /\ StartMsg(t) \in inbox' => StartMsg(t) \in inbox \/ t \in sent'
  <2>1. StartMsg(t) = StartMsg(dispatcher.task) => t = dispatcher.task
    BY DEF StartMsg
  <2> QED
    BY <1>1, <2>1 DEF DispatchStep, ExpireExecution, ExpireRelease, ExpireUnregister, Resolve, NoFreeInstance,
       CatalogError, Acquire, StartRefused, SendStartTask, UndoRelease, UndoUnregister,
       DispatchError, leaseVars, agentVars
<1>5. attempts'[t] = attempts[t] \/ t \in sent'
  BY <1>0, <1>1 DEF DispatchStep, ExpireExecution, ExpireRelease, ExpireUnregister, Resolve, NoFreeInstance,
     CatalogError, Acquire, StartRefused, SendStartTask, TryStartExecution, UndoRelease, UndoUnregister,
     DispatchError, leaseVars
<1>6. CASE DispatchError /\ dispatcher' # NoDispatch
  <2> DEFINE n == Notification(dispatcher.task, "failed")
  <2>1. /\ attempts[dispatcher.task] = MaxDispatchAttempts /\ sent' = sent
        /\ status' = [status EXCEPT ![dispatcher.task] = "failed"]
        /\ updates' = updates \cup {n}
    BY <1>6 DEF DispatchError
  <2>2. n.task = dispatcher.task /\ n.by = "dispatcher"
    BY DEF Notification
  <2> HIDE DEF n
  <2>3. dispatcher.task = t => t \in sent
    BY <2>1, DispatchAssumption DEF LossInv
  <2>4. Reports(t) \subseteq Reports(t)' /\ \A u \in Reports(t)' : u \in Reports(t) \/ u = n
    BY <2>1 DEF Reports
  <2>5. Reports(t)' = Reports(t) \/ t \in sent
    BY <2>1, <2>2, <2>3 DEF Reports
  <2>6. Trace(t)' => Trace(t) \/ t \in sent'
    BY <1>0, <1>4, <2>1, <2>5 DEF Trace
  <2>7. Heard(t)' => Heard(t)
    BY <1>0, <2>2, <2>4 DEF Heard
  <2>8. Linked(t) => Linked(t)'
    BY <1>0, <1>4, <2>4 DEF Linked, Endings
  <2>9. status'[t] = status[t] \/ t \in sent'
    BY <1>0, <2>1, <2>3
  <2>10. Live(t)' <=> Live(t)
    BY <1>0 DEF Live
  <2> QED
    BY <1>0, <1>2, <1>3, <1>4, <1>5, <2>1, <2>6, <2>7, <2>8, <2>9, <2>10, LossFrame
<1>7. CASE DispatchError => dispatcher' = NoDispatch
  <2>0. DispatchError => UNCHANGED <<status, updates>>
    <3>1. [dispatcher EXCEPT !.pc = "loop"] # NoDispatch
      BY <1>0 DEF NoDispatch, Dispatchers
    <3> QED
      BY <1>7, <3>1 DEF DispatchError
  <2>1. updates' = updates
    BY <2>0 DEF DispatchStep, ExpireExecution, ExpireRelease, ExpireUnregister, Resolve, NoFreeInstance,
       CatalogError, Acquire, StartRefused, SendStartTask, SendFails, UndoRelease, UndoUnregister,
       FailUnregister, FailExecution
  <2>2. Reports(t)' = Reports(t)
    BY <2>1 DEF Reports
  <2>3. Trace(t)' => Trace(t) \/ t \in sent'
    BY <1>0, <1>4, <2>2 DEF Trace
  <2>4. (Heard(t)' <=> Heard(t)) /\ (Live(t)' <=> Live(t))
    BY <1>0, <2>2 DEF Heard, Live
  <2>5. Linked(t) => Linked(t)'
    BY <1>0, <1>4, <2>2 DEF Linked, Endings
  <2>6. status'[t] \in Terminal => status[t] \in Terminal
    BY <1>0, <1>1, <2>0 DEF DispatchStep, ExpireExecution, ExpireRelease, ExpireUnregister, Resolve,
       NoFreeInstance, CatalogError, Acquire, StartRefused, SendStartTask, UndoRelease,
       UndoUnregister, taskVars, Terminal
  <2>7. t \in sent' => t \in sent \/ Linked(t)'
    BY <1>4 DEF Linked
  <2> QED
    BY <1>0, <1>2, <1>3, <1>4, <1>5, <2>3, <2>4, <2>5, <2>6, <2>7, LossFrame
<1> QED
  BY <1>6, <1>7

\* A step that says nothing of t, save that it may be cancelled or leave its queue.
LEMMA LossQuiet ==
    ASSUME QueueInv, [Next]_vars, NEW t \in Tasks, RunInv(t), LossInv(t),
           UNCHANGED <<sent, running>>, Reports(t)' = Reports(t),
           StartMsg(t) \in inbox' <=> StartMsg(t) \in inbox,
           \A a \in Agents : beat'[a].task = t => Trace(t),
           attempts'[t] = attempts[t], runner'[t] = runner[t], chan'[t] = chan[t],
           t \in ctxDone => t \in ctxDone',
           status'[t] \in Terminal => status[t] \in Terminal
    PROVE  LossInv(t)'
<1>1. Trace(t)' => Trace(t)
  BY DEF Trace
<1>2. (Live(t)' <=> Live(t)) /\ (Heard(t)' <=> Heard(t)) /\ (Linked(t)' <=> Linked(t))
  BY DEF Live, Heard, Linked, Endings
<1>3. t \notin sent /\ Live(t) /\ t \notin ctxDone => Queued(t)'
  BY LossQueue
<1> QED
  BY <1>1, <1>2, <1>3, LossFrame

\* runTask: it registers its channel before it can miss a result.
LEMMA RunnerLoss ==
    ASSUME QueueInv, NEW t \in Tasks, RunInv(t), LinkInv, LossInv(t), NEW s \in Tasks, Runner(s)
    PROVE  LinkInv' /\ LossInv(t)'
<1>0. /\ UNCHANGED <<sent, running, inbox, beat, updates, ctxDone, connected, dispatcher>>
      /\ [Next]_vars
  BY DEF Runner, RunnerRegister, RunnerResult, RunnerCancelled, RunnerWakes, RunnerExecution,
     RunnerRelease, RunnerUnregister, RunnerRemove, leaseVars, agentVars, Next
<1>1. LinkInv'
  BY <1>0 DEF LinkInv
<1>2. Reports(t)' = Reports(t) /\ (Trace(t)' <=> Trace(t))
  BY <1>0 DEF Reports, Trace
<1>3. /\ runner \in [Tasks -> {"none", "spawned", "waiting", "execution", "release", "unregister",
                               "remove", "done"}]
      /\ chan \in [Tasks -> {"none", "empty", "closed"} \cup Terminal]
      /\ status \in [Tasks -> Statuses] /\ attempts \in [Tasks -> 0..MaxDispatchAttempts]
  BY DEF QueueInv, DispatchTypeOK
<1>4. CASE s # t
  <2>1. /\ attempts'[t] = attempts[t] /\ runner'[t] = runner[t] /\ chan'[t] = chan[t]
        /\ status'[t] = status[t]
    BY <1>3, <1>4 DEF Runner, RunnerRegister, RunnerResult, RunnerCancelled, RunnerWakes,
       RunnerExecution, RunnerRelease, RunnerUnregister, RunnerRemove, RunnerMoves, leaseVars, taskVars
  <2>2. \A a \in Agents : beat'[a].task = t => Trace(t)
    BY <1>0 DEF Trace
  <2> QED
    BY <1>0, <1>1, <1>2, <2>1, <2>2, LossQuiet
<1>5. CASE s = t /\ RunnerRegister(s)
  <2>1. /\ UNCHANGED <<attempts, status>> /\ runner[t] = "spawned" /\ runner'[t] = "waiting"
        /\ chan[t] = "none"
    BY <1>3, <1>5 DEF RunnerRegister, RunnerMoves, leaseVars, taskVars, RunInv
  <2>2. Live(t) /\ Live(t)' /\ chan[t] \notin Terminal
    BY <2>1 DEF Live, Terminal
  <2>3. Linked(t) => Linked(t)'
    BY <1>0, <1>2, <2>2 DEF Linked, Endings
  <2>4. t \notin sent /\ t \notin ctxDone => Queued(t)'
    BY <1>0, <2>2, LossQueue
  <2> QED
    BY <1>0, <1>1, <1>2, <2>1, <2>2, <2>3, <2>4, LossFrame
<1>6. CASE s = t /\ ~RunnerRegister(s)
  <2>1. /\ attempts'[t] \in {0, attempts[t]}
        /\ runner'[t] \in {"execution", "release", "unregister", "remove", "done"}
    BY <1>3, <1>6 DEF Runner, RunnerResult, RunnerCancelled, RunnerWakes, RunnerExecution,
       RunnerRelease, RunnerUnregister, RunnerRemove, RunnerMoves, leaseVars
  <2>2. ~Live(t)' /\ runner'[t] # "spawned"
    BY <2>1 DEF Live
  <2> QED
    BY <1>0, <1>1, <1>2, <2>1, <2>2, LossFrame
<1> QED
  BY <1>4, <1>5, <1>6

\* The handlers: a terminal report of the agent ends in the channel of a waiting runTask.
LEMMA UpdateLoss ==
    ASSUME QueueInv, NEW t \in Tasks, RunInv(t), LinkInv, LossInv(t),
           NEW u \in updates, HandleUpdate(u)
    PROVE  LinkInv' /\ LossInv(t)'
<1>0. /\ UNCHANGED <<sent, running, inbox, beat, attempts, status, runner, ctxDone, connected, dispatcher>>
      /\ [Next]_vars
  BY DEF HandleUpdate, UpdateStore, UpdateAck, UpdateRelease, UpdateUnregister, UpdateComplete,
     NotifyLookup, NotifySend, leaseVars, agentVars, taskVars, runVars, Next
<1>1. LinkInv'
  BY <1>0 DEF LinkInv
<1>2. Trace(t)' => Trace(t)
  BY HandlerTraces
<1>3. Heard(t)' => Heard(t)
  BY <1>0, HandlerMoves DEF Heard, Reports
<1>4. Live(t)' <=> Live(t)
  BY <1>0 DEF Live
<1>5. chan \in [Tasks -> {"none", "empty", "closed"} \cup Terminal]
  BY DEF QueueInv, DispatchTypeOK
<1>6. chan[t] \in Terminal => chan'[t] \in Terminal
  BY <1>5 DEF HandleUpdate, UpdateStore, UpdateAck, UpdateRelease, UpdateUnregister, UpdateComplete,
     NotifyLookup, NotifySend, runVars, Terminal
<1>7. ASSUME NEW w \in Endings(t), w.by = "agent", Live(t)
      PROVE  (\E v \in Endings(t)' : v.by = "agent") \/ chan'[t] \in Terminal
  <2>1. chan[t] \in {"empty"} \cup Terminal
    BY <1>7 DEF LossInv, Heard, Endings, Live, RunInv
  <2>2. CASE w # u
    BY <1>7, <2>2, HandlerMoves DEF Endings, Reports
  <2>3. CASE w = u
    <3>1. u.state \in Terminal /\ u.task = t
      BY <1>7, <2>3 DEF Endings, Reports
    <3>2. ~(chan[t] \in {"none", "closed"})
      BY <2>1 DEF Terminal
    <3>3. \/ \E v \in updates' : v.task = u.task /\ v.state = u.state /\ v.by = u.by
          \/ NotifySend(u)
      BY <3>1, <3>2, HandlerEnds
    <3>4. NotifySend(u) => chan'[t] \in Terminal
      BY <1>5, <2>1, <3>1 DEF NotifySend
    <3> QED
      BY <1>7, <2>3, <3>1, <3>3, <3>4 DEF Endings, Reports
  <2> QED
    BY <2>2, <2>3
<1>8. Linked(t) /\ Live(t)' => Linked(t)'
  BY <1>0, <1>4, <1>6, <1>7 DEF Linked
<1>9. t \notin sent /\ Live(t) /\ t \notin ctxDone => Queued(t)'
  BY <1>0, LossQueue
<1> QED
  BY <1>0, <1>1, <1>2, <1>3, <1>4, <1>8, <1>9, LossFrame

\* The agents, as long as no connection is lost.
LEMMA AgentLoss ==
    ASSUME QueueInv, Prompt, Intact, Intact', NEW t \in Tasks, RunInv(t), LinkInv, LossInv(t), Agent
    PROVE  LinkInv' /\ LossInv(t)'
<1>0. /\ \A s \in Tasks : AgentOf[s] \in Agents
      /\ running \in [Agents -> SUBSET Tasks] /\ t # NoTask
      /\ beat \in [Agents -> [pc : {"none", "net", "observe", "last"}, task : Tasks \cup {NoTask}]]
      /\ drops = 0 /\ drops' = 0 /\ ~Lossy
      /\ [Next]_vars
  BY ResourceAssumption DEF QueueInv, DispatchTypeOK, Intact, Next
<1>1. UNCHANGED <<sent, attempts, status, runner, chan, ctxDone, dispatcher, queue>>
  BY DEF Agent, AgentStart, AgentDrops, AgentFinish, AgentCancel, AgentHeartbeat, Disconnect,
     Reconnect, leaseVars, taskVars, runVars
<1>2. ASSUME NEW a \in Agents, Disconnect(a)
      PROVE  FALSE
  BY <1>0, <1>2 DEF Disconnect
<1>3. LinkInv'
  BY <1>0, <1>1, <1>2 DEF LinkInv, Agent, AgentStart, AgentDrops, AgentFinish, AgentCancel,
     AgentHeartbeat, Reconnect, agentVars
<1>4. Live(t)' <=> Live(t)
  BY <1>1 DEF Live
<1>5. t \notin sent /\ Live(t) /\ t \notin ctxDone => Queued(t)'
  BY <1>0, LossQueue
<1>6. ASSUME NEW s \in Tasks, AgentStart(s)
      PROVE  LossInv(t)'
  <2>1. /\ StartMsg(s) \in inbox /\ inbox' = inbox \ {StartMsg(s)}
        /\ running' = [running EXCEPT ![AgentOf[s]] = @ \cup {s}]
        /\ updates' = updates \cup {Report(s, "running")} /\ beat' = beat
        /\ runner[s] # "spawned"
    BY <1>6 DEF AgentStart, MayAnswer
  <2>2. Report(s, "running").task = s /\ (StartMsg(t) = StartMsg(s) => t = s)
    BY DEF Report, StartMsg
  <2>3. Trace(t)' => Trace(t)
    BY <1>0, <1>1, <2>1, <2>2 DEF Trace, Reports
  <2>4. Heard(t)' /\ runner'[t] = "spawned" => Heard(t)
    BY <1>0, <1>1, <2>1, <2>2 DEF Heard, Reports
  <2>5. Linked(t) => Linked(t)'
    BY <1>0, <1>1, <2>1, <2>2 DEF Linked, Endings, Reports
  <2> QED
    BY <1>1, <1>4, <1>5, <2>3, <2>4, <2>5, LossFrame
<1>7. ASSUME NEW s \in Tasks, s \in running[AgentOf[s]], NEW st \in Terminal, AgentEnds(s, st),
             StartMsg(t) \in inbox' <=> StartMsg(t) \in inbox, beat' = beat
      PROVE  LossInv(t)'
  <2>1. /\ \A x \in Tasks : x \in running'[AgentOf[x]] <=> x \in running[AgentOf[x]] /\ x # s
        /\ \A a \in Agents : running'[a] \subseteq running[a]
        /\ updates' = updates \cup {Report(s, st)}
    BY <1>0, <1>7 DEF AgentEnds
  <2>2. Report(s, st).task = s /\ Report(s, st).state = st /\ Report(s, st).by = "agent"
    BY DEF Report
  <2>3. Trace(t)' => Trace(t)
    BY <1>0, <1>1, <1>7, <2>1, <2>2 DEF Trace, Reports
  <2>4. Heard(t)' => Heard(t)
    BY <1>0, <1>1, <1>7, <2>1, <2>2 DEF Heard, Reports
  <2>5. Linked(t) => Linked(t)'
    BY <1>0, <1>1, <1>7, <2>1, <2>2 DEF Linked, Endings, Reports
  <2> QED
    BY <1>1, <1>4, <1>5, <2>3, <2>4, <2>5, LossFrame
<1>8. ASSUME UNCHANGED <<updates, running>>, StartMsg(t) \in inbox' <=> StartMsg(t) \in inbox,
             \A a \in Agents : beat'[a].task = t => beat[a].task = t \/ t \in running[a]
      PROVE  LossInv(t)'
  <2>1. Reports(t)' = Reports(t) /\ \A a \in Agents : beat'[a].task = t => Trace(t)
    BY <1>8 DEF Reports, Trace
  <2> QED
    BY <1>0, <1>1, <1>8, <2>1, LossQuiet
<1>9. ASSUME NEW s \in Tasks, AgentFinish(s)
      PROVE  LossInv(t)'
  BY <1>7, <1>9, DispatchAssumption DEF AgentFinish, Terminal
<1>10. ASSUME NEW s \in Tasks, AgentCancel(s)
       PROVE  LossInv(t)'
  <2>1. StartMsg(t) \in inbox' <=> StartMsg(t) \in inbox
    BY <1>10 DEF AgentCancel, StartMsg, CancelMsg
  <2>2. "cancelled" \in Terminal
    BY DEF Terminal
  <2> QED
    BY <1>7, <1>8, <1>10, <2>1, <2>2 DEF AgentCancel
<1>11. ASSUME NEW b \in Agents, AgentHeartbeat(b)
       PROVE  LossInv(t)'
  <2>1. PICK x \in IF running[b] = {} THEN {NoTask} ELSE running[b] :
           beat' = [beat EXCEPT ![b] = [pc |-> "net", task |-> x]]
    BY <1>11 DEF AgentHeartbeat
  <2>2. x = NoTask \/ x \in running[b]
    BY <2>1
  <2>3. \A a \in Agents : beat'[a].task = t => beat[a].task = t \/ t \in running[a]
    BY <1>0, <2>1, <2>2
  <2> QED
    BY <1>8, <1>11, <2>3 DEF AgentHeartbeat, agentVars
<1>12. ASSUME NEW b \in Agents, Reconnect(b)
       PROVE  LossInv(t)'
  BY <1>8, <1>12 DEF Reconnect
<1>13. ASSUME NEW s \in Tasks, AgentDrops(s)
       PROVE  LossInv(t)'
  BY <1>0, <1>13 DEF AgentDrops
<1> QED
  BY <1>2, <1>3, <1>6, <1>9, <1>10, <1>11, <1>12, <1>13 DEF Agent

\* StartTask queues its task.
LEMMA StartQueues ==
    ASSUME QueueInv, NEW t \in Tasks, StartTask(t)
    PROVE  Queued(t)'
<1> DEFINE q == queue[AgentOf[t]]
<1>1. queue'[AgentOf[t]] = Append(q, t) /\ q \in Seq(Tasks)
  BY ResourceAssumption DEF StartTask, QueueInv, DispatchTypeOK
<1> HIDE DEF q
<1>2. Len(q) + 1 \in DOMAIN Append(q, t) /\ Append(q, t)[Len(q) + 1] = t
  BY <1>1
<1> QED
  BY <1>1, <1>2 DEF Queued, Range

\* The remaining steps say nothing of a task, save StartTask of its own.
LEMMA OtherLoss ==
    ASSUME QueueInv, NEW t \in Tasks, RunInv(t), LinkInv, LossInv(t),
           \/ User
           \/ \E s \in Tasks : CancelDequeue(s)
           \/ \E a \in Agents : VisitAgent(a) \/ DispatchHead(a) \/ BeatStore(a) \/ BeatObserve(a)
           \/ \E s \in Tasks, r \in Resources : ResourceEvent(s, r)
           \/ UNCHANGED vars
    PROVE  LinkInv' /\ LossInv(t)'
<1>0. /\ [Next]_vars /\ t # NoTask
      /\ beat \in [Agents -> [pc : {"none", "net", "observe", "last"}, task : Tasks \cup {NoTask}]]
      /\ status \in [Tasks -> Statuses]
      /\ runner \in [Tasks -> {"none", "spawned", "waiting", "execution", "release", "unregister",
                               "remove", "done"}]
  BY ResourceAssumption DEF QueueInv, DispatchTypeOK, Next
<1>1. CASE StartTask(t)
  <2>1. /\ UNCHANGED <<sent, running, inbox, beat, updates, attempts, connected, dispatcher>>
        /\ runner[t] = "none" /\ status'[t] = "pending"
    BY <1>0, <1>1 DEF StartTask, leaseVars, agentVars
  <2>2. Trace(t)' <=> Trace(t)
    BY <2>1 DEF Trace, Reports
  <2>3. ~Trace(t)' /\ t \notin sent'
    BY <2>1, <2>2 DEF RunInv, Trace
  <2>4. ~Heard(t)'
    BY <2>3, ResourceAssumption DEF Heard, Trace
  <2>5. LinkInv'
    BY <2>1 DEF LinkInv
  <2>6. attempts'[t] = 0
    BY <2>1, <2>3 DEF LossInv
  <2> QED
    BY <1>1, <2>1, <2>3, <2>4, <2>5, <2>6, StartQueues DEF LossInv, Terminal
<1>2. ASSUME UNCHANGED <<sent, running, updates, attempts>>,
             StartMsg(t) \in inbox' <=> StartMsg(t) \in inbox,
             \A a \in Agents : beat'[a].task \in {beat[a].task, NoTask},
             runner'[t] = runner[t], chan'[t] = chan[t], t \in ctxDone => t \in ctxDone',
             status'[t] \in {status[t], "paused", "running"}
      PROVE  LossInv(t)'
  <2>1. Reports(t)' = Reports(t) /\ \A a \in Agents : beat'[a].task = t => Trace(t)
    BY <1>0, <1>2 DEF Reports, Trace
  <2>2. status'[t] \in Terminal => status[t] \in Terminal
    BY <1>2 DEF Terminal
  <2> QED
    BY <1>0, <1>2, <2>1, <2>2, LossQuiet
<1>3. CASE User /\ ~StartTask(t)
  <2>1. /\ UNCHANGED <<sent, running, inbox, beat, updates, attempts, connected, dispatcher, chan>>
        /\ runner'[t] = runner[t] /\ (t \in ctxDone => t \in ctxDone')
        /\ status'[t] \in {status[t], "paused", "running"}
    BY <1>0, <1>3 DEF User, StartTask, CancelTask, PauseTask, ResumeTask, leaseVars, taskVars,
       runVars, agentVars
  <2>2. LinkInv'
    BY <2>1 DEF LinkInv
  <2> QED
    BY <1>2, <2>1, <2>2
<1>4. ASSUME NEW s \in Tasks, CancelDequeue(s)
      PROVE  LinkInv' /\ LossInv(t)'
  <2>1. /\ UNCHANGED <<sent, running, beat, updates, attempts, status, connected, dispatcher, chan, runner, ctxDone>>
        /\ StartMsg(t) \in inbox' <=> StartMsg(t) \in inbox
    BY <1>4 DEF CancelDequeue, leaseVars, taskVars, StartMsg, CancelMsg
  <2>2. LinkInv'
    BY <2>1 DEF LinkInv
  <2> QED
    BY <1>2, <2>1, <2>2
<1>5. ASSUME NEW a \in Agents, VisitAgent(a) \/ BeatStore(a) \/ BeatObserve(a)
      PROVE  LinkInv' /\ LossInv(t)'
  <2>1. /\ UNCHANGED <<sent, running, inbox, updates, attempts, status, connected, dispatcher, chan, runner, ctxDone>>
        /\ \A b \in Agents : beat'[b].task \in {beat[b].task, NoTask}
    BY <1>0, <1>5 DEF VisitAgent, BeatStore, BeatObserve, NoBeat, LastBeat, leaseVars, taskVars,
       runVars, agentVars
  <2>2. LinkInv'
    BY <2>1 DEF LinkInv
  <2> QED
    BY <1>2, <2>1, <2>2
<1>6. ASSUME NEW a \in Agents, DispatchHead(a)
      PROVE  LinkInv' /\ LossInv(t)'
  <2>1. UNCHANGED <<sent, running, inbox, beat, updates, attempts, status, connected, chan, runner, ctxDone>>
    BY <1>6 DEF DispatchHead, leaseVars, taskVars, runVars, agentVars
  <2>2. LinkInv'
    BY <1>6, <2>1, HeadFacts DEF LinkInv, NoDispatch
  <2> QED
    BY <1>2, <2>1, <2>2
<1>7. ASSUME NEW s \in Tasks, NEW r \in Resources, ResourceEvent(s, r)
      PROVE  LinkInv' /\ LossInv(t)'
  <2>1. UNCHANGED <<sent, running, inbox, beat, updates, attempts, status, connected, dispatcher, chan, runner, ctxDone>>
    BY <1>7 DEF ResourceEvent, leaseVars, taskVars, runVars, agentVars
  <2>2. LinkInv'
    BY <2>1 DEF LinkInv
  <2> QED
    BY <1>2, <2>1, <2>2
<1>8. CASE UNCHANGED vars
  <2>1. UNCHANGED <<sent, running, inbox, beat, updates, attempts, status, connected, dispatcher, chan, runner, ctxDone>>
    BY <1>8 DEF vars, leaseVars, taskVars, runVars, agentVars
  <2>2. LinkInv'
    BY <2>1 DEF LinkInv
  <2> QED
    BY <1>2, <2>1, <2>2
<1> QED
  BY <1>1, <1>3, <1>4, <1>5, <1>6, <1>7, <1>8

\* Connections that are lost stay counted.
LEMMA StaysIntact ==
    ASSUME QueueInv, [Next]_vars, Intact'
    PROVE  Intact
<1>1. drops \in Nat
  BY DispatchAssumption DEF QueueInv, DispatchTypeOK
<1>2. drops' = drops \/ drops' = drops + 1
  <2>1. CASE DispatchStep
    BY <2>1, DispatchFacts
  <2>2. CASE User \/ Agent
    BY <2>2 DEF User, StartTask, CancelTask, PauseTask, ResumeTask, Agent, AgentStart, AgentDrops,
       AgentFinish, AgentCancel, AgentHeartbeat, Disconnect, Reconnect, agentVars
  <2>3. ASSUME NEW s \in Tasks, Runner(s) \/ CancelDequeue(s) \/ \E r \in Resources : ResourceEvent(s, r)
        PROVE  drops' = drops
    BY <2>3 DEF Runner, RunnerRegister, RunnerResult, RunnerCancelled, RunnerWakes,
       RunnerExecution, RunnerRelease, RunnerUnregister, RunnerRemove, CancelDequeue, ResourceEvent,
       agentVars
  <2>4. ASSUME NEW u \in updates, HandleUpdate(u)
        PROVE  drops' = drops
    BY <2>4 DEF HandleUpdate, UpdateStore, UpdateAck, UpdateRelease, UpdateUnregister, UpdateComplete,
       NotifyLookup, NotifySend, agentVars
  <2>5. ASSUME NEW a \in Agents, VisitAgent(a) \/ DispatchHead(a) \/ BeatStore(a) \/ BeatObserve(a)
        PROVE  drops' = drops
    BY <2>5 DEF VisitAgent, DispatchHead, BeatStore, BeatObserve, agentVars
  <2>6. UNCHANGED vars => drops' = drops
    BY DEF vars, agentVars
  <2> QED
    BY <2>1, <2>2, <2>3, <2>4, <2>5, <2>6 DEF Next
<1> QED
  BY <1>1, <1>2 DEF Intact

\* NoStrandedTask: when runTask gets to register its channel before the agent can answer, a
\* task is never forgotten: queued, on its way, executing, reported or delivered.  Expired
\* leases, repeated starts, cancellations, failed catalogs and reports out of order included.
THEOREM NoStrandedTaskCorrect ==
    ASSUME Prompt
    PROVE  Spec => []NoStrandedTask
<1>1. Init => AllLoss
  BY ResourceAssumption DEF Init, AllLoss, LinkInv, LossInv, Trace, Reports, Live, Heard, NoBeat, NoDispatch
<1>2. QueueInv /\ AllRun /\ AllLoss /\ [Next]_vars => AllLoss'
  <2> SUFFICES ASSUME QueueInv, AllRun, AllLoss, [Next]_vars, Intact', NEW t \in Tasks
               PROVE  LinkInv' /\ LossInv(t)'
    BY DEF AllLoss
  <2>1. Intact /\ LinkInv /\ LossInv(t) /\ RunInv(t)
    BY StaysIntact DEF AllLoss, AllRun
  <2> QED
    BY <2>1, DispatchLoss, RunnerLoss, UpdateLoss, AgentLoss, OtherLoss DEF Next
<1>3. AllRun /\ AllLoss => NoStrandedTask
  BY DEF AllLoss, Intact, LossInv, NoStrandedTask, Live, Linked, Starting, Endings, Reports
<1> QED
  BY <1>1, <1>2, <1>3, QueueInvariance, RunInvariance, PTL DEF Spec

(***************************************************************************)
(* One dispatch, one execution, one result: what holds of a task when      *)
(* messages arrive within the lease and none is lost.                      *)
(*                                                                         *)
(* Then a lease never expires under a dispatch that the agent may still    *)
(* answer, so that a task is sent to its agent once, is reported as ended  *)
(* once, and its resources, its Task row and its completion channel each   *)
(* see one end.  Reports may still overtake one another, the dispatcher,   *)
(* runTask and the handlers still interleave, and catalogs may fail.       *)
(***************************************************************************)
Reliable == Punctual /\ ~Lossy /\ MaxDrops = 0

-----------------------------------------------------------------------------
(* One dispatch.                                                           *)

LineInv ==
    /\ connected = Agents
    /\ dispatcher.pc \notin {"expireExecution", "expireRelease", "expireUnregister",
                             "failRelease", "failUnregister", "failExecution"}

LifeInv(t) ==
    /\ t \notin sent => t \notin leased /\ attempts[t] = 0 /\ ~Trace(t)
    /\ t \in sent => ~Dispatching(t)
    /\ t \in sent /\ Queued(t) =>
          /\ t \in leased
          /\ StartMsg(t) \in inbox \/ \E u \in Reports(t) : u.pc \in {"net", "ack"}
    /\ StartMsg(t) \in inbox => Reports(t) = {} /\ t \notin running[AgentOf[t]]
    /\ t \in running[AgentOf[t]] => Endings(t) = {}
    /\ \A u \in Reports(t) : u.by = "agent"
    /\ \A u, v \in Endings(t) : u = v

AllLife == \A t \in Tasks : LineInv /\ LifeInv(t)

\* A step that says nothing of t.
LEMMA LifeQuiet ==
    ASSUME NEW t \in Tasks, LifeInv(t), UNCHANGED running, Reports(t)' = Reports(t),
           t \in sent' <=> t \in sent,
           StartMsg(t) \in inbox' <=> StartMsg(t) \in inbox,
           \A a \in Agents : beat'[a].task = t => Trace(t),
           attempts'[t] \in {0, attempts[t]},
           t \in leased' => t \in leased,
           t \in sent /\ Queued(t)' => Queued(t) /\ (t \in leased => t \in leased'),
           t \in sent => ~Dispatching(t)'
    PROVE  LifeInv(t)'
<1>1. Trace(t)' => Trace(t)
  BY DEF Trace
<1>2. Endings(t)' = Endings(t)
  BY DEF Endings
<1> QED
  BY <1>1, <1>2 DEF LifeInv

\* The dispatcher sends a task that was never sent, and does not come back to it.
LEMMA DispatchLife ==
    ASSUME QueueInv, LineInv, NEW t \in Tasks, RunInv(t), LifeInv(t), DispatchStep
    PROVE  LineInv' /\ LifeInv(t)'
<1>0. /\ dispatcher \in Dispatchers /\ dispatcher.agent \in Agents /\ dispatcher.task \in Tasks
      /\ dispatcher.pc \notin {"idle", "loop"}
      /\ attempts \in [Tasks -> 0..MaxDispatchAttempts]
      /\ UNCHANGED <<beat, running, connected>>
      /\ [Next]_vars
  BY DispatchFacts, DispatchedTask DEF QueueInv, DispatchTypeOK, Next
<1>1. /\ ~SendFails /\ ~FailUnregister /\ ~FailExecution
      /\ ~ExpireExecution /\ ~ExpireRelease /\ ~ExpireUnregister
  BY <1>0 DEF LineInv, SendFails, FailUnregister, FailExecution, ExpireExecution, ExpireRelease,
     ExpireUnregister
<1>2. LineInv'
  <2>1. CASE \E r \in Resources : Acquire(r)
    <3>1. PICK r \in Resources : Acquire(r)
      BY <2>1
    <3> DEFINE next == IF ~CanAcquire(dispatcher.task, r) THEN "undoRelease"
                       ELSE IF dispatcher.todo = {r} THEN "start" ELSE "acquire"
    <3>2. next \in {"undoRelease", "start", "acquire"}
      OBVIOUS
    <3>3. dispatcher' = [dispatcher EXCEPT !.todo = @ \ {r}, !.pc = next]
      BY <3>1 DEF Acquire
    <3> HIDE DEF next
    <3> QED
      BY <1>0, <3>2, <3>3 DEF LineInv, Dispatchers
  <2>2. CASE Resolve
    <3>1. \E x \in {"start", "acquire"} : \E B : dispatcher' = [dispatcher EXCEPT !.todo = B, !.pc = x]
      BY <2>2 DEF Resolve
    <3> QED
      BY <1>0, <3>1 DEF LineInv, Dispatchers
  <2>3. CASE NoFreeInstance \/ SendStartTask \/ UndoUnregister
    BY <1>0, <2>3 DEF LineInv, NoFreeInstance, SendStartTask, UndoUnregister, DispatchDone, NoDispatch
  <2>4. CASE CatalogError \/ StartRefused \/ UndoRelease \/ DispatchError
    BY <1>0, <2>4 DEF LineInv, CatalogError, StartRefused, UndoRelease, DispatchError, NoDispatch,
       Dispatchers
  <2> QED
    BY <1>1, <2>1, <2>2, <2>3, <2>4 DEF DispatchStep
<1>3. CASE dispatcher.task # t
  <2>1. ~Dispatching(t)'
    BY <1>3, DispatchFacts DEF Dispatching, NoDispatch
  <2>2. Queued(t)' => Queued(t)
    <3>1. ~StartTask(t)
      BY <1>0 DEF StartTask, TasksMuFree
    <3> QED
      BY <1>0, <3>1, QueueSteps
  <2>3. \A a \in Agents : beat'[a].task = t => Trace(t)
    BY <1>0 DEF Trace
  <2> QED
    BY <1>0, <1>2, <1>3, <2>1, <2>2, <2>3, DispatchFacts, LifeQuiet
<1>4. CASE dispatcher.task = t
  <2>1. Dispatching(t) /\ t \notin sent /\ t \notin leased /\ attempts[t] = 0 /\ ~Trace(t)
    BY <1>0, <1>4 DEF LifeInv, Dispatching
  <2>2. CASE SendStartTask
    <3>1. /\ t \in sent' /\ StartMsg(t) \in inbox' /\ t \in leased' /\ updates' = updates
          /\ dispatcher' = NoDispatch
      BY <1>4, <2>2 DEF SendStartTask, TryStartExecution, DispatchDone
    <3>2. Reports(t)' = {} /\ t \notin running'[AgentOf[t]]
      BY <1>0, <2>1, <3>1, ResourceAssumption DEF Trace, Reports
    <3>3. ~Dispatching(t)' /\ Endings(t)' = {}
      BY <3>1, <3>2 DEF Dispatching, NoDispatch, Endings
    <3> QED
      BY <1>2, <3>1, <3>2, <3>3 DEF LifeInv
  <2>3. CASE ~SendStartTask
    <3>1. DispatchError => updates' = updates
      BY <1>4, <2>1, DispatchAssumption DEF DispatchError
    <3>2. UNCHANGED <<sent, inbox, attempts, leased, updates>>
      BY <1>1, <2>3, <3>1 DEF DispatchStep, Resolve, NoFreeInstance, CatalogError, Acquire,
         StartRefused, UndoRelease, UndoUnregister, DispatchError, leaseVars, agentVars
    <3>3. Reports(t)' = Reports(t) /\ \A a \in Agents : beat'[a].task = t => Trace(t)
      BY <1>0, <3>2 DEF Reports, Trace
    <3> QED
      BY <1>0, <1>2, <2>1, <3>2, <3>3, LifeQuiet
  <2> QED
    BY <2>2, <2>3
<1> QED
  BY <1>3, <1>4

\* runTask does not touch a dispatch that is under way.
LEMMA RunnerLife ==
    ASSUME QueueInv, LineInv, NEW t \in Tasks, RunInv(t), LifeInv(t), NEW s \in Tasks, Runner(s)
    PROVE  LineInv' /\ LifeInv(t)'
<1>0. /\ UNCHANGED <<sent, running, inbox, beat, updates, connected, dispatcher>>
      /\ [Next]_vars
      /\ attempts \in [Tasks -> 0..MaxDispatchAttempts]
  BY DEF Runner, RunnerRegister, RunnerResult, RunnerCancelled, RunnerWakes, RunnerExecution,
     RunnerRelease, RunnerUnregister, RunnerRemove, leaseVars, agentVars, Next, QueueInv, DispatchTypeOK
<1>1. LineInv'
  BY <1>0 DEF LineInv
<1>2. Reports(t)' = Reports(t) /\ (Dispatching(t)' <=> Dispatching(t))
      /\ \A a \in Agents : beat'[a].task = t => Trace(t)
  BY <1>0 DEF Reports, Dispatching, Trace
<1>3. attempts'[t] \in {0, attempts[t]} /\ (t \in leased' => t \in leased)
  BY <1>0 DEF Runner, RunnerRegister, RunnerResult, RunnerCancelled, RunnerWakes, RunnerExecution,
     RunnerRelease, RunnerUnregister, RunnerRemove, leaseVars
<1>4. Queued(t)' => Queued(t) /\ (t \in leased => t \in leased')
  <2>1. CASE RunnerRemove(s)
    <3>1. queue' = Dequeue(s) /\ leased' = leased \ {s}
      BY <2>1 DEF RunnerRemove
    <3> QED
      BY <3>1, DequeueKeeps
  <2>2. CASE ~RunnerRemove(s)
    BY <2>2 DEF Runner, RunnerRegister, RunnerResult, RunnerCancelled, RunnerWakes, RunnerExecution,
       RunnerRelease, RunnerUnregister, leaseVars, Queued
  <2> QED
    BY <2>1, <2>2
<1>5. t \in sent => ~Dispatching(t)'
  BY <1>2 DEF LifeInv
<1> QED
  BY <1>0, <1>1, <1>2, <1>3, <1>4, <1>5, LifeQuiet

\* A handler keeps the state and the sender of its report, and takes the task off its queue
\* before it goes on.
LEMMA UpdateLife ==
    ASSUME QueueInv, LineInv, NEW t \in Tasks, RunInv(t), LifeInv(t), NEW u \in updates, HandleUpdate(u)
    PROVE  LineInv' /\ LifeInv(t)'
<1>0. /\ UNCHANGED <<sent, running, inbox, beat, attempts, connected, dispatcher, runner>>
      /\ [Next]_vars
      /\ u \in Updates
  BY HandlerMoves DEF HandleUpdate, UpdateStore, UpdateAck, UpdateRelease, UpdateUnregister, UpdateComplete,
     NotifyLookup, NotifySend, leaseVars, agentVars, runVars, Next
<1>1. LineInv'
  BY <1>0 DEF LineInv
<1>2. (Dispatching(t)' <=> Dispatching(t)) /\ (Trace(t)' => Trace(t)) /\ (t \in leased' => t \in leased)
  BY <1>0, HandlerTraces DEF HandleUpdate, UpdateStore, UpdateAck, Acknowledge, UpdateRelease,
     UpdateUnregister, UpdateComplete, NotifyLookup, NotifySend, leaseVars, Dispatching
<1>3. Queued(t)' => Queued(t) /\ (t \in leased => t \in leased') /\ ~(UpdateAck(u) /\ u.task = t)
  <2>1. CASE UpdateAck(u)
    <3>1. /\ queue' = Dequeue(u.task) /\ u.task \in Tasks
          /\ \A s \in Tasks : s # u.task /\ s \in leased => s \in leased'
      BY <1>0, <2>1 DEF UpdateAck, Acknowledge, Updates
    <3> QED
      BY <3>1, DequeueKeeps
  <2>2. CASE ~UpdateAck(u)
    BY <2>2 DEF HandleUpdate, UpdateStore, UpdateRelease, UpdateUnregister, UpdateComplete,
       NotifyLookup, NotifySend, leaseVars, Queued
  <2> QED
    BY <2>1, <2>2
<1>4. CASE u.task # t
  <2>1. Reports(t)' = Reports(t)
    BY <1>4, HandlerMoves DEF Reports
  <2>2. \A a \in Agents : beat'[a].task = t => Trace(t)
    BY <1>0 DEF Trace
  <2>3. t \in sent => ~Dispatching(t)'
    BY <1>2 DEF LifeInv
  <2> QED
    BY <1>0, <1>1, <1>2, <1>3, <2>1, <2>2, <2>3, LifeQuiet
<1>5. CASE u.task = t
  <2>0. u \in Reports(t) /\ t \in sent /\ StartMsg(t) \notin inbox
    BY <1>5 DEF Reports, LifeInv, Trace
  <2>1. \A w \in Reports(t)' : \E x \in Reports(t) : w.state = x.state /\ w.by = x.by
    BY <1>5, HandlerMoves DEF Reports
  <2>2. t \in running[AgentOf[t]] => Endings(t)' = {}
    BY <2>1 DEF LifeInv, Endings
  <2>3. \A w \in Reports(t)' : w.by = "agent"
    BY <2>1 DEF LifeInv
  <2>4. \A v, w \in Endings(t)' : v = w
    <3>1. CASE updates' = updates \ {u}
      BY <3>1 DEF Endings, Reports, LifeInv
    <3>2. CASE \E v \in Updates :
                 /\ updates' = (updates \ {u}) \cup {v}
                 /\ v.task = u.task /\ v.state = u.state
      BY <1>5, <3>2 DEF Endings, Reports, LifeInv
    <3> QED
      BY <3>1, <3>2, HandlerMoves
  <2>5. CASE Queued(t)'
    <3>1. /\ t \in leased' /\ ~UpdateAck(u)
          /\ \E w \in Reports(t) : w.pc \in {"net", "ack"}
      BY <1>3, <1>5, <2>0, <2>5 DEF LifeInv
    <3>2. CASE UpdateStore(u)
      <4> DEFINE v == [u EXCEPT !.pc = "ack"]
      <4>1. v \in updates'
        BY <3>2 DEF UpdateStore, UpdateMoves
      <4>2. v.task = u.task /\ v.pc = "ack"
        BY <1>0 DEF Updates
      <4> HIDE DEF v
      <4>3. \E w \in Reports(t)' : w.pc \in {"net", "ack"}
        BY <1>5, <4>1, <4>2 DEF Reports
      <4> QED
        BY <1>0, <1>1, <1>2, <2>0, <2>2, <2>3, <2>4, <3>1, <4>3 DEF LifeInv
    <3>3. CASE ~UpdateStore(u)
      <4>1. u.pc \notin {"net", "ack"}
        BY <3>1, <3>3 DEF HandleUpdate, UpdateRelease, UpdateUnregister, UpdateComplete,
           NotifyLookup, NotifySend
      <4>2. \E w \in Reports(t)' : w.pc \in {"net", "ack"}
        BY <3>1, <4>1, HandlerMoves DEF Reports
      <4> QED
        BY <1>0, <1>1, <1>2, <2>0, <2>2, <2>3, <2>4, <3>1, <4>2 DEF LifeInv
    <3> QED
      BY <3>2, <3>3
  <2>6. CASE ~Queued(t)'
    BY <1>0, <1>1, <1>2, <2>0, <2>2, <2>3, <2>4, <2>6 DEF LifeInv
  <2> QED
    BY <2>5, <2>6
<1> QED
  BY <1>4, <1>5

\* An agent starts a task once and reports its end once.
LEMMA AgentLife ==
    ASSUME Reliable, QueueInv, LineInv, NEW t \in Tasks, RunInv(t), LifeInv(t), Agent
    PROVE  LineInv' /\ LifeInv(t)'
<1>0. /\ \A s \in Tasks : AgentOf[s] \in Agents
      /\ running \in [Agents -> SUBSET Tasks] /\ t # NoTask
      /\ beat \in [Agents -> [pc : {"none", "net", "observe", "last"}, task : Tasks \cup {NoTask}]]
  BY ResourceAssumption DEF QueueInv, DispatchTypeOK
<1>1. UNCHANGED <<sent, attempts, leased, dispatcher, queue>>
  BY DEF Agent, AgentStart, AgentDrops, AgentFinish, AgentCancel, AgentHeartbeat, Disconnect,
     Reconnect, leaseVars
<1>2. ASSUME NEW a \in Agents, Disconnect(a)
      PROVE  FALSE
  BY <1>2 DEF Disconnect, Reliable, QueueInv, DispatchTypeOK
<1>3. LineInv'
  BY <1>0, <1>1, <1>2 DEF LineInv, Agent, AgentStart, AgentDrops, AgentFinish, AgentCancel,
     AgentHeartbeat, Reconnect, agentVars
<1>4. (Dispatching(t)' <=> Dispatching(t)) /\ (Queued(t)' <=> Queued(t))
  BY <1>1 DEF Dispatching, Queued
<1>5. ASSUME UNCHANGED running, Reports(t)' = Reports(t), StartMsg(t) \in inbox' <=> StartMsg(t) \in inbox,
             \A a \in Agents : beat'[a].task = t => beat[a].task = t \/ t \in running[a]
      PROVE  LifeInv(t)'
  <2>1. \A a \in Agents : beat'[a].task = t => Trace(t)
    BY <1>5 DEF Trace
  <2>2. t \in sent => ~Dispatching(t)'
    BY <1>4 DEF LifeInv
  <2> QED
    BY <1>1, <1>4, <1>5, <2>1, <2>2, LifeQuiet
<1>6. ASSUME NEW s \in Tasks, AgentStart(s)
      PROVE  LifeInv(t)'
  <2> DEFINE n == Report(s, "running")
  <2>1. /\ StartMsg(s) \in inbox /\ inbox' = inbox \ {StartMsg(s)}
        /\ running' = [running EXCEPT ![AgentOf[s]] = @ \cup {s}]
        /\ updates' = updates \cup {n} /\ beat' = beat
    BY <1>6 DEF AgentStart
  <2>2. /\ n.task = s /\ n.state = "running" /\ n.by = "agent" /\ n.pc = "net"
        /\ StartMsg(t) = StartMsg(s) => t = s
    BY DEF Report, StartMsg
  <2> HIDE DEF n
  <2>3. CASE s = t
    <3>1. Reports(t) = {} /\ t \in sent /\ ~Dispatching(t)
      BY <2>1, <2>3 DEF LifeInv, Trace
    <3>2. Reports(t)' = {n}
      BY <2>1, <2>2, <2>3, <3>1 DEF Reports
    <3>3. Endings(t)' = {}
      BY <2>2, <3>2 DEF Endings, Terminal
    <3>4. StartMsg(t) \notin inbox'
      BY <2>1, <2>3
    <3>5. Queued(t)' => t \in leased'
      BY <1>1, <1>4, <3>1 DEF LifeInv
    <3> QED
      BY <1>1, <1>4, <2>2, <3>1, <3>2, <3>3, <3>4, <3>5 DEF LifeInv
  <2>4. CASE s # t
    <3>1. Reports(t)' = Reports(t)
      BY <2>1, <2>2, <2>4 DEF Reports
    <3>2. /\ StartMsg(t) \in inbox' <=> StartMsg(t) \in inbox
          /\ \A a \in Agents : t \in running'[a] <=> t \in running[a]
      BY <1>0, <2>1, <2>2, <2>4
    <3>3. Trace(t)' <=> Trace(t)
      BY <1>1, <2>1, <3>1, <3>2 DEF Trace
    <3>4. Endings(t)' = Endings(t)
      BY <3>1 DEF Endings
    <3> QED
      BY <1>0, <1>1, <1>4, <3>1, <3>2, <3>3, <3>4 DEF LifeInv
  <2> QED
    BY <2>3, <2>4
<1>7. ASSUME NEW s \in Tasks, s \in running[AgentOf[s]], NEW st \in Terminal, AgentEnds(s, st),
             StartMsg(t) \in inbox' <=> StartMsg(t) \in inbox, beat' = beat
      PROVE  LifeInv(t)'
  <2> DEFINE n == Report(s, st)
  <2>1. /\ \A x \in Tasks : x \in running'[AgentOf[x]] <=> x \in running[AgentOf[x]] /\ x # s
        /\ \A a \in Agents : running'[a] \subseteq running[a]
        /\ \A x \in Tasks \ {s}, a \in Agents : x \in running'[a] <=> x \in running[a]
        /\ updates' = updates \cup {n}
    BY <1>0, <1>7 DEF AgentEnds
  <2>2. n.task = s /\ n.state = st /\ n.by = "agent" /\ n.pc = "net"
    BY DEF Report
  <2> HIDE DEF n
  <2>3. CASE s = t
    <3>1. Endings(t) = {} /\ t \in sent /\ ~Dispatching(t) /\ StartMsg(t) \notin inbox
      BY <1>0, <1>7, <2>3 DEF LifeInv, Trace
    <3>2. Reports(t)' = Reports(t) \cup {n}
      BY <2>1, <2>2, <2>3 DEF Reports
    <3>3. Endings(t)' = {n}
      BY <1>7, <2>2, <3>1, <3>2 DEF Endings
    <3>4. t \notin running'[AgentOf[t]]
      BY <2>1, <2>3
    <3> QED
      BY <1>1, <1>4, <1>7, <2>2, <3>1, <3>2, <3>3, <3>4 DEF LifeInv
  <2>4. CASE s # t
    <3>1. Reports(t)' = Reports(t)
      BY <2>1, <2>2, <2>4 DEF Reports
    <3>2. \A a \in Agents : t \in running'[a] <=> t \in running[a]
      BY <2>1, <2>4
    <3>3. Trace(t)' <=> Trace(t)
      BY <1>1, <1>7, <3>1, <3>2 DEF Trace
    <3>4. Endings(t)' = Endings(t)
      BY <3>1 DEF Endings
    <3> QED
      BY <1>0, <1>1, <1>4, <1>7, <3>1, <3>2, <3>3, <3>4 DEF LifeInv
  <2> QED
    BY <2>3, <2>4
<1>8. ASSUME NEW s \in Tasks, AgentFinish(s)
      PROVE  LifeInv(t)'
  BY <1>7, <1>8, DispatchAssumption DEF AgentFinish, Terminal
<1>9. ASSUME NEW s \in Tasks, AgentCancel(s)
      PROVE  LifeInv(t)'
  <2>1. StartMsg(t) \in inbox' <=> StartMsg(t) \in inbox
    BY <1>9 DEF AgentCancel, StartMsg, CancelMsg
  <2>2. "cancelled" \in Terminal
    BY DEF Terminal
  <2>3. updates' = updates => Reports(t)' = Reports(t)
    BY DEF Reports
  <2> QED
    BY <1>5, <1>7, <1>9, <2>1, <2>2, <2>3 DEF AgentCancel
<1>10. ASSUME NEW b \in Agents, AgentHeartbeat(b)
       PROVE  LifeInv(t)'
  <2>1. PICK x \in IF running[b] = {} THEN {NoTask} ELSE running[b] :
           beat' = [beat EXCEPT ![b] = [pc |-> "net", task |-> x]]
    BY <1>10 DEF AgentHeartbeat
  <2>2. x = NoTask \/ x \in running[b]
    BY <2>1
  <2>3. \A a \in Agents : beat'[a].task = t => beat[a].task = t \/ t \in running[a]
    BY <1>0, <2>1, <2>2
  <2> QED
    BY <1>5, <1>10, <2>3 DEF AgentHeartbeat, agentVars, Reports
<1>11. ASSUME NEW b \in Agents, Reconnect(b)
       PROVE  LifeInv(t)'
  BY <1>5, <1>11 DEF Reconnect, Reports
<1>12. ASSUME NEW s \in Tasks, AgentDrops(s)
       PROVE  LifeInv(t)'
  BY <1>12 DEF AgentDrops, Reliable
<1> QED
  BY <1>2, <1>3, <1>6, <1>8, <1>9, <1>10, <1>11, <1>12 DEF Agent

\* The head of a queue that was sent before is not dispatched: its lease cannot have expired.
LEMMA OtherLife ==
    ASSUME Reliable, QueueInv, AllLife, NEW t \in Tasks, RunInv(t),
           \/ User
           \/ \E s \in Tasks : CancelDequeue(s)
           \/ \E a \in Agents : VisitAgent(a) \/ DispatchHead(a) \/ BeatStore(a) \/ BeatObserve(a)
           \/ \E s \in Tasks, r \in Resources : ResourceEvent(s, r)
           \/ UNCHANGED vars
    PROVE  LineInv' /\ LifeInv(t)'
<1>0. /\ [Next]_vars /\ t # NoTask /\ LineInv /\ LifeInv(t)
      /\ beat \in [Agents -> [pc : {"none", "net", "observe", "last"}, task : Tasks \cup {NoTask}]]
  BY ResourceAssumption DEF QueueInv, DispatchTypeOK, Next, AllLife
<1>1. t \in sent => ~StartTask(t)
  BY DEF StartTask, RunInv, Trace
<1>2. t \in sent /\ Queued(t)' => Queued(t)
  BY <1>0, <1>1, QueueSteps
<1>3. ASSUME UNCHANGED <<sent, running, updates, attempts>>, connected' = connected,
             StartMsg(t) \in inbox' <=> StartMsg(t) \in inbox,
             \A a \in Agents : beat'[a].task \in {beat[a].task, NoTask},
             t \in leased' => t \in leased,
             t \in sent /\ Queued(t)' => (t \in leased => t \in leased'),
             dispatcher' = dispatcher
      PROVE  LineInv' /\ LifeInv(t)'
  <2>1. Reports(t)' = Reports(t) /\ \A a \in Agents : beat'[a].task = t => Trace(t)
    BY <1>0, <1>3 DEF Reports, Trace
  <2>2. t \in sent => ~Dispatching(t)'
    BY <1>0, <1>3 DEF LifeInv, Dispatching
  <2>3. LineInv'
    BY <1>0, <1>3 DEF LineInv
  <2> QED
    BY <1>0, <1>2, <1>3, <2>1, <2>2, <2>3, LifeQuiet
<1>4. CASE User
  BY <1>3, <1>4 DEF User, StartTask, CancelTask, PauseTask, ResumeTask, leaseVars, runVars, agentVars
<1>5. ASSUME NEW s \in Tasks, CancelDequeue(s)
      PROVE  LineInv' /\ LifeInv(t)'
  BY <1>3, <1>5 DEF CancelDequeue, leaseVars, StartMsg, CancelMsg
<1>6. ASSUME NEW a \in Agents, VisitAgent(a) \/ BeatStore(a)
      PROVE  LineInv' /\ LifeInv(t)'
  BY <1>0, <1>3, <1>6 DEF VisitAgent, BeatStore, leaseVars, agentVars
<1>7. ASSUME NEW a \in Agents, BeatObserve(a)
      PROVE  LineInv' /\ LifeInv(t)'
  <2>1. Queued(t)' => (t \in leased => t \in leased')
    <3>1. CASE beat[a].task = t
      BY <1>0, <1>7, <3>1, DequeueKeeps DEF BeatObserve, Acknowledge
    <3>2. CASE beat[a].task # t
      BY <1>7, <3>2 DEF BeatObserve, Acknowledge
    <3> QED
      BY <3>1, <3>2
  <2>2. /\ UNCHANGED <<sent, running, updates, attempts, connected, inbox, dispatcher>>
        /\ t \in leased' => t \in leased
        /\ \A b \in Agents : beat'[b].task \in {beat[b].task, NoTask}
    BY <1>0, <1>7 DEF BeatObserve, Acknowledge, NoBeat, LastBeat, agentVars
  <2> QED
    BY <1>3, <2>1, <2>2
<1>8. ASSUME NEW s \in Tasks, NEW r \in Resources, ResourceEvent(s, r)
      PROVE  LineInv' /\ LifeInv(t)'
  BY <1>3, <1>8 DEF ResourceEvent, leaseVars, agentVars
<1>9. ASSUME NEW a \in Agents, DispatchHead(a)
      PROVE  LineInv' /\ LifeInv(t)'
  <2>1. UNCHANGED <<sent, running, updates, attempts, connected, inbox, leased, beat>>
    BY <1>9 DEF DispatchHead, leaseVars, agentVars
  <2>2. ASSUME NEW s \in Tasks, Queued(s), s \in leased
        PROVE  ~MayExpire(s)
    <3>1. s \in sent
      BY <2>2 DEF AllLife, LifeInv
    <3>2. StartMsg(s) \in inbox \/ Reports(s) # {}
      BY <2>2, <3>1 DEF AllLife, LifeInv
    <3> QED
      BY <3>2 DEF MayExpire, Reliable, Reports
  <2>3. dispatcher' = NoDispatch \/ (dispatcher'.pc = "resolve" /\ (dispatcher'.task = t => t \notin sent))
    <3>1. ASSUME NEW s \in Tasks, Queued(s), s \notin leased
          PROVE  s \notin sent
      BY <3>1 DEF AllLife, LifeInv
    <3> QED
      BY <1>9, <2>2, <3>1, HeadFacts
  <2>4. LineInv'
    BY <1>0, <2>1, <2>3 DEF LineInv, NoDispatch
  <2>5. t \in sent => ~Dispatching(t)'
    BY <2>3 DEF Dispatching, NoDispatch
  <2>6. Reports(t)' = Reports(t) /\ \A b \in Agents : beat'[b].task = t => Trace(t)
    BY <2>1 DEF Reports, Trace
  <2> QED
    BY <1>0, <1>2, <2>1, <2>4, <2>5, <2>6, LifeQuiet
<1>10. CASE UNCHANGED vars
  BY <1>3, <1>10 DEF vars, leaseVars, agentVars
<1> QED
  BY <1>4, <1>5, <1>6, <1>7, <1>8, <1>9, <1>10

\* One start, at most one end, and a lease as long as the answer is awaited.
LEMMA LifeInvariance ==
    ASSUME Reliable
    PROVE  Spec => []AllLife
<1>1. Init => AllLife
  BY ResourceAssumption DEF Init, AllLife, LineInv, LifeInv, Trace, Reports, Endings, NoBeat, NoDispatch
<1>2. QueueInv /\ AllRun /\ AllLife /\ [Next]_vars => AllLife'
  <2> SUFFICES ASSUME QueueInv, AllRun, AllLife, [Next]_vars
               PROVE  AllLife'
    OBVIOUS
  <2>1. ASSUME NEW t \in Tasks
        PROVE  LineInv' /\ LifeInv(t)'
    <3>1. LineInv /\ LifeInv(t) /\ RunInv(t)
      BY DEF AllLife, AllRun
    <3> QED
      BY <3>1, DispatchLife, RunnerLife, UpdateLife, AgentLife, OtherLife DEF Next
  <2> QED
    BY <2>1 DEF AllLife
<1> QED
  BY <1>1, <1>2, QueueInvariance, RunInvariance, PTL DEF Spec

\* A task is started once: dispatchNextQueuedTask never sends a second start_task for a task
\* whose first one was delivered, when messages are not lost and arrive within the lease.
THEOREM StartedOnceCorrect ==
    ASSUME Reliable
    PROVE  Spec => StartedOnce
<1>1. QueueInv /\ AllLife /\ [Next]_vars => [\A t \in Tasks : Sends(t) => t \notin sent]_vars
  <2> SUFFICES ASSUME QueueInv, AllLife, [Next]_vars, NEW t \in Tasks, Sends(t)
               PROVE  t \notin sent
    OBVIOUS
  <2>1. SendStartTask /\ dispatcher.task = t
    BY OnlySendAddsStart DEF Sends
  <2>2. Dispatching(t)
    BY <2>1 DEF SendStartTask, TryStartExecution, Dispatching
  <2> QED
    BY <2>2 DEF AllLife, LifeInv
<1> QED
  BY <1>1, QueueInvariance, LifeInvariance, PTL DEF Spec, StartedOnce

-----------------------------------------------------------------------------
(* One end.                                                                *)

\* How the messages about a task come and go: the agent adds the first report when it starts
\* the task and the last when it ends it, on one stream only after the one before was handled.
LEMMA ReportSteps ==
    ASSUME Reliable, QueueInv, AllRun, AllLife, [Next]_vars, NEW t \in Tasks
    PROVE  /\ t \in sent => t \in sent'
           /\ StartMsg(t) \in inbox' => StartMsg(t) \in inbox \/ t \notin sent
           /\ t \in running'[AgentOf[t]] => t \in running[AgentOf[t]] \/ StartMsg(t) \in inbox
           /\ \/ Reports(t)' \subseteq Reports(t)
              \/ \E u \in Reports(t) : \E v :
                    Reports(t)' = (Reports(t) \ {u}) \cup {v} /\ v.state = u.state
              \/ \E v : /\ Reports(t)' = Reports(t) \cup {v}
                        /\ Ordered => Reports(t) = {}
                        /\ \/ v.state = "running" /\ StartMsg(t) \in inbox
                           \/ t \in running[AgentOf[t]]
<1> DEFINE Goal ==
              /\ t \in sent => t \in sent'
              /\ StartMsg(t) \in inbox' => StartMsg(t) \in inbox \/ t \notin sent
              /\ t \in running'[AgentOf[t]] => t \in running[AgentOf[t]] \/ StartMsg(t) \in inbox
              /\ \/ Reports(t)' \subseteq Reports(t)
                 \/ \E u \in Reports(t) : \E v :
                       Reports(t)' = (Reports(t) \ {u}) \cup {v} /\ v.state = u.state
                 \/ \E v : /\ Reports(t)' = Reports(t) \cup {v}
                           /\ Ordered => Reports(t) = {}
                           /\ \/ v.state = "running" /\ StartMsg(t) \in inbox
                              \/ t \in running[AgentOf[t]]
<1>0. /\ RunInv(t) /\ LifeInv(t) /\ LineInv /\ running \in [Agents -> SUBSET Tasks]
      /\ \A s \in Tasks : AgentOf[s] \in Agents
  BY ResourceAssumption DEF QueueInv, DispatchTypeOK, AllRun, AllLife
<1>1. ASSUME UNCHANGED <<sent, running, updates>>, StartMsg(t) \in inbox' => StartMsg(t) \in inbox
      PROVE  Goal
  BY <1>1 DEF Reports
<1>2. CASE DispatchStep
  <2>1. CASE dispatcher.task # t
    BY <1>2, <2>1, DispatchFacts
  <2>2. CASE dispatcher.task = t
    <3>1. Dispatching(t) /\ t \notin sent /\ attempts[t] = 0
      BY <1>0, <1>2, <2>2, DispatchFacts DEF LifeInv, Dispatching
    <3>2. DispatchError => updates' = updates
      BY <2>2, <3>1, DispatchAssumption DEF DispatchError
    <3>3. updates' = updates /\ running' = running
      BY <1>2, <3>2 DEF DispatchStep, ExpireExecution, ExpireRelease, ExpireUnregister, Resolve,
         NoFreeInstance, CatalogError, Acquire, StartRefused, SendStartTask, SendFails, UndoRelease,
         UndoUnregister, FailUnregister, FailExecution, DispatchError, agentVars
    <3> QED
      BY <3>1, <3>3 DEF Reports
  <2> QED
    BY <2>1, <2>2
<1>3. ASSUME NEW u \in updates, HandleUpdate(u)
      PROVE  Goal
  <2>1. UNCHANGED <<sent, running, inbox>>
    BY <1>3 DEF HandleUpdate, UpdateStore, UpdateAck, UpdateRelease, UpdateUnregister, UpdateComplete,
       NotifyLookup, NotifySend, leaseVars, agentVars
  <2>2. CASE updates' = updates \ {u}
    BY <2>1, <2>2 DEF Reports
  <2>3. ASSUME NEW v \in Updates, updates' = (updates \ {u}) \cup {v}, v.task = u.task, v.state = u.state
        PROVE  Goal
    <3>1. CASE u.task = t
      BY <2>1, <2>3, <3>1 DEF Reports
    <3>2. CASE u.task # t
      BY <2>1, <2>3, <3>2 DEF Reports
    <3> QED
      BY <3>1, <3>2
  <2> QED
    BY <1>3, <2>2, <2>3, HandlerMoves
<1>4. CASE Agent
  <2>1. sent' = sent
    BY <1>4 DEF Agent, AgentStart, AgentDrops, AgentFinish, AgentCancel, AgentHeartbeat, Disconnect,
       Reconnect, leaseVars
  <2>2. ASSUME MayReport(AgentOf[t]), Ordered
        PROVE  Reports(t) = {}
    BY <1>0, <2>2 DEF MayReport, LifeInv, Reports
  <2>3. ASSUME NEW s \in Tasks, AgentStart(s)
        PROVE  Goal
    <3> DEFINE n == Report(s, "running")
    <3>1. /\ updates' = updates \cup {n} /\ n.task = s /\ n.state = "running"
          /\ StartMsg(s) \in inbox /\ inbox' \subseteq inbox /\ MayReport(AgentOf[s])
          /\ running' = [running EXCEPT ![AgentOf[s]] = @ \cup {s}]
      BY <2>3 DEF AgentStart, Report
    <3> HIDE DEF n
    <3>2. CASE s = t
      <4>1. Reports(t)' = Reports(t) \cup {n}
        BY <3>1, <3>2 DEF Reports
      <4> QED
        BY <2>1, <2>2, <3>1, <3>2, <4>1
    <3>3. CASE s # t
      <4>1. Reports(t)' = Reports(t) /\ (t \in running'[AgentOf[t]] => t \in running[AgentOf[t]])
        BY <1>0, <3>1, <3>3 DEF Reports
      <4> QED
        BY <2>1, <3>1, <4>1
    <3> QED
      BY <3>2, <3>3
  <2>4. ASSUME NEW s \in Tasks, s \in running[AgentOf[s]], MayReport(AgentOf[s]), NEW st,
               AgentEnds(s, st), inbox' \subseteq inbox
        PROVE  Goal
    <3> DEFINE n == Report(s, st)
    <3>1. /\ updates' = updates \cup {n} /\ n.task = s
          /\ t \in running'[AgentOf[t]] => t \in running[AgentOf[t]]
      BY <1>0, <2>4 DEF AgentEnds, Report
    <3> HIDE DEF n
    <3>2. CASE s = t
      <4>1. Reports(t)' = Reports(t) \cup {n}
        BY <3>1, <3>2 DEF Reports
      <4> QED
        BY <2>1, <2>2, <2>4, <3>1, <3>2, <4>1
    <3>3. CASE s # t
      <4>1. Reports(t)' = Reports(t)
        BY <3>1, <3>3 DEF Reports
      <4> QED
        BY <2>1, <2>4, <3>1, <4>1
    <3> QED
      BY <3>2, <3>3
  <2>5. ASSUME NEW s \in Tasks, AgentFinish(s) \/ AgentCancel(s)
        PROVE  Goal
    BY <1>1, <2>1, <2>4, <2>5 DEF AgentFinish, AgentCancel
  <2>6. ASSUME NEW a \in Agents, AgentHeartbeat(a) \/ Reconnect(a)
        PROVE  Goal
    BY <1>1, <2>1, <2>6 DEF AgentHeartbeat, Reconnect, agentVars
  <2>7. ASSUME NEW a \in Agents, Disconnect(a)
        PROVE  FALSE
    BY <2>7 DEF Disconnect, Reliable, QueueInv, DispatchTypeOK
  <2>8. ASSUME NEW s \in Tasks, AgentDrops(s)
        PROVE  FALSE
    BY <2>8 DEF AgentDrops, Reliable
  <2> QED
    BY <1>4, <2>3, <2>5, <2>6, <2>7, <2>8 DEF Agent
<1>5. ASSUME NEW s \in Tasks, Runner(s) \/ \E r \in Resources : ResourceEvent(s, r)
      PROVE  Goal
  BY <1>1, <1>5 DEF Runner, RunnerRegister, RunnerResult, RunnerCancelled, RunnerWakes,
     RunnerExecution, RunnerRelease, RunnerUnregister, RunnerRemove, ResourceEvent, leaseVars, agentVars
<1>6. ASSUME NEW s \in Tasks, CancelDequeue(s)
      PROVE  Goal
  BY <1>1, <1>6 DEF CancelDequeue, leaseVars, StartMsg, CancelMsg
<1>7. ASSUME NEW a \in Agents, VisitAgent(a) \/ DispatchHead(a) \/ BeatStore(a) \/ BeatObserve(a)
      PROVE  Goal
  BY <1>1, <1>7 DEF VisitAgent, DispatchHead, BeatStore, BeatObserve, leaseVars, agentVars
<1>8. CASE User \/ UNCHANGED vars
  BY <1>1, <1>8 DEF User, StartTask, CancelTask, PauseTask, ResumeTask, leaseVars, agentVars, vars
<1> QED
  BY <1>2, <1>3, <1>4, <1>5, <1>6, <1>7, <1>8 DEF Next

\* Who writes the status of a task that was sent to its agent, and its row.
LEMMA RowSteps ==
    ASSUME Reliable, QueueInv, AllRun, AllLife, [Next]_vars, NEW t \in Tasks, t \in sent
    PROVE  /\ \/ status'[t] = status[t]
              \/ t \in Pausable
              \/ RunnerResult(t) \/ RunnerCancelled(t)
           /\ \/ dbStatus'[t] = dbStatus[t]
              \/ RunnerUnregister(t)
              \/ Reports(t) # {}
<1> DEFINE Goal ==
              /\ \/ status'[t] = status[t]
                 \/ t \in Pausable
                 \/ RunnerResult(t) \/ RunnerCancelled(t)
              /\ \/ dbStatus'[t] = dbStatus[t]
                 \/ RunnerUnregister(t)
                 \/ Reports(t) # {}
<1>0. /\ RunInv(t) /\ LifeInv(t)
      /\ status \in [Tasks -> Statuses] /\ dbStatus \in [Tasks -> Statuses]
      /\ \A u \in updates : u.task \in Tasks
      /\ ~Dispatching(t) /\ runner[t] # "none"
  BY DEF QueueInv, DispatchTypeOK, Updates, AllRun, AllLife, RunInv, LifeInv, Trace
<1>1. CASE UNCHANGED <<status, dbStatus>>
  BY <1>1
<1>2. CASE DispatchStep
  <2>1. dispatcher.task # t
    BY <1>0, <1>2, DispatchFacts DEF Dispatching
  <2> QED
    BY <1>2, <2>1, DispatchFacts
<1>3. ASSUME NEW u \in updates, HandleUpdate(u)
      PROVE  Goal
  <2>1. CASE UpdateStore(u)
    <3>1. status' = status /\ dbStatus' = [dbStatus EXCEPT ![u.task] = u.state]
      BY <2>1 DEF UpdateStore, taskVars
    <3>2. u.task = t => u \in Reports(t)
      BY DEF Reports
    <3> QED
      BY <1>0, <3>1, <3>2
  <2> QED
    BY <1>1, <1>3, <2>1 DEF HandleUpdate, UpdateAck, UpdateRelease, UpdateUnregister, UpdateComplete,
       NotifyLookup, NotifySend, taskVars
<1>4. CASE Agent
  BY <1>1, <1>4 DEF Agent, AgentStart, AgentDrops, AgentFinish, AgentCancel, AgentHeartbeat, Disconnect,
     Reconnect, taskVars
<1>5. ASSUME NEW s \in Tasks, Runner(s)
      PROVE  Goal
  <2>1. CASE RunnerResult(s) \/ RunnerCancelled(s)
    BY <1>0, <2>1 DEF RunnerResult, RunnerCancelled, RunnerWakes
  <2>2. CASE RunnerUnregister(s)
    BY <1>0, <2>2 DEF RunnerUnregister, taskVars
  <2> QED
    BY <1>1, <1>5, <2>1, <2>2 DEF Runner, RunnerRegister, RunnerExecution, RunnerRelease, RunnerRemove, taskVars
<1>6. ASSUME NEW s \in Tasks, StartTask(s) \/ CancelTask(s) \/ PauseTask(s) \/ ResumeTask(s)
      PROVE  Goal
  BY <1>0, <1>6 DEF StartTask, CancelTask, PauseTask, ResumeTask, taskVars, RunInv
<1>7. ASSUME NEW s \in Tasks, CancelDequeue(s) \/ \E r \in Resources : ResourceEvent(s, r)
      PROVE  UNCHANGED <<status, dbStatus>>
  BY <1>7 DEF CancelDequeue, ResourceEvent, taskVars
<1>8. ASSUME NEW a \in Agents, VisitAgent(a) \/ DispatchHead(a) \/ BeatStore(a) \/ BeatObserve(a)
      PROVE  UNCHANGED <<status, dbStatus>>
  BY <1>8 DEF VisitAgent, DispatchHead, BeatStore, BeatObserve, taskVars
<1>9. UNCHANGED vars => UNCHANGED <<status, dbStatus>>
  BY DEF vars, taskVars
<1> QED
  BY <1>1, <1>2, <1>3, <1>4, <1>5, <1>6, <1>7, <1>8, <1>9 DEF Next, User

\* A result has been put into the completion channel of t.
Delivered(t) == chan[t] \in Terminal \cup {"closed"}

\* runTask is past its select, and the row has the status of the task.
Woken(t)  == runner[t] \in {"execution", "release", "unregister", "remove", "done"}
Stored(t) == runner[t] \in {"remove", "done"}

\* When the result is delivered, the agent has said all it had to say of t.
EndInv(t) ==
    /\ Ordered => \A u, v \in Reports(t) : u = v
    /\ Delivered(t) => /\ t \in sent /\ StartMsg(t) \notin inbox
                       /\ t \notin running[AgentOf[t]] /\ Endings(t) = {}
                       /\ Ordered => Reports(t) = {}
    /\ Woken(t) /\ t \notin Pausable => status[t] \in Terminal
    /\ Stored(t) /\ t \notin Pausable /\ Ordered => dbStatus[t] = status[t]

AllEnd == \A t \in Tasks \ Cancellable : EndInv(t)

\* runTask: how its program counter moves, and that its channel is closed from the wake-up on.
LEMMA RunnerSteps ==
    ASSUME QueueInv, AllRun, [Next]_vars, NEW t \in Tasks
    PROVE  /\ Woken(t) => chan[t] = "closed"
           /\ Woken(t)' => Woken(t) \/ RunnerResult(t) \/ RunnerCancelled(t)
           /\ Stored(t)' => Stored(t) \/ RunnerUnregister(t)
<1>0. /\ RunInv(t)
      /\ runner \in [Tasks -> {"none", "spawned", "waiting", "execution", "release", "unregister",
                               "remove", "done"}]
      /\ chan \in [Tasks -> {"none", "empty", "closed"} \cup Terminal]
  BY DEF QueueInv, DispatchTypeOK, AllRun
<1>1. Woken(t) => chan[t] = "closed"
  BY <1>0 DEF Woken, RunInv
<1>2. ASSUME NEW s \in Tasks, Runner(s)
      PROVE  /\ Woken(t)' => Woken(t) \/ RunnerResult(t) \/ RunnerCancelled(t)
             /\ Stored(t)' => Stored(t) \/ RunnerUnregister(t)
  <2>1. CASE s = t
    BY <1>0, <1>2, <2>1 DEF Runner, RunnerRegister, RunnerExecution, RunnerRelease, RunnerUnregister,
       RunnerResult, RunnerCancelled, RunnerWakes, RunnerRemove, RunnerMoves, Woken, Stored
  <2>2. CASE s # t
    BY <1>0, <1>2, <2>2 DEF Runner, RunnerRegister, RunnerExecution, RunnerRelease, RunnerUnregister,
       RunnerResult, RunnerCancelled, RunnerWakes, RunnerRemove, RunnerMoves, Woken, Stored
  <2> QED
    BY <2>1, <2>2
<1>3. CASE runner' = runner
  BY <1>1, <1>3 DEF Woken, Stored
<1>4. ASSUME NEW s \in Tasks, StartTask(s) \/ CancelTask(s) \/ PauseTask(s) \/ ResumeTask(s)
      PROVE  /\ Woken(t)' => Woken(t) \/ RunnerResult(t) \/ RunnerCancelled(t)
             /\ Stored(t)' => Stored(t) \/ RunnerUnregister(t)
  BY <1>0, <1>4 DEF StartTask, CancelTask, PauseTask, ResumeTask, runVars, Woken, Stored
<1>5. ASSUME NEW u \in updates, HandleUpdate(u)
      PROVE  runner' = runner
  BY <1>5 DEF HandleUpdate, UpdateStore, UpdateAck, UpdateRelease, UpdateUnregister, UpdateComplete,
     NotifyLookup, NotifySend, runVars
<1>6. Agent => runner' = runner
  BY DEF Agent, AgentStart, AgentDrops, AgentFinish, AgentCancel, AgentHeartbeat, Disconnect,
     Reconnect, runVars
<1>7. ASSUME NEW s \in Tasks, CancelDequeue(s) \/ \E r \in Resources : ResourceEvent(s, r)
      PROVE  runner' = runner
  BY <1>7 DEF CancelDequeue, ResourceEvent, runVars
<1>8. ASSUME NEW a \in Agents, VisitAgent(a) \/ DispatchHead(a) \/ BeatStore(a) \/ BeatObserve(a)
      PROVE  runner' = runner
  BY <1>8 DEF VisitAgent, DispatchHead, BeatStore, BeatObserve, runVars
<1>9. UNCHANGED vars \/ DispatchStep => runner' = runner
  BY DispatchFacts DEF vars, runVars
<1> QED
  BY <1>1, <1>2, <1>3, <1>4, <1>5, <1>6, <1>7, <1>8, <1>9 DEF Next, User

\* The end of a task: delivered once, and final.
LEMMA EndStep ==
    ASSUME Reliable, QueueInv, AllRun, AllLife, [Next]_vars, NEW t \in Tasks \ Cancellable, EndInv(t)
    PROVE  EndInv(t)'
<1>0. /\ t \in Tasks /\ RunInv(t) /\ LifeInv(t)
      /\ status \in [Tasks -> Statuses] /\ dbStatus \in [Tasks -> Statuses]
  BY DEF AllRun, AllLife, QueueInv, DispatchTypeOK
<1>1. Ordered => \A u, v \in Reports(t)' : u = v
  BY <1>0, ReportSteps DEF EndInv
<1>2. ASSUME Delivered(t)'
      PROVE  /\ t \in sent' /\ StartMsg(t) \notin inbox'
             /\ t \notin running'[AgentOf[t]] /\ Endings(t)' = {}
             /\ Ordered => Reports(t)' = {}
  <2>1. CASE Delivered(t)
    <3>1. /\ t \in sent /\ StartMsg(t) \notin inbox /\ t \notin running[AgentOf[t]]
          /\ Endings(t) = {} /\ (Ordered => Reports(t) = {})
      BY <2>1 DEF EndInv
    <3>2. t \in sent' /\ StartMsg(t) \notin inbox' /\ t \notin running'[AgentOf[t]]
      BY <1>0, <3>1, ReportSteps
    <3>3. \/ Reports(t)' \subseteq Reports(t)
          \/ \E u \in Reports(t) : \E v :
                Reports(t)' = (Reports(t) \ {u}) \cup {v} /\ v.state = u.state
      BY <1>0, <3>1, ReportSteps
    <3>4. Endings(t)' = {}
      BY <3>1, <3>3 DEF Endings
    <3> QED
      BY <3>1, <3>2, <3>3, <3>4
  <2>2. CASE ~Delivered(t)
    <3>1. PICK u \in Reports(t) : NotifySend(u)
      BY <1>0, <1>2, <2>2, LateChannels DEF Delivered
    <3>2. u \in updates /\ u.task = t /\ u.state \in Terminal
      BY <3>1 DEF NotifySend, QueueInv, TerminalUpdates, Reports
    <3>3. u \in Endings(t) /\ t \in sent /\ StartMsg(t) \notin inbox /\ t \notin running[AgentOf[t]]
      BY <1>0, <3>2 DEF Endings, Reports, LifeInv, Trace
    <3>4. Reports(t)' = Reports(t) \ {u} /\ UNCHANGED <<sent, inbox, running>>
      BY <3>1 DEF NotifySend, UpdateEnds, Reports, leaseVars, agentVars
    <3>5. Endings(t)' = {}
      BY <1>0, <3>3, <3>4 DEF Endings, LifeInv
    <3> QED
      BY <3>3, <3>4, <3>5 DEF EndInv
  <2> QED
    BY <2>1, <2>2
<1>3. ASSUME Woken(t)', t \notin Pausable
      PROVE  status'[t] \in Terminal
  <2>1. CASE RunnerResult(t)
    BY <1>0, <2>1 DEF RunnerResult, RunnerWakes
  <2>2. ~RunnerCancelled(t)
    BY <1>0 DEF RunnerCancelled, RunInv
  <2>3. CASE ~RunnerResult(t)
    <3>1. Woken(t) /\ t \in sent
      BY <1>0, <1>3, <2>2, <2>3, RunnerSteps DEF EndInv, Delivered
    <3> QED
      BY <1>0, <1>3, <2>2, <2>3, <3>1, RowSteps DEF EndInv
  <2> QED
    BY <2>1, <2>3
<1>4. ASSUME Stored(t)', t \notin Pausable, Ordered
      PROVE  dbStatus'[t] = status'[t]
  <2>1. CASE RunnerUnregister(t)
    BY <1>0, <2>1 DEF RunnerUnregister, taskVars
  <2>2. CASE ~RunnerUnregister(t)
    <3>1. Stored(t)
      BY <1>0, <1>4, <2>2, RunnerSteps
    <3>2. Woken(t) /\ Delivered(t) /\ runner[t] # "waiting"
      BY <1>0, <3>1, RunnerSteps DEF Woken, Stored, Delivered
    <3>3. t \in sent /\ Reports(t) = {}
      BY <1>4, <3>2 DEF EndInv
    <3>4. ~RunnerResult(t) /\ ~RunnerCancelled(t)
      BY <3>2 DEF RunnerResult, RunnerCancelled, RunnerWakes, RunnerMoves
    <3> QED
      BY <1>0, <1>4, <2>2, <3>1, <3>3, <3>4, RowSteps DEF EndInv
  <2> QED
    BY <2>1, <2>2
<1> QED
  BY <1>1, <1>2, <1>3, <1>4 DEF EndInv

\* A result is delivered once, after everything the agent reports of the task.
LEMMA EndInvariance ==
    ASSUME Reliable
    PROVE  Spec => []AllEnd
<1>1. Init => AllEnd
  BY DEF Init, AllEnd, EndInv, Delivered, Woken, Stored, Reports, Terminal
<1>2. QueueInv /\ AllRun /\ AllLife /\ AllEnd /\ [Next]_vars => AllEnd'
  BY EndStep DEF AllEnd
<1> QED
  BY <1>1, <1>2, QueueInvariance, RunInvariance, LifeInvariance, PTL DEF Spec

\* NotifyTaskComplete, which looks the channel up under a lock and sends without it, never
\* sends on a closed channel: the send that would is a second one, and there is none.
THEOREM NoSendOnClosedCorrect ==
    ASSUME Reliable, Cancellable = {}
    PROVE  Spec => []NoSendOnClosed
<1>1. QueueInv /\ AllEnd => NoSendOnClosed
  <2> SUFFICES ASSUME QueueInv, AllEnd, NEW u \in updates, u.pc = "send", chan[u.task] = "closed"
               PROVE  FALSE
    BY DEF NoSendOnClosed
  <2>1. u.task \in Tasks /\ u.state \in Terminal
    BY DEF QueueInv, DispatchTypeOK, Updates, TerminalUpdates
  <2>2. Endings(u.task) = {}
    BY <2>1 DEF AllEnd, EndInv, Delivered
  <2> QED
    BY <2>1, <2>2 DEF Endings, Reports
<1> QED
  BY <1>1, QueueInvariance, EndInvariance, PTL

\* When runTask is through, the Task row that the plan executor polls shows how the task
\* ended: no later report and no later dispatch overwrites it.
THEOREM FinishedRowFinalCorrect ==
    ASSUME Reliable, Ordered, Cancellable = {}, Pausable = {}
    PROVE  Spec => []FinishedRowFinal
<1>1. AllEnd => FinishedRowFinal
  BY DEF AllEnd, EndInv, FinishedRowFinal, Woken, Stored
<1> QED
  BY <1>1, EndInvariance, PTL

-----------------------------------------------------------------------------
(* The resources of a running task.                                        *)

\* The instances t may be bound to, and the ones it must own by now: those acquired so far
\* while it is dispatched, and all it is bound to from the end of the reservation on.
Needs(t) == Named[t] \cup Pool[t]

OnAgent(t) == StartMsg(t) \in inbox \/ t \in running[AgentOf[t]]

Claims(t) ==
    {r \in bindings[t] :
        \/ OnAgent(t)
        \/ Dispatching(t) /\ dispatcher.pc = "start"
        \/ Dispatching(t) /\ dispatcher.pc = "acquire" /\ r \notin dispatcher.todo}

UseInv(t) ==
    /\ bindings[t] \subseteq Needs(t)
    /\ \A r \in Claims(t) : OwnedBy(r, t, AgentOf[t])

\* Tasks that no user cancels and whose behaviour trees take and return other resources
\* than those the task is dispatched with.
Apart == {t \in Tasks \ Cancellable : Events[t] \cap Needs(t) = {}}

AllUse == \A t \in Apart : UseInv(t)

\* Only a few steps release what a task holds, besides the events of its own behaviour tree.
LEMMA OwnSteps ==
    ASSUME QueueInv, ResourceInv, [Next]_vars, NEW t \in Tasks, NEW r \in Resources \ Events[t],
           OwnedBy(r, t, AgentOf[t])
    PROVE  \/ OwnedBy(r, t, AgentOf[t])'
           \/ (ExpireRelease \/ UndoRelease) /\ dispatcher.task = t
           \/ RunnerRelease(t)
           \/ \E u \in Reports(t) : UpdateRelease(u)
<1> DEFINE Goal == \/ OwnedBy(r, t, AgentOf[t])'
                   \/ (ExpireRelease \/ UndoRelease) /\ dispatcher.task = t
                   \/ RunnerRelease(t)
                   \/ \E u \in Reports(t) : UpdateRelease(u)
<1>0. /\ resourceHolds \in [Resources -> Hold \cup {NoHold}] /\ resourceHolds[r].task = t
      /\ t # NoTask /\ resourceHolds[r] # NoHold
  BY ResourceAssumption DEF ResourceInv, ResourceTypeOK, OwnedBy, NoHold
<1>1. ASSUME resourceHolds'[r] = resourceHolds[r]
      PROVE  Goal
  BY <1>1 DEF OwnedBy
<1>2. ASSUME NEW s \in Tasks, s # t, NEW a,
             \/ RegisterTaskRuntime(s) \/ UnregisterTaskRuntime(s)
             \/ \E x \in Resources : TryAcquirePlanResource(s, x)
             \/ \E x \in Resources : HandleAcquireEvent(s, a, x) \/ HandleReleaseEvent(s, a, x)
             \/ ReleaseTaskResources(s, a)
      PROVE  Goal
  <2>1. KeepsHolds(t)
    BY <1>2, OthersKeepHolds
  <2> QED
    BY <1>0, <1>1, <2>1 DEF KeepsHolds
<1>3. ASSUME NEW s \in Tasks,
             \/ RegisterTaskRuntime(s) \/ UnregisterTaskRuntime(s)
             \/ \E x \in Resources : TryAcquirePlanResource(s, x)
             \/ UNCHANGED resourceVars
      PROVE  Goal
  <2>1. CASE RegisterTaskRuntime(s) \/ UnregisterTaskRuntime(s) \/ UNCHANGED resourceVars
    BY <1>1, <2>1 DEF RegisterTaskRuntime, UnregisterTaskRuntime, resourceVars
  <2>2. ASSUME NEW x \in Resources, TryAcquirePlanResource(s, x)
        PROVE  resourceHolds'[r] = resourceHolds[r]
    <3>1. CASE UNCHANGED resourceVars
      BY <3>1 DEF resourceVars
    <3>2. CASE ~Held(x) /\ RecordHold(s, AgentOf[s], x)
      BY <1>0, <3>2 DEF RecordHold, Held
    <3> QED
      BY <2>2, <3>1, <3>2 DEF TryAcquirePlanResource
  <2> QED
    BY <1>1, <1>3, <2>1, <2>2
<1>4. CASE DispatchStep
  <2>1. PICK s \in Tasks : s = dispatcher.task
    BY <1>4, DispatchFacts, DispatchedTask
  <2>2. CASE ExpireRelease \/ UndoRelease
    BY <1>2, <2>1, <2>2 DEF ExpireRelease, UndoRelease
  <2>3. CASE ~ExpireRelease /\ ~UndoRelease
    <3>1. \/ RegisterTaskRuntime(s) \/ UnregisterTaskRuntime(s)
          \/ \E x \in Resources : TryAcquirePlanResource(s, x)
          \/ UNCHANGED resourceVars
      BY <1>4, <2>1, <2>3 DEF DispatchStep, ExpireExecution, ExpireUnregister, Resolve, NoFreeInstance,
         CatalogError, Acquire, StartRefused, SendStartTask, SendFails, UndoUnregister, FailUnregister,
         FailExecution, DispatchError
    <3> QED
      BY <1>3, <3>1
  <2> QED
    BY <2>2, <2>3
<1>5. ASSUME NEW s \in Tasks, Runner(s)
      PROVE  Goal
  <2>1. CASE RunnerRelease(s)
    BY <1>2, <2>1 DEF RunnerRelease
  <2>2. CASE ~RunnerRelease(s)
    <3>1. UnregisterTaskRuntime(s) \/ UNCHANGED resourceVars
      BY <1>5, <2>2 DEF Runner, RunnerRegister, RunnerExecution, RunnerUnregister, RunnerResult,
         RunnerCancelled, RunnerWakes, RunnerRemove
    <3> QED
      BY <1>3, <3>1
  <2> QED
    BY <2>1, <2>2
<1>6. ASSUME NEW u \in updates, HandleUpdate(u)
      PROVE  Goal
  <2>1. u.task \in Tasks /\ (u.task = t => u \in Reports(t))
    BY DEF QueueInv, DispatchTypeOK, Updates, Reports
  <2>2. CASE UpdateRelease(u)
    <3>1. ReleaseTaskResources(u.task, AgentOf[u.task])
      BY <2>2 DEF UpdateRelease
    <3> QED
      BY <1>2, <2>1, <2>2, <3>1
  <2>3. CASE ~UpdateRelease(u)
    <3>1. UnregisterTaskRuntime(u.task) \/ UNCHANGED resourceVars
      BY <1>6, <2>3 DEF HandleUpdate, UpdateStore, UpdateAck, UpdateUnregister, UpdateComplete,
         NotifyLookup, NotifySend
    <3> QED
      BY <1>3, <2>1, <3>1
  <2> QED
    BY <2>2, <2>3
<1>7. ASSUME NEW s \in Tasks, NEW x \in Resources, ResourceEvent(s, x)
      PROVE  Goal
  <2>1. x \in Events[s] /\ (HandleAcquireEvent(s, AgentOf[s], x) \/ HandleReleaseEvent(s, AgentOf[s], x))
    BY <1>7 DEF ResourceEvent
  <2>2. CASE s # t
    BY <1>2, <2>1, <2>2
  <2>3. CASE s = t
    <3>1. x # r
      BY <2>1, <2>3
    <3>2. resourceHolds'[r] = resourceHolds[r]
      BY <1>0, <2>1, <3>1 DEF HandleAcquireEvent, HandleReleaseEvent, RecordHold, DropHolds, resourceVars
    <3> QED
      BY <1>1, <3>2
  <2> QED
    BY <2>2, <2>3
<1>8. CASE User
  BY <1>1, <1>8 DEF User, StartTask, CancelTask, PauseTask, ResumeTask, resourceVars
<1>9. CASE Agent
  BY <1>1, <1>9 DEF Agent, AgentStart, AgentDrops, AgentFinish, AgentCancel, AgentHeartbeat, Disconnect,
     Reconnect, resourceVars
<1>10. ASSUME NEW s \in Tasks, CancelDequeue(s)
       PROVE  Goal
  BY <1>1, <1>10 DEF CancelDequeue, resourceVars
<1>11. ASSUME NEW a \in Agents, VisitAgent(a) \/ DispatchHead(a) \/ BeatStore(a) \/ BeatObserve(a)
       PROVE  Goal
  BY <1>1, <1>11 DEF VisitAgent, DispatchHead, BeatStore, BeatObserve, resourceVars
<1>12. CASE UNCHANGED vars
  BY <1>1, <1>12 DEF vars, resourceVars
<1> QED
  BY <1>4, <1>5, <1>6, <1>7, <1>8, <1>9, <1>10, <1>11, <1>12 DEF Next

\* Steps other than a dispatch of t bind it to nothing and claim nothing more for it.
LEMMA ClaimSteps ==
    ASSUME Reliable, QueueInv, AllRun, AllLife, [Next]_vars, NEW t \in Tasks,
           DispatchStep => dispatcher.task # t
    PROVE  bindings'[t] = bindings[t] /\ Claims(t)' \subseteq Claims(t)
<1>1. StartMsg(t) \in inbox' => StartMsg(t) \in inbox
  <2>1. SendStartTask => DispatchStep
    BY DEF DispatchStep
  <2> QED
    BY <2>1, OnlySendAddsStart DEF Sends
<1>2. OnAgent(t)' => OnAgent(t)
  BY <1>1, ReportSteps DEF OnAgent
<1>3. CASE DispatchStep
  <2>1. ~Dispatching(t)' /\ bindings'[t] = bindings[t]
    BY <1>3, DispatchFacts DEF Dispatching, NoDispatch
  <2> QED
    BY <1>2, <2>1 DEF Claims
<1>4. ASSUME bindings' = bindings, dispatcher' = dispatcher
      PROVE  bindings'[t] = bindings[t] /\ Claims(t)' \subseteq Claims(t)
  BY <1>2, <1>4 DEF Claims, Dispatching
<1>5. ASSUME NEW a \in Agents, DispatchHead(a)
      PROVE  bindings'[t] = bindings[t] /\ Claims(t)' \subseteq Claims(t)
  <2>1. bindings' = bindings
    BY <1>5 DEF DispatchHead, taskVars
  <2>2. dispatcher'.pc \notin {"acquire", "start"}
    BY <1>5, HeadFacts DEF NoDispatch
  <2> QED
    BY <1>2, <2>1, <2>2 DEF Claims
<1>6. ASSUME NEW s \in Tasks, Runner(s) \/ CancelDequeue(s) \/ \E r \in Resources : ResourceEvent(s, r)
      PROVE  bindings' = bindings /\ dispatcher' = dispatcher
  BY <1>6 DEF Runner, RunnerRegister, RunnerResult, RunnerCancelled, RunnerWakes,
     RunnerExecution, RunnerRelease, RunnerUnregister, RunnerRemove, CancelDequeue, ResourceEvent, taskVars
<1>7. ASSUME NEW u \in updates, HandleUpdate(u)
      PROVE  bindings' = bindings /\ dispatcher' = dispatcher
  BY <1>7 DEF HandleUpdate, UpdateStore, UpdateAck, UpdateRelease, UpdateUnregister, UpdateComplete,
     NotifyLookup, NotifySend, taskVars
<1>8. ASSUME NEW a \in Agents, VisitAgent(a) \/ BeatStore(a) \/ BeatObserve(a)
      PROVE  bindings' = bindings /\ dispatcher' = dispatcher
  BY <1>8 DEF VisitAgent, BeatStore, BeatObserve, taskVars
<1>9. Agent => bindings' = bindings /\ dispatcher' = dispatcher
  BY DEF Agent, AgentStart, AgentDrops, AgentFinish, AgentCancel, AgentHeartbeat, Disconnect,
     Reconnect, taskVars
<1>10. User \/ UNCHANGED vars => bindings' = bindings /\ dispatcher' = dispatcher
  BY DEF User, StartTask, CancelTask, PauseTask, ResumeTask, vars, taskVars
<1> QED
  BY <1>3, <1>4, <1>5, <1>6, <1>7, <1>8, <1>9, <1>10 DEF Next

\* A dispatch of t, which is not with its agent yet: what it acquired before it keeps.
LEMMA DispatchUse ==
    ASSUME Reliable, QueueInv, AllRun, AllLife, ResourceInv, NEW t \in Apart, UseInv(t),
           DispatchStep, dispatcher.task = t
    PROVE  UseInv(t)'
<1>0. /\ t \in Tasks /\ LifeInv(t) /\ LineInv /\ [Next]_vars
      /\ dispatcher \in Dispatchers /\ dispatcher.pc \notin {"idle", "loop"}
      /\ bindings \in [Tasks -> SUBSET Resources] /\ dispatcher.agent = AgentOf[t]
      /\ Needs(t) \subseteq Resources
      /\ resourceHolds \in [Resources -> Hold \cup {NoHold}]
  BY DispatchFacts, DispatchedTask, DispatchAssumption
     DEF Apart, AllLife, QueueInv, DispatchTypeOK, Next, Needs, ResourceInv, ResourceTypeOK
<1>1. Dispatching(t) /\ t \notin sent /\ ~Trace(t)
  BY <1>0 DEF Dispatching, LifeInv
<1>2. ~OnAgent(t) /\ running' = running
  BY <1>0, <1>1, ResourceAssumption, DispatchFacts DEF OnAgent, Trace
<1>3. ASSUME NEW r \in Claims(t), ~ExpireRelease, ~UndoRelease
      PROVE  OwnedBy(r, t, AgentOf[t])'
  <2>1. r \in Needs(t) /\ OwnedBy(r, t, AgentOf[t]) /\ r \in Resources \ Events[t]
    BY <1>0, <1>3 DEF UseInv, Claims, Apart
  <2>2. ~RunnerRelease(t) /\ \A u \in Reports(t) : ~UpdateRelease(u)
    <3>1. runner' = runner
      BY <1>0, DispatchFacts DEF runVars
    <3>2. runner \in [Tasks -> {"none", "spawned", "waiting", "execution", "release", "unregister",
                                "remove", "done"}]
      BY DEF QueueInv, DispatchTypeOK
    <3> QED
      BY <1>0, <1>1, <3>1, <3>2 DEF Trace, RunnerRelease, RunnerMoves
  <2> QED
    BY <1>0, <1>3, <2>1, <2>2, OwnSteps
<1>4. CASE Resolve
  <2>1. PICK B \in Bindings(t) :
           /\ bindings' = [bindings EXCEPT ![t] = B]
           /\ dispatcher' = [dispatcher EXCEPT !.todo = B, !.pc = IF B = {} THEN "start" ELSE "acquire"]
    BY <1>4 DEF Resolve
  <2>2. B \subseteq Needs(t)
    BY <2>1 DEF Bindings, Needs
  <2>3. bindings'[t] = B /\ inbox' = inbox
    BY <1>0, <1>4, <2>1 DEF Resolve, agentVars
  <2>4. dispatcher'.todo = B /\ (dispatcher'.pc = "start" => B = {})
    BY <1>0, <2>1 DEF Dispatchers
  <2>5. Claims(t)' = {}
    BY <1>2, <2>3, <2>4 DEF Claims, OnAgent
  <2> QED
    BY <2>2, <2>3, <2>5 DEF UseInv
<1>5. ASSUME NEW r \in Resources, Acquire(r)
      PROVE  UseInv(t)'
  <2>0. bindings' = bindings /\ inbox' = inbox /\ dispatcher.pc = "acquire" /\ r \in dispatcher.todo
        /\ TryAcquirePlanResource(t, r)
    BY <1>5 DEF Acquire, taskVars, agentVars
  <2> DEFINE next == IF ~CanAcquire(t, r) THEN "undoRelease"
                     ELSE IF dispatcher.todo = {r} THEN "start" ELSE "acquire"
  <2>1. dispatcher' = [dispatcher EXCEPT !.todo = @ \ {r}, !.pc = next]
    BY <1>5 DEF Acquire
  <2>2. /\ next \in {"acquire", "start"} => CanAcquire(t, r)
        /\ next = "start" => dispatcher.todo = {r}
    OBVIOUS
  <2> HIDE DEF next
  <2>3. dispatcher'.todo = dispatcher.todo \ {r} /\ dispatcher'.pc = next
    BY <1>0, <2>1 DEF Dispatchers
  <2>4. CanAcquire(t, r) => OwnedBy(r, t, AgentOf[t])'
    <3>1. CASE ~Held(r)
      <4> DEFINE hold == [plan |-> PlanOf[t], agent |-> AgentOf[t], task |-> t]
      <4>1. resourceHolds' = [resourceHolds EXCEPT ![r] = hold] /\ hold.agent = AgentOf[t] /\ hold.task = t
        BY <2>0, <3>1 DEF TryAcquirePlanResource, RecordHold
      <4> HIDE DEF hold
      <4> QED
        BY <1>0, <4>1 DEF OwnedBy
    <3>2. CASE Held(r)
      BY <2>0, <3>2 DEF TryAcquirePlanResource, CanAcquire, OwnedBy, resourceVars
    <3> QED
      BY <3>1, <3>2
  <2>5. ~ExpireRelease /\ ~UndoRelease
    BY <2>0 DEF ExpireRelease, UndoRelease
  <2>6. ASSUME NEW x \in Claims(t)'
        PROVE  OwnedBy(x, t, AgentOf[t])'
    <3>1. (x = r /\ CanAcquire(t, r)) \/ x \in Claims(t)
      BY <1>1, <1>2, <2>0, <2>2, <2>3, <2>6 DEF Claims, OnAgent, Dispatching
    <3> QED
      BY <1>3, <2>4, <2>5, <3>1
  <2> QED
    BY <2>0, <2>6 DEF UseInv
<1>6. CASE SendStartTask
  <2>1. dispatcher.pc = "start" /\ bindings' = bindings /\ dispatcher' = NoDispatch
    BY <1>6 DEF SendStartTask, TryStartExecution, DispatchDone, taskVars
  <2>2. Claims(t)' \subseteq Claims(t) /\ ~ExpireRelease /\ ~UndoRelease
    BY <1>1, <2>1 DEF Claims, ExpireRelease, UndoRelease, NoDispatch
  <2> QED
    BY <1>3, <2>1, <2>2 DEF UseInv
<1>7. CASE NoFreeInstance \/ CatalogError \/ StartRefused \/ UndoRelease \/ UndoUnregister \/ DispatchError
  <2>1. inbox' = inbox /\ bindings'[t] \in {bindings[t], {}}
    BY <1>0, <1>7 DEF NoFreeInstance, CatalogError, StartRefused, UndoRelease, UndoUnregister, DispatchError,
       taskVars, agentVars
  <2>2. dispatcher'.pc \notin {"acquire", "start"}
    BY <1>0, <1>7 DEF NoFreeInstance, CatalogError, StartRefused, UndoRelease, UndoUnregister, DispatchError,
       DispatchDone, NoDispatch, Dispatchers
  <2>3. Claims(t)' = {}
    BY <1>2, <2>1, <2>2 DEF Claims, OnAgent
  <2> QED
    BY <2>1, <2>3 DEF UseInv
<1>8. /\ ~SendFails /\ ~FailUnregister /\ ~FailExecution
      /\ ~ExpireExecution /\ ~ExpireRelease /\ ~ExpireUnregister
  BY <1>0, DispatchFacts, DispatchedTask, ResourceAssumption
     DEF LineInv, SendFails, FailUnregister, FailExecution, ExpireExecution, ExpireRelease, ExpireUnregister
<1> QED
  BY <1>4, <1>5, <1>6, <1>7, <1>8 DEF DispatchStep

\* Every step: resources are released only after the task has ended on its agent.
LEMMA UseStep ==
    ASSUME Reliable, QueueInv, AllRun, AllLife, AllEnd, ResourceInv, [Next]_vars, NEW t \in Apart, UseInv(t)
    PROVE  UseInv(t)'
<1>0. /\ t \in Tasks /\ t \in Tasks \ Cancellable /\ LifeInv(t) /\ EndInv(t)
      /\ Needs(t) \subseteq Resources
  BY DispatchAssumption DEF Apart, AllLife, AllEnd, Needs
<1>1. CASE DispatchStep /\ dispatcher.task = t
  BY <1>1, DispatchUse
<1>2. CASE ~(DispatchStep /\ dispatcher.task = t)
  <2>1. bindings'[t] = bindings[t] /\ Claims(t)' \subseteq Claims(t)
    BY <1>0, <1>2, ClaimSteps
  <2>2. ASSUME NEW r \in Claims(t)
        PROVE  OwnedBy(r, t, AgentOf[t])'
    <3>1. r \in Resources \ Events[t] /\ OwnedBy(r, t, AgentOf[t])
      BY <1>0 DEF UseInv, Claims, Apart
    <3>2. OnAgent(t) \/ Dispatching(t)
      BY DEF Claims
    <3>3. ~RunnerRelease(t)
      <4>1. RunnerRelease(t) => Woken(t)
        BY DEF RunnerRelease, RunnerMoves, Woken
      <4>2. Woken(t) => Delivered(t)
        BY <1>0, RunnerSteps DEF Delivered
      <4> QED
        BY <1>0, <3>2, <4>1, <4>2 DEF EndInv, LifeInv, OnAgent
    <3>4. ASSUME NEW u \in Reports(t), UpdateRelease(u)
          PROVE  FALSE
      <4>1. u \in Endings(t)
        BY <3>4 DEF UpdateRelease, Endings, Reports, QueueInv, TerminalUpdates
      <4> QED
        BY <1>0, <3>2, <4>1 DEF LifeInv, OnAgent, Trace, Endings
    <3>5. ~((ExpireRelease \/ UndoRelease) /\ dispatcher.task = t)
      BY <1>2 DEF DispatchStep
    <3> QED
      BY <1>0, <3>1, <3>3, <3>4, <3>5, OwnSteps
  <2> QED
    BY <2>1, <2>2 DEF UseInv
<1> QED
  BY <1>1, <1>2

\* What a task was dispatched with is its own while it is with the agent.
LEMMA UseInvariance ==
    ASSUME Reliable
    PROVE  Spec => []AllUse
<1>1. Init => AllUse
  BY DEF Init, AllUse, Apart, UseInv, Claims
<1>2. QueueInv /\ AllRun /\ AllLife /\ AllEnd /\ ResourceInv /\ AllUse /\ [Next]_vars => AllUse'
  BY UseStep DEF AllUse
<1> QED
  BY <1>1, <1>2, QueueInvariance, RunInvariance, LifeInvariance, EndInvariance,
     DispatchKeepsResourceInv, PTL DEF Spec

\* While an agent executes a task, and from the moment it is told to, the resources bound to
\* the task are held by it, so that two tasks that use one resource never run at the same time:
\* nobody releases them, takes them or rebinds the task before its end.
THEOREM HeldWhileRunningCorrect ==
    ASSUME Reliable, Cancellable = {}, \A t \in Tasks : Events[t] \cap (Named[t] \cup Pool[t]) = {}
    PROVE  Spec => []HeldWhileRunning
<1>1. QueueInv /\ AllRun /\ AllUse => HeldWhileRunning
  <2> SUFFICES ASSUME AllRun, AllUse, NEW a \in Agents, NEW t \in Starting(a) \cup running[a], t \in Tasks,
                      NEW r \in bindings[t]
               PROVE  OwnedBy(r, t, a)
    BY DEF HeldWhileRunning, Starting, QueueInv, DispatchTypeOK
  <2>1. AgentOf[t] = a /\ OnAgent(t)
    BY DEF AllRun, RunInv, Starting, OnAgent
  <2>2. UseInv(t)
    BY DEF AllUse, Apart, Needs
  <2> QED
    BY <2>1, <2>2 DEF UseInv, Claims
<1> QED
  BY <1>1, QueueInvariance, RunInvariance, UseInvariance, PTL
=============================================================================
